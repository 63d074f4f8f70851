--------------------------- MODULE ProgramsProofs ---------------------------
(***************************************************************************)
(* Proofs about Programs and the readers of Catalogue, for any users,      *)
(* rules, dossiers and number of versions.                                 *)
(***************************************************************************)
EXTENDS Catalogue, SequenceTheorems, FiniteSetTheorems, TLAPS

\* What is true of a version from its creation on: a review that stands is a
\* review of the present content by somebody else, and nothing leaves BROUILLON
\* without one, except what migration 027 put in force.
Relue(v) ==
  /\ v.statut = "BROUILLON" => v.prepared # Personne
  /\ v.approved # Personne =>
       /\ v.approved \in Direction \ {v.prepared, v.submitted}
       /\ v.submitted # Personne
       /\ v.vise = v.regles
  /\ v.statut # "BROUILLON" /\ v.prepared # Personne => v.approved # Personne

Relues == \A n \in DOMAIN versions : Relue(versions[n])

\* Only a submission captures a version.
Captures == \A d \in Dossiers : dossiers[d].regle # 0 => dossiers[d].soumis

\* The inductive invariant.
IInv == TypeOK /\ UnBrouillon /\ CopieConforme /\ Relues /\ Captures

-----------------------------------------------------------------------------

(* A handler that replaces one version leaves the others alone.            *)
LEMMA Remplacement ==
  ASSUME TypeOK, NEW n \in DOMAIN versions, NEW e \in Version,
         versions' = [versions EXCEPT ![n] = e]
  PROVE  /\ versions' \in Seq(Version)
         /\ Len(versions') = Len(versions)
         /\ DOMAIN versions' = DOMAIN versions
         /\ versions'[n] = e
         /\ \A i \in DOMAIN versions : i # n => versions'[i] = versions[i]
<1>1. versions \in Seq(Version)  BY DEF TypeOK
<1>2. QED  BY <1>1, ExceptSeq

(* The rows of versions are versions.                                      *)
LEMMA VersionType ==
  ASSUME TypeOK, NEW n \in DOMAIN versions
  PROVE  versions[n] \in Version
BY DEF TypeOK

(* The draft that a handler writes, whichever handler it is.               *)
Ecriture(n, e) ==
  /\ EnBrouillon(n)
  /\ e.statut = "BROUILLON"
  /\ Relue(e)
  /\ Referencee(n) => e.regles = versions[n].regles

(* Each handler that rewrites a version writes a well-formed and reviewed  *)
(* draft over a draft, and leaves the rules of a captured version alone.   *)
LEMMA Ecritures ==
  ASSUME TypeOK, Relues, ProgramsAssumption,
         NEW n \in DOMAIN versions,
         \/ \E u \in Direction : UpdateDraftVersion(u, n) \/ SubmitVersion(u, n) \/ ApproveVersion(u, n)
         \/ \E u \in Proposants : UpdateRules(u, n) \/ SubmitProposition(u, n)
  PROVE  /\ \E e \in Version : Ecriture(n, e) /\ versions' = [versions EXCEPT ![n] = e]
         /\ UNCHANGED <<programme, dossiers, maj>>
<1>0. versions[n] \in Version /\ Relue(versions[n])  BY VersionType DEF Relues
<1>1. ASSUME NEW u \in Direction, UpdateDraftVersion(u, n)
      PROVE  /\ \E e \in Version : Ecriture(n, e) /\ versions' = [versions EXCEPT ![n] = e]
             /\ UNCHANGED <<programme, dossiers, maj>>
  <2>1. PICK c \in Regles : versions' = [versions EXCEPT ![n] = Edition(versions[n], c, u)]
    BY <1>1 DEF UpdateDraftVersion
  <2>2. /\ Edition(versions[n], c, u) \in Version
        /\ Edition(versions[n], c, u).statut = versions[n].statut
        /\ Edition(versions[n], c, u).prepared = u
        /\ Edition(versions[n], c, u).approved = Personne
    BY <1>0 DEF Edition, Version, Utilisateurs, OuPersonne
  <2>3. EnBrouillon(n) /\ ~ Referencee(n)  BY <1>1 DEF UpdateDraftVersion, Modifiable
  <2>4. Ecriture(n, Edition(versions[n], c, u))
    BY <2>2, <2>3 DEF Ecriture, Relue, EnBrouillon, ProgramsAssumption
  <2>5. QED  BY <1>1, <2>1, <2>2, <2>4 DEF UpdateDraftVersion
<1>2. ASSUME NEW u \in Utilisateurs, EnBrouillon(n),
             versions' = [versions EXCEPT ![n] = Remise(versions[n], u)]
      PROVE  \E e \in Version : Ecriture(n, e) /\ versions' = [versions EXCEPT ![n] = e]
  <2>1. /\ Remise(versions[n], u) \in Version
        /\ Remise(versions[n], u).statut = versions[n].statut
        /\ Remise(versions[n], u).prepared = versions[n].prepared
        /\ Remise(versions[n], u).regles = versions[n].regles
        /\ Remise(versions[n], u).approved = Personne
    BY <1>0, <1>2 DEF Remise, Version, OuPersonne
  <2>2. Ecriture(n, Remise(versions[n], u))
    BY <1>0, <1>2, <2>1 DEF Ecriture, Relue, EnBrouillon
  <2>3. QED  BY <1>2, <2>1, <2>2
<1>3. ASSUME NEW u \in Direction, ApproveVersion(u, n)
      PROVE  /\ \E e \in Version : Ecriture(n, e) /\ versions' = [versions EXCEPT ![n] = e]
             /\ UNCHANGED <<programme, dossiers, maj>>
  <2> DEFINE e == [versions[n] EXCEPT !.approved = u, !.vise = versions[n].regles]
  <2>1. /\ e \in Version
        /\ e.statut = versions[n].statut /\ e.prepared = versions[n].prepared
        /\ e.submitted = versions[n].submitted /\ e.regles = versions[n].regles
        /\ e.approved = u /\ e.vise = versions[n].regles
    BY <1>0 DEF Version, Utilisateurs, OuPersonne
  <2>2. /\ versions' = [versions EXCEPT ![n] = e]
        /\ EnBrouillon(n) /\ Soumise(n)
        /\ u \notin {versions[n].prepared, versions[n].submitted}
        /\ UNCHANGED <<programme, dossiers, maj>>
    BY <1>3 DEF ApproveVersion, Approuvable
  <2> HIDE DEF e
  <2>3. Ecriture(n, e)
    BY <1>0, <2>1, <2>2 DEF Ecriture, Relue, EnBrouillon, Soumise
  <2>4. QED  BY <2>1, <2>2, <2>3
<1>4. ASSUME NEW u \in Proposants, UpdateRules(u, n)
      PROVE  /\ \E e \in Version : Ecriture(n, e) /\ versions' = [versions EXCEPT ![n] = e]
             /\ UNCHANGED <<programme, dossiers, maj>>
  <2>1. PICK c \in Regles : versions' = [versions EXCEPT ![n] =
          [versions[n] EXCEPT !.regles = c, !.prepared = u,
                              !.redacteurs = versions[n].redacteurs \cup {u}]]
    BY <1>4 DEF UpdateRules
  <2> DEFINE e == [versions[n] EXCEPT !.regles = c, !.prepared = u,
                                      !.redacteurs = versions[n].redacteurs \cup {u}]
  <2>2. /\ e \in Version
        /\ e.statut = versions[n].statut /\ e.prepared = u
        /\ e.approved = versions[n].approved
    BY <1>0 DEF Version, Utilisateurs, OuPersonne
  <2>3. EnBrouillon(n) /\ ~ Referencee(n) /\ ~ Soumise(n)
    BY <1>4 DEF UpdateRules, Modifiable
  <2>4. versions[n].approved = Personne  BY <1>0, <2>3 DEF Relue, Soumise
  <2>5. versions' = [versions EXCEPT ![n] = e]  BY <2>1
  <2> HIDE DEF e
  <2>6. Ecriture(n, e)
    BY <2>2, <2>3, <2>4 DEF Ecriture, Relue, EnBrouillon, ProgramsAssumption
  <2>7. QED  BY <1>4, <2>2, <2>5, <2>6 DEF UpdateRules
<1>5. QED
  BY <1>1, <1>2, <1>3, <1>4 DEF SubmitVersion, SubmitProposition, Proposable, Utilisateurs

-----------------------------------------------------------------------------

(* The four kinds of steps.                                                *)
Reecriture == \E n \in DOMAIN versions : \E e \in Version :
                /\ Ecriture(n, e)
                /\ versions' = [versions EXCEPT ![n] = e]
                /\ UNCHANGED <<programme, dossiers, maj>>

\* What a step does to the versions: nothing, the rewriting of one
\* row, a new draft, or an activation.
LEMMA Etapes ==
  ASSUME TypeOK, Relues, ProgramsAssumption, [Next]_vars
  PROVE  \/ UNCHANGED versions
         \/ Reecriture
         \/ \E u \in Direction : CreateDraftVersion(u)
         \/ \E n \in DOMAIN versions : ActivateVersion(n)
<1>1. ASSUME NEW n \in DOMAIN versions,
             \/ \E u \in Direction : UpdateDraftVersion(u, n) \/ SubmitVersion(u, n) \/ ApproveVersion(u, n)
             \/ \E u \in Proposants : UpdateRules(u, n) \/ SubmitProposition(u, n)
      PROVE  Reecriture
  BY <1>1, Ecritures DEF Reecriture
<1>2. QED
  BY <1>1 DEF Next, UpdateProgram, LireProposition, UpdateProposition, SubmitOwned, vars

(* What a draft version starts as.                                         *)
LEMMA BrouillonType ==
  ASSUME TypeOK, ProgramsAssumption, NEW u \in Direction
  PROVE  /\ Source \in Regles
         /\ Brouillon(Source, u) \in Version
         /\ Brouillon(Source, u).statut = "BROUILLON"
         /\ Relue(Brouillon(Source, u))
<1>1. Source \in Regles
  <2>1. CASE \E n \in DOMAIN versions : EnVigueur(n)
    <3>1. (CHOOSE n \in DOMAIN versions : EnVigueur(n)) \in DOMAIN versions  BY <2>1
    <3>2. QED  BY <2>1, <3>1, VersionType DEF Source, Version
  <2>2. CASE versions # <<>> /\ ~ \E n \in DOMAIN versions : EnVigueur(n)
    <3>1. versions \in Seq(Version)  BY DEF TypeOK
    <3>2. Len(versions) \in DOMAIN versions  BY <2>2, <3>1
    <3>3. QED  BY <2>2, <3>2, VersionType DEF Source, Version
  <2>3. CASE versions = <<>> /\ ~ \E n \in DOMAIN versions : EnVigueur(n)
    BY <2>3 DEF Source, TypeOK, Programme
  <2>4. QED  BY <2>1, <2>2, <2>3
<1>2. u # Personne  BY DEF ProgramsAssumption
<1>3. QED  BY <1>1, <1>2 DEF Brouillon, Version, OuPersonne, Utilisateurs, Relue

(* What a new draft adds.                                                  *)
LEMMA Ajout ==
  ASSUME TypeOK, ProgramsAssumption, NEW u \in Direction, CreateDraftVersion(u)
  PROVE  /\ versions' \in Seq(Version)
         /\ Len(versions) \in Nat /\ Len(versions') = Len(versions) + 1
         /\ DOMAIN versions = 1 .. Len(versions)
         /\ DOMAIN versions' = 1 .. Len(versions) + 1
         /\ versions'[Len(versions) + 1] = Brouillon(Source, u)
         /\ \A i \in DOMAIN versions : versions'[i] = versions[i]
<1> DEFINE e == Brouillon(Source, u)
<1>1. e \in Version  BY BrouillonType
<1>2. versions' = Append(versions, e)  BY DEF CreateDraftVersion
<1>3. versions \in Seq(Version)  BY DEF TypeOK
<1> HIDE DEF e
<1>4. /\ versions' \in Seq(Version)
      /\ Len(versions) \in Nat /\ Len(versions') = Len(versions) + 1
      /\ DOMAIN versions = 1 .. Len(versions)
      /\ DOMAIN versions' = 1 .. Len(versions) + 1
      /\ versions'[Len(versions) + 1] = e
      /\ \A i \in 1 .. Len(versions) : versions'[i] = versions[i]
  BY <1>1, <1>2, <1>3
<1>5. QED  BY <1>4 DEF e

(* What an activation makes of each version.                               *)
LEMMA Activation ==
  ASSUME TypeOK, NEW n \in DOMAIN versions, ActivateVersion(n)
  PROVE  /\ versions' \in Seq(Version)
         /\ Len(versions') = Len(versions)
         /\ DOMAIN versions' = DOMAIN versions
         /\ EnBrouillon(n) /\ versions[n].approved # Personne
         /\ programme'.regles = versions[n].regles
         /\ programme' \in Programme
         /\ \A i \in DOMAIN versions :
              /\ versions'[i] = [versions[i] EXCEPT !.statut = versions'[i].statut]
              /\ versions'[i].statut = IF i = n THEN "ACTIVE"
                                       ELSE IF EnVigueur(i) THEN "ARCHIVEE" ELSE versions[i].statut
<1> DEFINE f(i) == IF i = n THEN [versions[i] EXCEPT !.statut = "ACTIVE"]
                   ELSE IF EnVigueur(i) THEN Archiver(versions[i]) ELSE versions[i]
<1>1. versions' = [i \in DOMAIN versions |-> f(i)]  BY DEF ActivateVersion
<1>2. ASSUME NEW i \in DOMAIN versions
      PROVE  /\ f(i) \in Version
             /\ f(i) = [versions[i] EXCEPT !.statut = f(i).statut]
             /\ f(i).statut = IF i = n THEN "ACTIVE"
                              ELSE IF EnVigueur(i) THEN "ARCHIVEE" ELSE versions[i].statut
  <2>1. versions[i] \in Version  BY VersionType
  <2>2. QED  BY <2>1 DEF Archiver, Version
<1>3. versions \in Seq(Version)  BY DEF TypeOK
<1>4. Len(versions) \in Nat /\ DOMAIN versions = 1 .. Len(versions)  BY <1>3
<1> HIDE DEF f
<1>5. /\ versions' \in Seq(Version)
      /\ Len(versions') = Len(versions)
      /\ DOMAIN versions' = DOMAIN versions
  BY <1>1, <1>2, <1>4
<1>6. \A i \in DOMAIN versions : versions'[i] = f(i)  BY <1>1
<1>7. versions[n].regles \in Regles  BY VersionType DEF Version
<1>8. programme' = Publier(versions[n].regles)  BY DEF ActivateVersion
<1>9. programme' \in Programme /\ programme'.regles = versions[n].regles
  BY <1>7, <1>8 DEF TypeOK, Programme, Publier
<1>10. EnBrouillon(n) /\ versions[n].approved # Personne  BY DEF ActivateVersion, Activable
<1>11. QED  BY <1>2, <1>5, <1>6, <1>9, <1>10

-----------------------------------------------------------------------------

(* Every step keeps the rows well formed.                                  *)
LEMMA TypeInv ==
  ASSUME TypeOK, Relues, ProgramsAssumption, [Next]_vars
  PROVE  TypeOK'
<1>1. versions' \in Seq(Version) /\ Len(versions') >= Len(versions) /\ Len(versions') =< MaxVersions + 1
  <2>0. Len(versions) \in Nat /\ Len(versions) =< MaxVersions + 1 /\ MaxVersions \in Nat
    BY DEF TypeOK, ProgramsAssumption
  <2>1. CASE UNCHANGED versions  BY <2>0, <2>1 DEF TypeOK
  <2>2. CASE Reecriture
    <3>1. PICK n \in DOMAIN versions, e \in Version : versions' = [versions EXCEPT ![n] = e]
      BY <2>2 DEF Reecriture
    <3>2. versions' \in Seq(Version) /\ Len(versions') = Len(versions)  BY <3>1, Remplacement
    <3>3. QED  BY <2>0, <3>2
  <2>3. ASSUME NEW u \in Direction, CreateDraftVersion(u)
        PROVE  versions' \in Seq(Version) /\ Len(versions') >= Len(versions) /\ Len(versions') =< MaxVersions + 1
    <3>1. Len(versions) < MaxVersions  BY <2>3 DEF CreateDraftVersion
    <3>2. versions' \in Seq(Version) /\ Len(versions') = Len(versions) + 1  BY <2>3, Ajout
    <3>3. QED  BY <2>0, <3>1, <3>2
  <2>4. ASSUME NEW n \in DOMAIN versions, ActivateVersion(n)
        PROVE  versions' \in Seq(Version) /\ Len(versions') >= Len(versions) /\ Len(versions') =< MaxVersions + 1
    <3>1. versions' \in Seq(Version) /\ Len(versions') = Len(versions)  BY <2>4, Activation
    <3>2. QED  BY <2>0, <3>1
  <2>5. QED  BY <2>1, <2>2, <2>3, <2>4, Etapes
<1>2. programme' \in Programme
  <2>1. CASE UpdateProgram
    <3>1. PICK o \in Offres, s \in {programme.statut, "BROUILLON", "CLOTURE", "ARCHIVE"} :
            programme' = [programme EXCEPT !.offre = o, !.statut = s]
      BY <2>1 DEF UpdateProgram
    <3>2. QED  BY <3>1 DEF TypeOK, Programme
  <2>2. CASE UpdateProposition  BY <2>2 DEF UpdateProposition, TypeOK, Programme
  <2>3. ASSUME NEW n \in DOMAIN versions, ActivateVersion(n)  PROVE programme' \in Programme
    BY <2>3, Activation
  <2>4. CASE UNCHANGED programme  BY <2>4 DEF TypeOK
  <2>5. QED
    BY <2>1, <2>2, <2>3, <2>4 DEF Next, CreateDraftVersion, UpdateDraftVersion, SubmitVersion,
       ApproveVersion, LireProposition, UpdateRules, SubmitProposition, SubmitOwned, vars
<1>3. maj' \in {"libre", "lue"}
  BY DEF TypeOK, Next, UpdateProgram, CreateDraftVersion, UpdateDraftVersion, SubmitVersion,
     ApproveVersion, ActivateVersion, LireProposition, UpdateProposition, UpdateRules,
     SubmitProposition, SubmitOwned, vars
<1>4. dossiers' \in [Dossiers -> [soumis: BOOLEAN, regle: 0 .. Len(versions')]]
  <2>0. Len(versions) \in Nat /\ Len(versions') \in Nat  BY <1>1 DEF TypeOK
  <2>1. CASE UNCHANGED dossiers
    <3>1. 0 .. Len(versions) \subseteq 0 .. Len(versions')  BY <1>1, <2>0
    <3>2. QED  BY <2>1, <3>1 DEF TypeOK
  <2>2. ASSUME NEW d \in Dossiers, SubmitOwned(d)
        PROVE  dossiers' \in [Dossiers -> [soumis: BOOLEAN, regle: 0 .. Len(versions')]]
    <3>1. ActiveRuleVersion \in 0 .. Len(versions)
      <4>1. DOMAIN versions = 1 .. Len(versions)
        <5>1. versions \in Seq(Version)  BY DEF TypeOK
        <5>2. QED  BY <5>1
      <4>2. CASE \E n \in DOMAIN versions : EnVigueur(n)
        BY <2>0, <4>1, <4>2 DEF ActiveRuleVersion
      <4>3. CASE ~ \E n \in DOMAIN versions : EnVigueur(n)
        BY <2>0, <4>3 DEF ActiveRuleVersion
      <4>4. QED  BY <4>2, <4>3
    <3>2. UNCHANGED versions  BY <2>2 DEF SubmitOwned
    <3>3. QED  BY <2>2, <3>1, <3>2 DEF SubmitOwned, TypeOK
  <2>3. QED
    BY <2>1, <2>2 DEF Next, UpdateProgram, CreateDraftVersion, UpdateDraftVersion, SubmitVersion,
       ApproveVersion, ActivateVersion, LireProposition, UpdateProposition, UpdateRules,
       SubmitProposition, vars
<1>5. QED  BY <1>1, <1>2, <1>3, <1>4 DEF TypeOK

(* Every step keeps one draft, the last version, and one version in force. *)
LEMMA BrouillonInv ==
  ASSUME TypeOK, Relues, ProgramsAssumption, UnBrouillon, [Next]_vars
  PROVE  UnBrouillon'
<1>1. CASE UNCHANGED versions  BY <1>1 DEF UnBrouillon, EnBrouillon, EnVigueur
<1>2. CASE Reecriture
  <2>1. PICK n \in DOMAIN versions, e \in Version :
          Ecriture(n, e) /\ versions' = [versions EXCEPT ![n] = e]
    BY <1>2 DEF Reecriture
  <2>2. \A i \in DOMAIN versions : versions'[i].statut = versions[i].statut
    BY <2>1, Remplacement DEF Ecriture, EnBrouillon
  <2>3. DOMAIN versions' = DOMAIN versions /\ Len(versions') = Len(versions)
    BY <2>1, Remplacement
  <2>4. QED  BY <2>2, <2>3 DEF UnBrouillon, EnBrouillon, EnVigueur
<1>3. ASSUME NEW u \in Direction, CreateDraftVersion(u)  PROVE UnBrouillon'
  <2>1. \A i \in DOMAIN versions : ~ EnBrouillon(i)
    BY <1>3 DEF CreateDraftVersion, AucunBrouillon
  <2>2. versions'[Len(versions) + 1].statut = "BROUILLON"  BY <1>3, Ajout, BrouillonType
  <2>3. QED  BY <1>3, <2>1, <2>2, Ajout DEF UnBrouillon, EnBrouillon, EnVigueur
<1>4. ASSUME NEW n \in DOMAIN versions, ActivateVersion(n)  PROVE UnBrouillon'
  <2>1. \A i \in DOMAIN versions :
          versions'[i].statut = IF i = n THEN "ACTIVE"
                                ELSE IF EnVigueur(i) THEN "ARCHIVEE" ELSE versions[i].statut
    BY <1>4, Activation
  <2>2. DOMAIN versions' = DOMAIN versions /\ Len(versions') = Len(versions)
    BY <1>4, Activation
  <2>3. QED  BY <2>1, <2>2 DEF UnBrouillon, EnBrouillon, EnVigueur
<1>5. QED  BY <1>1, <1>2, <1>3, <1>4, Etapes

(* Every step keeps every standing review a review of what is there.       *)
LEMMA ReluesInv ==
  ASSUME TypeOK, Relues, ProgramsAssumption, [Next]_vars
  PROVE  Relues'
<1>1. CASE UNCHANGED versions  BY <1>1 DEF Relues
<1>2. CASE Reecriture
  <2>1. PICK n \in DOMAIN versions, e \in Version :
          Ecriture(n, e) /\ versions' = [versions EXCEPT ![n] = e]
    BY <1>2 DEF Reecriture
  <2>2. \A i \in DOMAIN versions : versions'[i] = IF i = n THEN e ELSE versions[i]
    BY <2>1, Remplacement
  <2>3. QED  BY <2>1, <2>2, Remplacement DEF Relues, Ecriture
<1>3. ASSUME NEW u \in Direction, CreateDraftVersion(u)  PROVE Relues'
  BY <1>3, Ajout, BrouillonType DEF Relues
<1>4. ASSUME NEW n \in DOMAIN versions, ActivateVersion(n)  PROVE Relues'
  <2>1. SUFFICES ASSUME NEW i \in DOMAIN versions  PROVE Relue(versions'[i])
    BY <1>4, Activation DEF Relues
  <2>2. versions[i] \in Version /\ Relue(versions[i])  BY VersionType DEF Relues
  <2>3. /\ versions'[i] = [versions[i] EXCEPT !.statut = versions'[i].statut]
        /\ versions'[i].statut = IF i = n THEN "ACTIVE"
                                 ELSE IF EnVigueur(i) THEN "ARCHIVEE" ELSE versions[i].statut
        /\ versions[n].approved # Personne
    BY <1>4, Activation
  <2>4. /\ versions'[i].prepared = versions[i].prepared
        /\ versions'[i].submitted = versions[i].submitted
        /\ versions'[i].approved = versions[i].approved
        /\ versions'[i].vise = versions[i].vise
        /\ versions'[i].regles = versions[i].regles
    BY <2>2, <2>3 DEF Version
  <2>5. QED  BY <2>2, <2>3, <2>4 DEF Relue, EnVigueur
<1>5. QED  BY <1>1, <1>2, <1>3, <1>4, Etapes

(* Every step keeps the programme's columns those of the version in force. *)
LEMMA CopieInv ==
  ASSUME TypeOK, Relues, ProgramsAssumption, CopieConforme, [Next]_vars
  PROVE  CopieConforme'
<1>1. ASSUME NEW n \in DOMAIN versions, ActivateVersion(n)  PROVE CopieConforme'
  <2>1. SUFFICES ASSUME NEW i \in DOMAIN versions, versions'[i].statut = "ACTIVE"
                 PROVE  programme'.regles = versions'[i].regles
    BY <1>1, Activation DEF CopieConforme, EnVigueur
  <2>2. i = n  BY <1>1, <2>1, Activation DEF EnVigueur
  <2>3. versions'[n] = [versions[n] EXCEPT !.statut = versions'[n].statut]
    BY <1>1, Activation
  <2>4. versions'[n].regles = versions[n].regles  BY <2>3, VersionType DEF Version
  <2>5. QED  BY <1>1, <2>2, <2>4, Activation
<1>2. CASE ~ \E n \in DOMAIN versions : ActivateVersion(n)
  <2>1. programme'.regles = programme.regles
    BY <1>2 DEF TypeOK, Programme, Next, UpdateProgram, CreateDraftVersion, UpdateDraftVersion,
       SubmitVersion, ApproveVersion, LireProposition, UpdateProposition, UpdateRules,
       SubmitProposition, SubmitOwned, vars
  <2>2. CASE UNCHANGED versions  BY <2>1, <2>2 DEF CopieConforme, EnVigueur
  <2>3. CASE Reecriture
    <3>1. PICK n \in DOMAIN versions, e \in Version :
            Ecriture(n, e) /\ versions' = [versions EXCEPT ![n] = e]
      BY <2>3 DEF Reecriture
    <3>2. \A i \in DOMAIN versions : versions'[i] = IF i = n THEN e ELSE versions[i]
      BY <3>1, Remplacement
    <3>3. QED  BY <2>1, <3>1, <3>2, Remplacement DEF CopieConforme, EnVigueur, Ecriture
  <2>4. ASSUME NEW u \in Direction, CreateDraftVersion(u)  PROVE CopieConforme'
    BY <2>1, <2>4, Ajout, BrouillonType DEF CopieConforme, EnVigueur
  <2>5. QED  BY <1>2, <2>2, <2>3, <2>4, Etapes
<1>3. QED  BY <1>1, <1>2

(* A captured version and its criteria do not change.                      *)
LEMMA CaptureStep ==
  ASSUME TypeOK, Relues, ProgramsAssumption, [Next]_vars,
         Captures, NEW d \in Dossiers, dossiers[d].regle # 0
  PROVE  /\ dossiers'[d].regle = dossiers[d].regle
         /\ versions'[dossiers[d].regle].regles = versions[dossiers[d].regle].regles
<1>1. dossiers'[d].regle = dossiers[d].regle
  BY DEF Captures, TypeOK, Next, UpdateProgram, CreateDraftVersion, UpdateDraftVersion, SubmitVersion,
     ApproveVersion, ActivateVersion, LireProposition, UpdateProposition, UpdateRules,
     SubmitProposition, SubmitOwned, vars
<1> DEFINE k == dossiers[d].regle
<1>2. k \in DOMAIN versions /\ Referencee(k)
  <2>1. versions \in Seq(Version) /\ k \in 0 .. Len(versions)  BY DEF TypeOK
  <2>2. QED  BY <2>1 DEF Referencee
<1> HIDE DEF k
<1>3. versions'[k].regles = versions[k].regles
  <2>1. CASE UNCHANGED versions  BY <2>1
  <2>2. CASE Reecriture
    <3>1. PICK n \in DOMAIN versions, e \in Version :
            Ecriture(n, e) /\ versions' = [versions EXCEPT ![n] = e]
      BY <2>2 DEF Reecriture
    <3>2. versions'[k] = IF k = n THEN e ELSE versions[k]  BY <1>2, <3>1, Remplacement
    <3>3. QED  BY <1>2, <3>1, <3>2 DEF Ecriture
  <2>3. ASSUME NEW u \in Direction, CreateDraftVersion(u)
        PROVE  versions'[k].regles = versions[k].regles
    BY <1>2, <2>3, Ajout
  <2>4. ASSUME NEW n \in DOMAIN versions, ActivateVersion(n)
        PROVE  versions'[k].regles = versions[k].regles
    <3>1. versions'[k] = [versions[k] EXCEPT !.statut = versions'[k].statut]
      BY <1>2, <2>4, Activation
    <3>2. QED  BY <1>2, <3>1, VersionType DEF Version
  <2>5. QED  BY <2>1, <2>2, <2>3, <2>4, Etapes
<1>4. QED  BY <1>1, <1>3 DEF k

(* Every step keeps captures to submitted dossiers.                        *)
LEMMA CapturesInv ==
  ASSUME TypeOK, Captures, [Next]_vars
  PROVE  Captures'
<1>1. CASE UNCHANGED dossiers  BY <1>1 DEF Captures
<1>2. ASSUME NEW d \in Dossiers, SubmitOwned(d)  PROVE Captures'
  BY <1>2 DEF SubmitOwned, Captures, TypeOK
<1>3. QED
  BY <1>1, <1>2 DEF Next, UpdateProgram, CreateDraftVersion, UpdateDraftVersion, SubmitVersion,
     ApproveVersion, ActivateVersion, LireProposition, UpdateProposition, UpdateRules,
     SubmitProposition, vars

(* What createProgram, the migration or an import leaves satisfies it.     *)
LEMMA InitIInv ==
  ASSUME ProgramsAssumption, Init
  PROVE  IInv
<1>1. PICK c \in Regles, o \in Offres :
        \/ \E u \in Direction :
             /\ programme = [statut |-> "BROUILLON", regles |-> c, offre |-> o, createdBy |-> Personne]
             /\ versions = <<Brouillon(c, u)>>
        \/ \E u \in Proposants :
             /\ programme = [statut |-> "BROUILLON", regles |-> c, offre |-> o, createdBy |-> u]
             /\ versions = <<Brouillon(c, u)>>
        \/ /\ programme = [statut |-> "ACTIVE", regles |-> c, offre |-> o, createdBy |-> Personne]
           /\ \/ versions = <<>>
              \/ versions = <<[statut |-> "ACTIVE", regles |-> c, prepared |-> Personne,
                               submitted |-> Personne, approved |-> Personne,
                               vise |-> c, redacteurs |-> {}]>>
  BY DEF Init
<1>2. /\ programme \in Programme
      /\ programme.regles = c
  BY <1>1 DEF Programme, OuPersonne, Utilisateurs
<1>3. \/ versions = <<>>
      \/ \E e \in Version :
           /\ versions = <<e>>
           /\ e.regles = c
           /\ Relue(e)
  <2>1. CASE \E u \in Direction \cup Proposants : versions = <<Brouillon(c, u)>>
    <3>1. PICK u \in Direction \cup Proposants : versions = <<Brouillon(c, u)>>  BY <2>1
    <3>2. u # Personne  BY DEF ProgramsAssumption
    <3>3. Brouillon(c, u) \in Version  BY DEF Brouillon, Version, OuPersonne, Utilisateurs
    <3>4. Relue(Brouillon(c, u))  BY <3>2 DEF Brouillon, Relue
    <3>5. Brouillon(c, u).regles = c  BY DEF Brouillon
    <3>6. QED  BY <3>1, <3>3, <3>4, <3>5
  <2>2. CASE versions = <<[statut |-> "ACTIVE", regles |-> c, prepared |-> Personne,
                           submitted |-> Personne, approved |-> Personne,
                           vise |-> c, redacteurs |-> {}]>>
    <3> DEFINE e == [statut |-> "ACTIVE", regles |-> c, prepared |-> Personne,
                     submitted |-> Personne, approved |-> Personne,
                     vise |-> c, redacteurs |-> {}]
    <3>1. e \in Version /\ e.regles = c  BY DEF Version, OuPersonne
    <3>2. Relue(e)  BY DEF Relue
    <3>3. versions = <<e>>  BY <2>2
    <3>4. QED  BY <3>1, <3>2, <3>3
  <2>3. QED  BY <1>1, <2>1, <2>2
<1>4. /\ versions \in Seq(Version)
      /\ Len(versions) \in {0, 1}
      /\ DOMAIN versions \subseteq {1}
      /\ \A n \in DOMAIN versions : Relue(versions[n]) /\ versions[n].regles = c /\ n = Len(versions)
  <2>1. CASE versions = <<>>
    <3>1. DOMAIN versions = {} /\ Len(versions) = 0 /\ versions \in Seq(Version)  BY <2>1
    <3>2. QED  BY <3>1
  <2>2. ASSUME NEW e \in Version, versions = <<e>>, e.regles = c, Relue(e)
        PROVE  /\ versions \in Seq(Version)
               /\ Len(versions) \in {0, 1}
               /\ DOMAIN versions \subseteq {1}
               /\ \A n \in DOMAIN versions :
                    Relue(versions[n]) /\ versions[n].regles = c /\ n = Len(versions)
    <3>1. DOMAIN versions = {1} /\ versions[1] = e /\ Len(versions) = 1 /\ versions \in Seq(Version)
      BY <2>2
    <3>2. QED  BY <2>2, <3>1
  <2>3. QED  BY <1>3, <2>1, <2>2
<1>5. \A d \in Dossiers : dossiers[d].regle = 0
  BY DEF Init
<1>6. TypeOK
  <2>1. Len(versions) =< MaxVersions + 1  BY <1>4 DEF ProgramsAssumption
  <2>2. 0 \in 0 .. Len(versions)  BY <1>4
  <2>3. dossiers \in [Dossiers -> [soumis: BOOLEAN, regle: 0 .. Len(versions)]]  BY <2>2 DEF Init
  <2>4. maj \in {"libre", "lue"}  BY DEF Init
  <2>5. QED  BY <1>2, <1>4, <2>1, <2>3, <2>4 DEF TypeOK
<1>7. UnBrouillon  BY <1>4 DEF UnBrouillon
<1>8. CopieConforme  BY <1>2, <1>4 DEF CopieConforme
<1>9. QED  BY <1>4, <1>5, <1>6, <1>7, <1>8 DEF IInv, Relues, Captures

(* Every step preserves the inductive invariant.                           *)
LEMMA NextIInv ==
  ASSUME ProgramsAssumption, IInv, [Next]_vars
  PROVE  IInv'
BY TypeInv, BrouillonInv, ReluesInv, CopieInv, CapturesInv DEF IInv

-----------------------------------------------------------------------------

(* The inductive invariant holds of every execution.                       *)
THEOREM Inductif == Spec => []IInv
<1>1. Init => IInv  BY InitIInv, ProgramsAssumption
<1>2. IInv /\ [Next]_vars => IInv'  BY NextIInv, ProgramsAssumption
<1>3. QED  BY <1>1, <1>2, PTL DEF Spec

(* Versions, programme, captures and the proposer's update are well formed. *)
THEOREM ProgramsType == Spec => []TypeOK
<1>1. IInv => TypeOK  BY DEF IInv
<1>2. QED  BY <1>1, Inductif, PTL

(* createDraftVersion never leaves two drafts, activateVersion never two   *)
(* versions in force.                                                      *)
THEOREM UnBrouillonTheorem == Spec => []UnBrouillon
<1>1. IInv => UnBrouillon  BY DEF IInv
<1>2. QED  BY <1>1, Inductif, PTL

(* Whatever edits, submissions and reviews came before, what               *)
(* activateVersion puts in force was reviewed by somebody else, as it is.  *)
THEOREM DoubleRegardTheorem == Spec => []DoubleRegard
<1>1. IInv => DoubleRegard
  BY DEF IInv, Relues, Relue, DoubleRegard, EnBrouillon, Soumise
<1>2. QED  BY <1>1, Inductif, PTL

(* The columns and the checklist that activateVersion copies stay those of *)
(* the version in force.                                                   *)
THEOREM CopieTheorem == Spec => []CopieConforme
<1>1. IInv => CopieConforme  BY DEF IInv
<1>2. QED  BY <1>1, Inductif, PTL

(* The version that submitOwned captured stays the dossier's, and keeps its *)
(* criteria and its checklist.                                             *)
THEOREM CaptureTheorem == Spec => CaptureStable
<1>1. IInv /\ [Next]_vars =>
        \A d \in Dossiers :
          dossiers[d].regle # 0 =>
            /\ dossiers'[d].regle = dossiers[d].regle
            /\ versions'[dossiers[d].regle].regles = versions[dossiers[d].regle].regles
  BY CaptureStep, ProgramsAssumption DEF IInv
<1>2. QED  BY <1>1, Inductif, PTL DEF Spec, CaptureStable

-----------------------------------------------------------------------------
(* The readers.                                                            *)

\* What a dossier captured is no draft.
Capturees == \A d \in Dossiers : dossiers[d].regle # 0 => ~ EnBrouillon(dossiers[d].regle)

(* The number of the one version of a kind, or 0.                          *)
LEMMA DerniereUnique ==
  ASSUME NEW S \in SUBSET Nat, \A n, m \in S : n = m
  PROVE  /\ S = {} => Derniere(S) = 0
         /\ \A n \in S : Derniere(S) = n
<1>1. ASSUME NEW n \in S  PROVE Derniere(S) = n
  <2>1. n \in S /\ \A m \in S : m =< n  OBVIOUS
  <2>2. (CHOOSE x \in S : \A m \in S : m =< x) \in S  BY <2>1
  <2>3. QED  BY <2>2 DEF Derniere
<1>2. QED  BY <1>1 DEF Derniere

(* The version in force and the draft, as every reader finds them.         *)
LEMMA Lecteurs ==
  ASSUME TypeOK, UnBrouillon
  PROVE  /\ \A n \in DOMAIN versions : n \in Nat /\ n # 0
         /\ \A n \in DOMAIN versions : EnVigueur(n) => VersionEnVigueur = n /\ ActiveRuleVersion = n
         /\ (\A n \in DOMAIN versions : ~ EnVigueur(n)) => VersionEnVigueur = 0 /\ ActiveRuleVersion = 0
         /\ \A n \in DOMAIN versions : EnBrouillon(n) => VersionEnBrouillon = n
         /\ (\A n \in DOMAIN versions : ~ EnBrouillon(n)) => VersionEnBrouillon = 0
<1>1. DOMAIN versions \subseteq Nat /\ 0 \notin DOMAIN versions
  <2>1. versions \in Seq(Version)  BY DEF TypeOK
  <2>2. QED  BY <2>1
<1> DEFINE V == {n \in DOMAIN versions : EnVigueur(n)}
           B == {n \in DOMAIN versions : EnBrouillon(n)}
<1>2. V \in SUBSET Nat /\ \A n, m \in V : n = m  BY <1>1 DEF UnBrouillon
<1>3. B \in SUBSET Nat /\ \A n, m \in B : n = m  BY <1>1 DEF UnBrouillon
<1>4. (V = {} => Derniere(V) = 0) /\ \A n \in V : Derniere(V) = n
  <2> HIDE DEF V
  <2>1. QED  BY <1>2, DerniereUnique
<1>5. (B = {} => Derniere(B) = 0) /\ \A n \in B : Derniere(B) = n
  <2> HIDE DEF B
  <2>1. QED  BY <1>3, DerniereUnique
<1>6. VersionEnVigueur = Derniere(V) /\ VersionEnBrouillon = Derniere(B)
  BY DEF VersionEnVigueur, VersionEnBrouillon
<1>7. \A n \in DOMAIN versions : EnVigueur(n) => ActiveRuleVersion = n
  BY DEF UnBrouillon, ActiveRuleVersion
<1>8. (\A n \in DOMAIN versions : ~ EnVigueur(n)) => ActiveRuleVersion = 0
  BY DEF ActiveRuleVersion
<1>9. \A n \in DOMAIN versions : EnVigueur(n) => Derniere(V) = n  BY <1>4
<1>10. (\A n \in DOMAIN versions : ~ EnVigueur(n)) => Derniere(V) = 0  BY <1>4
<1>11. \A n \in DOMAIN versions : EnBrouillon(n) => Derniere(B) = n  BY <1>5
<1>12. (\A n \in DOMAIN versions : ~ EnBrouillon(n)) => Derniere(B) = 0  BY <1>5
<1> HIDE DEF V, B
<1>13. QED  BY <1>1, <1>6, <1>7, <1>8, <1>9, <1>10, <1>11, <1>12

(* A submission captures the version in force, and no version is a draft   *)
(* again.                                                                  *)
LEMMA CaptureesInv ==
  ASSUME IInv, Capturees, ProgramsAssumption, [Next]_vars
  PROVE  Capturees'
<1>1. ASSUME NEW d \in Dossiers, dossiers[d].regle # 0
      PROVE  /\ dossiers'[d].regle = dossiers[d].regle
             /\ versions'[dossiers[d].regle].statut # "BROUILLON"
  <2>1. dossiers'[d].regle = dossiers[d].regle  BY <1>1, CaptureStep DEF IInv
  <2>2. PICK k : k = dossiers[d].regle  OBVIOUS
  <2>3. k \in DOMAIN versions /\ ~ EnBrouillon(k)
    <3>1. versions \in Seq(Version) /\ k \in 0 .. Len(versions)  BY <2>2 DEF IInv, TypeOK
    <3>2. QED  BY <1>1, <2>2, <3>1 DEF Capturees
  <2>4. versions'[k].statut # "BROUILLON"
    <3>1. CASE UNCHANGED versions  BY <2>3, <3>1 DEF EnBrouillon
    <3>2. CASE Reecriture
      <4>1. PICK n \in DOMAIN versions, e \in Version :
              Ecriture(n, e) /\ versions' = [versions EXCEPT ![n] = e]
        BY <3>2 DEF Reecriture
      <4>2. k # n  BY <2>3, <4>1 DEF Ecriture
      <4>3. versions'[k] = versions[k]  BY <2>3, <4>1, <4>2, Remplacement DEF IInv
      <4>4. QED  BY <2>3, <4>3 DEF EnBrouillon
    <3>3. ASSUME NEW u \in Direction, CreateDraftVersion(u)  PROVE versions'[k].statut # "BROUILLON"
      BY <2>3, <3>3, Ajout DEF IInv, EnBrouillon
    <3>4. ASSUME NEW n \in DOMAIN versions, ActivateVersion(n)  PROVE versions'[k].statut # "BROUILLON"
      <4>1. versions'[k].statut = IF k = n THEN "ACTIVE"
                                  ELSE IF EnVigueur(k) THEN "ARCHIVEE" ELSE versions[k].statut
        BY <2>3, <3>4, Activation DEF IInv
      <4>2. QED  BY <2>3, <4>1 DEF EnBrouillon
    <3>5. QED  BY <3>1, <3>2, <3>3, <3>4, Etapes DEF IInv
  <2>5. QED  BY <2>1, <2>2, <2>4
<1>2. ASSUME NEW d \in Dossiers, SubmitOwned(d)  PROVE Capturees'
  <2>1. versions' = versions /\ dossiers' = [dossiers EXCEPT ![d] = [soumis |-> TRUE, regle |-> ActiveRuleVersion]]
    BY <1>2 DEF SubmitOwned
  <2>2. ActiveRuleVersion # 0 => ~ EnBrouillon(ActiveRuleVersion)
    BY Lecteurs DEF IInv, EnVigueur, EnBrouillon, ActiveRuleVersion
  <2>3. QED  BY <2>1, <2>2 DEF Capturees, IInv, TypeOK, EnBrouillon
<1>3. CASE UNCHANGED dossiers  BY <1>1, <1>3 DEF Capturees, EnBrouillon
<1>4. QED
  BY <1>2, <1>3 DEF Next, UpdateProgram, CreateDraftVersion, UpdateDraftVersion, SubmitVersion,
     ApproveVersion, ActivateVersion, LireProposition, UpdateProposition, UpdateRules,
     SubmitProposition, vars

(* The counts of a list.                                                   *)
LEMMA Comptes ==
  ASSUME Captures, NEW n, n # 0, DossiersDe(n) > 0
  PROVE  /\ \E d \in Dossiers : dossiers[d].regle = n
         /\ DossiersDe(n) =< Cardinality({d \in Dossiers : dossiers[d].soumis})
<1> DEFINE A == {d \in Dossiers : dossiers[d].regle = n}
           S == {d \in Dossiers : dossiers[d].soumis}
<1>1. IsFiniteSet(S) /\ A \subseteq S
  BY CatalogueAssumption, FS_Subset DEF Captures
<1>2. Cardinality(A) =< Cardinality(S)  BY <1>1, FS_Subset
<1>3. A # {}  BY FS_EmptySet DEF DossiersDe
<1>4. QED  BY <1>2, <1>3 DEF DossiersDe

(* CatalogueFidele for any versions, users and dossiers.                   *)
THEOREM CatalogueTheorem == Spec => []CatalogueFidele
<1>1. Init => Capturees  BY DEF Init, Capturees
<1>2. IInv /\ Capturees /\ [Next]_vars => Capturees'  BY CaptureesInv, ProgramsAssumption
<1>3. ASSUME IInv, Capturees  PROVE CatalogueFidele
  <2> USE DEF Ecran, GetManagement, ListManagement
  <2>0. TypeOK /\ UnBrouillon /\ CopieConforme /\ Relues /\ Captures  BY <1>3 DEF IInv
  <2>1. /\ \A n \in DOMAIN versions : n \in Nat /\ n # 0
        /\ \A n \in DOMAIN versions : EnVigueur(n) => VersionEnVigueur = n /\ ActiveRuleVersion = n
        /\ (\A n \in DOMAIN versions : ~ EnVigueur(n)) => VersionEnVigueur = 0 /\ ActiveRuleVersion = 0
        /\ \A n \in DOMAIN versions : EnBrouillon(n) => VersionEnBrouillon = n
        /\ (\A n \in DOMAIN versions : ~ EnBrouillon(n)) => VersionEnBrouillon = 0
    BY <2>0, Lecteurs
  <2>2. ASSUME NEW f \in GetActive
        PROVE  /\ f.version = ActiveRuleVersion /\ f.version = Ecran.liste.active
               /\ f.regles = programme.regles
    <3>1. f = Fiche  BY DEF GetActive, ListActive
    <3>2. f.version = VersionEnVigueur
          /\ f.regles = IF VersionEnVigueur = 0 THEN programme.regles ELSE versions[VersionEnVigueur].regles
      BY <3>1 DEF Fiche, RegleAffichee
    <3>3. QED  BY <2>0, <2>1, <3>2 DEF CopieConforme
  <2>3. ASSUME NEW n \in DOMAIN Ecran.detail.versions
        PROVE  Ecran.detail.versions[n].statut = "BROUILLON" <=> n = Ecran.liste.brouillon
    BY <2>1 DEF EnBrouillon
  <2>4. Ecran.liste.approuvee => Ecran.liste.soumise
    BY <2>0, <2>1 DEF Relues, Relue, Soumise
  <2>5. ASSUME NEW n \in DOMAIN Ecran.detail.versions, Ecran.detail.versions[n].dossiers > 0
        PROVE  /\ Ecran.detail.versions[n].statut # "BROUILLON"
               /\ Ecran.detail.versions[n].dossiers =< Ecran.liste.engages
    <3>1. n \in DOMAIN versions /\ n # 0 /\ DossiersDe(n) > 0  BY <2>1, <2>5
    <3>2. ~ EnBrouillon(n) /\ DossiersDe(n) =< Cardinality({d \in Dossiers : dossiers[d].soumis})
      BY <1>3, <2>0, <3>1, Comptes DEF Capturees
    <3>3. QED  BY <3>1, <3>2 DEF EnBrouillon
  <2>6. ASSUME NEW u \in Proposants, NEW p \in ListOwn(u)
        PROVE  /\ p.workflow = "BROUILLON" <=> ~ Ecran.liste.soumise
               /\ GetOwn(u) = {Ecran.detail.versions}
    <3>1. programme.createdBy = u /\ p.workflow = WorkflowStatus  BY DEF ListOwn
    <3>2. WorkflowStatus = "BROUILLON" <=> ~ Ecran.liste.soumise
      BY <2>4 DEF WorkflowStatus
    <3>3. QED  BY <3>1, <3>2 DEF GetOwn
  <2>7. QED  BY <2>2, <2>3, <2>4, <2>5, <2>6 DEF CatalogueFidele
<1>4. QED  BY <1>1, <1>2, <1>3, Inductif, PTL DEF Spec

(* BoutonsFideles for any versions, users and dossiers: a draft is never   *)
(* captured, so the screens need not look for dossiers to know whether the *)
(* trigger would refuse an edit.                                           *)
THEOREM BoutonsTheorem == Spec => []BoutonsFideles
<1>1. Init => Capturees  BY DEF Init, Capturees
<1>2. IInv /\ Capturees /\ [Next]_vars => Capturees'  BY CaptureesInv, ProgramsAssumption
<1>3. ASSUME IInv, Capturees  PROVE BoutonsFideles
  <2> USE DEF Ecran, GetManagement, ListManagement
  <2> DEFINE n == VersionEnBrouillon
             editeur == IF n = 0 THEN {} ELSE DraftEditor(Ecran.detail.versions[n])
  <2>0. TypeOK /\ UnBrouillon /\ Relues  BY <1>3 DEF IInv
  <2>1. /\ \A m \in DOMAIN versions : m # 0
        /\ \A m \in DOMAIN versions : EnBrouillon(m) => n = m
        /\ (\A m \in DOMAIN versions : ~ EnBrouillon(m)) => n = 0
    BY <2>0, Lecteurs
  <2>2. \A m \in DOMAIN versions : EnBrouillon(m) <=> m = n
    BY <2>1
  <2>3. \A m \in DOMAIN versions : Modifiable(m) <=> EnBrouillon(m)
    BY <1>3, <2>1 DEF Modifiable, Referencee, Capturees
  <2>4. \A m \in DOMAIN versions : m = n =>
          /\ {"enregistrer", "soumettre"} \subseteq editeur
          /\ "valider" \in editeur <=> Soumise(m) /\ versions[m].approved = Personne
          /\ "activer" \in editeur <=> versions[m].approved # Personne
    BY <2>1 DEF DraftEditor, Soumise
  <2>5. "nouvelle version" \in ProgramPanel(Ecran) <=> AucunBrouillon
    BY DEF ProgramPanel, AucunBrouillon, EnBrouillon
  <2>6. ASSUME NEW m \in DOMAIN versions
        PROVE  /\ Activable(m) <=> m = n /\ "activer" \in editeur
               /\ Modifiable(m) <=> m = n /\ "enregistrer" \in editeur
               /\ EnBrouillon(m) <=> m = n /\ "soumettre" \in editeur
    BY <2>2, <2>3, <2>4, <2>6 DEF Activable
  <2>7. ASSUME NEW m \in DOMAIN versions, NEW u \in Direction
        PROVE  Approuvable(u, m) /\ versions[m].approved = Personne <=>
                 /\ m = n /\ "valider" \in editeur
                 /\ u \notin {versions[m].prepared, versions[m].submitted}
    BY <2>2, <2>4, <2>7 DEF Approuvable
  <2>8. ASSUME NEW m \in DOMAIN versions, NEW u \in Proposants
        PROVE  /\ Proposable(u, m) => m = n /\ SubmitProposal(u)
               /\ m = n /\ SubmitProposal(u) /\ Propose(u) => Proposable(u, m)
    <3>1. Propose(u) => programme.createdBy = u  BY DEF Propose
    <3>2. m = n => (WorkflowStatus = "BROUILLON" <=> versions[m].approved = Personne /\ ~ Soumise(m))
      BY <2>1 DEF WorkflowStatus
    <3>3. versions[m].approved # Personne => Soumise(m)  BY <2>0 DEF Relues, Relue, Soumise
    <3>4. SubmitProposal(u) <=> programme.createdBy = u /\ WorkflowStatus = "BROUILLON" /\ n # 0
      <4> DEFINE p == [statut |-> programme.statut, workflow |-> WorkflowStatus]
      <4>1. p.workflow = WorkflowStatus  OBVIOUS
      <4>2. ListOwn(u) = IF programme.createdBy = u THEN {p} ELSE {}  BY DEF ListOwn
      <4> HIDE DEF p
      <4>3. QED  BY <4>1, <4>2 DEF SubmitProposal
    <3>5. QED  BY <2>1, <2>2, <3>1, <3>2, <3>3, <3>4 DEF Proposable
  <2> HIDE DEF Ecran
  <2>9. QED
    BY <2>5, <2>6, <2>7, <2>8 DEF BoutonsFideles
<1>4. QED  BY <1>1, <1>2, <1>3, Inductif, PTL DEF Spec

=============================================================================
