------------------------------ MODULE Programs ------------------------------
(***************************************************************************)
(* One programme, the versions of its eligibility rules, and the dossiers  *)
(* that capture one when they are submitted: programs and its proposals.   *)
(*                                                                         *)
(* Every handler but one is a transaction that first locks the row its     *)
(* decisions rest on, so it is one step here.  The exception is the        *)
(* proposer's update, which locks the programme but reads, unlocked,       *)
(* whether the draft has been submitted: it is two steps.                  *)
(***************************************************************************)
EXTENDS Naturals, Sequences

CONSTANTS
  Direction,    \* users with program.manage and program.approve
  Proposants,   \* users with program.propose
  Personne,     \* SQL NULL in a user column
  Regles,       \* contents of a version: its criteria and its checklist
  Offres,       \* the programme's own attributes: name, envelope, dates, scope
  Dossiers,     \* applications to this programme
  MaxVersions   \* bound on the number of versions

ASSUME ProgramsAssumption ==
  /\ Personne \notin Direction \cup Proposants
  /\ MaxVersions \in Nat

VARIABLES
  programme,    \* the programmes_fodip row, its legacy criteria and checklist
  versions,     \* programme_regles_versions, by number
  dossiers,     \* submitted or not, and the version captured (0: NULL)
  maj           \* the proposer's update: "libre", or "lue" once it has read

vars == <<programme, versions, dossiers, maj>>

Utilisateurs == Direction \cup Proposants
OuPersonne   == Utilisateurs \cup {Personne}

\* vise and redacteurs are no columns: what was reviewed, and who wrote it.
Version == [statut: {"BROUILLON", "ACTIVE", "ARCHIVEE"}, regles: Regles,
            prepared: OuPersonne, submitted: OuPersonne, approved: OuPersonne,
            vise: Regles, redacteurs: SUBSET Utilisateurs]

Programme == [statut: {"BROUILLON", "ACTIVE", "CLOTURE", "ARCHIVE"}, regles: Regles,
              offre: Offres, createdBy: OuPersonne]

TypeOK ==
  /\ programme \in Programme
  /\ versions \in Seq(Version)
  /\ Len(versions) =< MaxVersions + 1
  /\ dossiers \in [Dossiers -> [soumis: BOOLEAN, regle: 0 .. Len(versions)]]
  /\ maj \in {"libre", "lue"}

Brouillon(regles, user) ==
  [statut |-> "BROUILLON", regles |-> regles, prepared |-> user, submitted |-> Personne,
   approved |-> Personne, vise |-> regles, redacteurs |-> {user}]

\* createProgram, by the Direction (which leaves created_by NULL) or by a
\* proposer; a programme that migration 027 gave its first version; one that an
\* import brought without any.
Init ==
  /\ \E c \in Regles, o \in Offres :
       \/ \E u \in Direction :
            /\ programme = [statut |-> "BROUILLON", regles |-> c, offre |-> o, createdBy |-> Personne]
            /\ versions = <<Brouillon(c, u)>>
       \/ \E u \in Proposants :
            /\ programme = [statut |-> "BROUILLON", regles |-> c, offre |-> o, createdBy |-> u]
            /\ versions = <<Brouillon(c, u)>>
       \/ /\ programme = [statut |-> "ACTIVE", regles |-> c, offre |-> o, createdBy |-> Personne]
          /\ \/ versions = <<>>
             \/ versions = <<[statut |-> "ACTIVE", regles |-> c, prepared |-> Personne,
                              submitted |-> Personne, approved |-> Personne,
                              vise |-> c, redacteurs |-> {}]>>
  /\ dossiers = [d \in Dossiers |-> [soumis |-> FALSE, regle |-> 0]]
  /\ maj = "libre"

-----------------------------------------------------------------------------

EnBrouillon(n) == versions[n].statut = "BROUILLON"
EnVigueur(n)   == versions[n].statut = "ACTIVE"
Soumise(n)     == versions[n].submitted # Personne

\* The trigger of migration 027 refuses the rest.
Referencee(n) == \E d \in Dossiers : dossiers[d].regle = n

\* Mutant: a version in force can be corrected in place.
ModifiableEnVigueur(n) == versions[n].statut # "ARCHIVEE"
Modifiable(n) == EnBrouillon(n) /\ ~ Referencee(n)

\* Neither who prepared it nor who submitted it may approve it.
Approuvable(user, n) ==
  /\ EnBrouillon(n)
  /\ Soumise(n)
  /\ user \notin {versions[n].prepared, versions[n].submitted}

Activable(n) == EnBrouillon(n) /\ versions[n].approved # Personne

\* Mutant: an edit keeps the review it had.
EditionSansRetrait(v, regles, user) ==
  [v EXCEPT !.regles = regles, !.prepared = user, !.redacteurs = @ \cup {user}]

Edition(v, regles, user) ==
  [v EXCEPT !.regles = regles, !.prepared = user, !.redacteurs = @ \cup {user},
            !.submitted = Personne, !.approved = Personne]

Remise(v, user) == [v EXCEPT !.submitted = user, !.approved = Personne]

\* The Direction changes the programme's attributes, may close or unpublish it.
UpdateProgram ==
  /\ \E o \in Offres, s \in {programme.statut, "BROUILLON", "CLOTURE", "ARCHIVE"} :
       programme' = [programme EXCEPT !.offre = o, !.statut = s]
  /\ UNCHANGED <<versions, dossiers, maj>>

AucunBrouillon == \A n \in DOMAIN versions : ~ EnBrouillon(n)

\* What a new draft starts from: the version in force, else the last one, else
\* the columns of the programme.
Source ==
  IF \E n \in DOMAIN versions : EnVigueur(n)
  THEN versions[CHOOSE n \in DOMAIN versions : EnVigueur(n)].regles
  ELSE IF versions # <<>> THEN versions[Len(versions)].regles ELSE programme.regles

CreateDraftVersion(user) ==
  /\ Len(versions) < MaxVersions
  /\ AucunBrouillon
  /\ versions' = Append(versions, Brouillon(Source, user))
  /\ UNCHANGED <<programme, dossiers, maj>>

UpdateDraftVersion(user, n) ==
  /\ Modifiable(n)
  /\ \E c \in Regles : versions' = [versions EXCEPT ![n] = Edition(versions[n], c, user)]
  /\ UNCHANGED <<programme, dossiers, maj>>

SubmitVersion(user, n) ==
  /\ EnBrouillon(n)
  /\ versions' = [versions EXCEPT ![n] = Remise(versions[n], user)]
  /\ UNCHANGED <<programme, dossiers, maj>>

ApproveVersion(user, n) ==
  /\ Approuvable(user, n)
  /\ versions' = [versions EXCEPT ![n] = [@ EXCEPT !.approved = user, !.vise = versions[n].regles]]
  /\ UNCHANGED <<programme, dossiers, maj>>

Archiver(v) == [v EXCEPT !.statut = "ARCHIVEE"]

Publier(regles) == [programme EXCEPT !.statut = "ACTIVE", !.regles = regles]

ActivateVersion(n) ==
  /\ Activable(n)
  /\ versions' = [i \in DOMAIN versions |->
       IF i = n THEN [versions[i] EXCEPT !.statut = "ACTIVE"]
       ELSE IF EnVigueur(i) THEN Archiver(versions[i]) ELSE versions[i]]
  /\ programme' = Publier(versions[n].regles)
  /\ UNCHANGED <<dossiers, maj>>

-----------------------------------------------------------------------------
(* The proposer, on a programme of his own that is still BROUILLON.        *)

Propose(user) == user = programme.createdBy /\ programme.statut = "BROUILLON"

Proposable(user, n) == Propose(user) /\ EnBrouillon(n) /\ ~ Soumise(n)

\* The joined, unlocked row of the draft is read when the statement starts.
LireProposition ==
  /\ maj = "libre"
  /\ programme.createdBy \in Proposants
  /\ \A n \in DOMAIN versions : EnBrouillon(n) => ~ Soumise(n)
  /\ maj' = "lue"
  /\ UNCHANGED <<programme, versions, dossiers>>

\* The programme's row is locked and checked again; then it is written.
UpdateProposition ==
  /\ maj = "lue"
  /\ maj' = "libre"
  /\ IF programme.statut = "BROUILLON"
     THEN \E o \in Offres : programme' = [programme EXCEPT !.offre = o]
     ELSE UNCHANGED programme
  /\ UNCHANGED <<versions, dossiers>>

\* updateRules does not reset the review: what it edits was never submitted.
UpdateRules(user, n) ==
  /\ Propose(user)
  /\ Modifiable(n)
  /\ ~ Soumise(n)
  /\ \E c \in Regles : versions' = [versions EXCEPT ![n] =
       [@ EXCEPT !.regles = c, !.prepared = user, !.redacteurs = versions[n].redacteurs \cup {user}]]
  /\ UNCHANGED <<programme, dossiers, maj>>

SubmitProposition(user, n) ==
  /\ Proposable(user, n)
  /\ versions' = [versions EXCEPT ![n] = Remise(versions[n], user)]
  /\ UNCHANGED <<programme, dossiers, maj>>

-----------------------------------------------------------------------------
(* The PME submits; every other transition of a dossier is in Dossier.     *)

\* ACTIVE_RULE_VERSION_SQL, NULL (0) when no version is in force.
ActiveRuleVersion ==
  IF \E n \in DOMAIN versions : EnVigueur(n)
  THEN CHOOSE n \in DOMAIN versions : EnVigueur(n)
  ELSE 0

SubmitOwned(d) ==
  /\ ~ dossiers[d].soumis
  /\ dossiers' = [dossiers EXCEPT ![d] = [soumis |-> TRUE, regle |-> ActiveRuleVersion]]
  /\ UNCHANGED <<programme, versions, maj>>

Next ==
  \/ UpdateProgram
  \/ \E u \in Direction : CreateDraftVersion(u)
  \/ \E u \in Direction, n \in DOMAIN versions :
       UpdateDraftVersion(u, n) \/ SubmitVersion(u, n) \/ ApproveVersion(u, n)
  \/ \E n \in DOMAIN versions : ActivateVersion(n)
  \/ LireProposition
  \/ UpdateProposition
  \/ \E u \in Proposants, n \in DOMAIN versions : UpdateRules(u, n) \/ SubmitProposition(u, n)
  \/ \E d \in Dossiers : SubmitOwned(d)

Spec == Init /\ [][Next]_vars

-----------------------------------------------------------------------------
(* Properties.                                                             *)

(* One draft at a time, always the last version, and one version in force: *)
(* what uq_programme_regle_active guards, and what no constraint guards.   *)
UnBrouillon ==
  \A n \in DOMAIN versions :
    /\ EnBrouillon(n) => n = Len(versions)
    /\ \A m \in DOMAIN versions : EnVigueur(n) /\ EnVigueur(m) => n = m

(* Four eyes: what was put in force is what somebody reviewed who neither  *)
(* wrote it last nor submitted it, whatever was edited or resubmitted in   *)
(* between, by the Direction or by the proposer.                           *)
DoubleRegard ==
  \A n \in DOMAIN versions :
    ~ EnBrouillon(n) /\ versions[n].prepared # Personne =>
      /\ versions[n].approved \in Direction \ {versions[n].prepared, versions[n].submitted}
      /\ Soumise(n)
      /\ versions[n].vise = versions[n].regles

(* The legacy columns and checklist, which the fallback reads, are those of *)
(* the version in force.                                                    *)
CopieConforme ==
  \A n \in DOMAIN versions : EnVigueur(n) => programme.regles = versions[n].regles

(* A dossier keeps the version it captured, and that version keeps its     *)
(* criteria and its checklist.                                             *)
CaptureStable ==
  [][\A d \in Dossiers :
       dossiers[d].regle # 0 =>
         /\ dossiers'[d].regle = dossiers[d].regle
         /\ versions'[dossiers[d].regle].regles = versions[dossiers[d].regle].regles]_vars

(* docs/37:71, "Le même utilisateur ne peut pas préparer/soumettre puis se    *)
(* valider lui-même": nobody approves a draft of which he wrote a part.    *)
DeuxActeurs ==
  \A n \in DOMAIN versions :
    versions[n].approved # Personne => versions[n].approved \notin versions[n].redacteurs
=============================================================================
