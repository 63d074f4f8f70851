----------------------------- MODULE Catalogue -----------------------------
(***************************************************************************)
(* What is read of a programme: the public catalogue of the PME, the       *)
(* Direction's management screens and the proposer's own list.  Reads      *)
(* write nothing: they are operators over the state of Programs.           *)
(***************************************************************************)
EXTENDS Programs, FiniteSets

\* What the database holds is finite.
ASSUME CatalogueAssumption == IsFiniteSet(Dossiers)

Derniere(S) == IF S = {} THEN 0 ELSE CHOOSE n \in S : \A m \in S : m =< n

VersionEnVigueur == Derniere({n \in DOMAIN versions : EnVigueur(n)})

VersionEnBrouillon == Derniere({n \in DOMAIN versions : EnBrouillon(n)})

-----------------------------------------------------------------------------
(* The catalogue: programmes ACTIVE, with the rules of the version in      *)
(* force, else the programme's own columns and checklist.                  *)

\* Mutant: the last version, whatever its status.
RegleAfficheeDerniere == Len(versions)

RegleAffichee == VersionEnVigueur

Fiche == [version |-> RegleAffichee,
          regles  |-> IF RegleAffichee = 0 THEN programme.regles
                                           ELSE versions[RegleAffichee].regles,
          offre   |-> programme.offre]

ListActive == IF programme.statut = "ACTIVE" THEN {Fiche} ELSE {}

\* NotFoundException when there is none.
GetActive == ListActive

-----------------------------------------------------------------------------
(* The Direction.                                                          *)

DossiersDe(n) == Cardinality({d \in Dossiers : dossiers[d].regle = n})

ListManagement ==
  [statut    |-> programme.statut,
   active    |-> VersionEnVigueur,
   brouillon |-> VersionEnBrouillon,
   soumise   |-> LET n == VersionEnBrouillon IN n # 0 /\ Soumise(n),
   approuvee |-> LET n == VersionEnBrouillon IN n # 0 /\ versions[n].approved # Personne,
   engages   |-> Cardinality({d \in Dossiers : dossiers[d].soumis})]

GetManagement ==
  [statut   |-> programme.statut,
   versions |-> [n \in DOMAIN versions |->
                   [statut |-> versions[n].statut, regles |-> versions[n].regles,
                    prepared |-> versions[n].prepared, submitted |-> versions[n].submitted,
                    approved |-> versions[n].approved, dossiers |-> DossiersDe(n)]]]

-----------------------------------------------------------------------------
(* The proposer.                                                           *)

WorkflowStatus ==
  LET n == VersionEnBrouillon
  IN  IF n # 0 /\ versions[n].approved # Personne THEN "VALIDE"
      ELSE IF n # 0 /\ Soumise(n) THEN "SOUMIS" ELSE "BROUILLON"

ListOwn(user) ==
  IF programme.createdBy = user
  THEN {[statut |-> programme.statut, workflow |-> WorkflowStatus]} ELSE {}

GetOwn(user) ==
  IF programme.createdBy = user THEN {GetManagement.versions} ELSE {}

-----------------------------------------------------------------------------
(* The screens: the buttons that they show for what they have read.        *)

\* ProgramManagement.refresh: the list, then the detail.
Ecran == [liste |-> ListManagement, detail |-> GetManagement]

\* ProgramPanel: the buttons of the programme.
ProgramPanel(ecran) ==
  (IF \A n \in DOMAIN ecran.detail.versions : ecran.detail.versions[n].statut # "BROUILLON"
   THEN {"nouvelle version"} ELSE {})
  \cup (IF ecran.detail.statut = "ACTIVE" THEN {"cloturer"} ELSE {})
  \cup (IF ecran.detail.statut # "ARCHIVE" THEN {"archiver"} ELSE {})

\* DraftEditor: those of its draft.
DraftEditor(brouillon) ==
  {"enregistrer", "soumettre"}
  \cup (IF brouillon.submitted # Personne /\ brouillon.approved = Personne
        THEN {"valider"} ELSE {})
  \cup (IF brouillon.approved # Personne THEN {"activer"} ELSE {})

\* ProgramProposalPanel.submitProposal: "Soumettre a la Direction".
SubmitProposal(user) ==
  \E p \in ListOwn(user) : p.workflow = "BROUILLON" /\ VersionEnBrouillon # 0

-----------------------------------------------------------------------------
(* Properties.                                                             *)

(* The readers of a programme agree, although each has its own SQL.  What  *)
(* a PME reads in the catalogue is what its submission captures at that    *)
(* moment, and what the fallback on the programme's own columns would say; *)
(* the one draft the Direction is shown is the last version of the detail, *)
(* its submission is seen alike by the proposer, what is shown approved    *)
(* was submitted, and no dossier is counted under a draft.                 *)
CatalogueFidele ==
  LET liste  == Ecran.liste
      detail == Ecran.detail.versions
  IN  /\ \A f \in GetActive :
           /\ f.version = ActiveRuleVersion
           /\ f.version = liste.active
           /\ f.regles = programme.regles
      /\ \A n \in DOMAIN detail : detail[n].statut = "BROUILLON" <=> n = liste.brouillon
      /\ liste.approuvee => liste.soumise
      /\ \A n \in DOMAIN detail : detail[n].dossiers > 0 =>
           detail[n].statut # "BROUILLON" /\ detail[n].dossiers =< liste.engages
      /\ \A u \in Proposants : \A p \in ListOwn(u) :
           /\ p.workflow = "BROUILLON" <=> ~ liste.soumise
           /\ GetOwn(u) = {detail}

(* The workflow has no dead end on its screens: a fresh page shows every   *)
(* step of the review whose guards the API would find true, and no step it *)
(* would refuse, but two: the approval, shown to its own author as well,   *)
(* and the proposer's submission, shown on a programme that has left       *)
(* BROUILLON.                                                              *)
BoutonsFideles ==
  LET n == VersionEnBrouillon
      editeur == IF n = 0 THEN {} ELSE DraftEditor(Ecran.detail.versions[n])
  IN  /\ "nouvelle version" \in ProgramPanel(Ecran) <=> AucunBrouillon
      /\ \A m \in DOMAIN versions :
           /\ Activable(m) <=> m = n /\ "activer" \in editeur
           /\ Modifiable(m) <=> m = n /\ "enregistrer" \in editeur
           /\ EnBrouillon(m) <=> m = n /\ "soumettre" \in editeur
           /\ \A u \in Direction :
                Approuvable(u, m) /\ versions[m].approved = Personne <=>
                  /\ m = n /\ "valider" \in editeur
                  /\ u \notin {versions[m].prepared, versions[m].submitted}
           /\ \A u \in Proposants :
                /\ Proposable(u, m) => m = n /\ SubmitProposal(u)
                /\ m = n /\ SubmitProposal(u) /\ Propose(u) => Proposable(u, m)
=============================================================================
