------------------------------- MODULE Pieces -------------------------------
(***************************************************************************)
(* What is read of a dossier's documents: the PME's list and checklist     *)
(* (applications and documents repositories), the agents' review queue,    *)
(* and the executive alert on missing documents, which counts with a query *)
(* of its own.  Reads write nothing: operators over the state of Documents.*)
(***************************************************************************)
EXTENDS Documents, FiniteSets

CONSTANT
  Exigences   \* mandatory type_documents of the rule version that applies

\* The schema knows six type_documents (ck_programme_regle_document_type), and a
\* rule version requires each once (uq_programme_regle_document_type).  From 200
\* requirements on, ROUND would answer 100 while one is missing.
ASSUME PiecesAssumption == IsFiniteSet(Exigences) /\ Cardinality(Exigences) =< 6

Actuelles == {n \in DOMAIN table : Courante(n)}

\* statut_verification IN ('A_VERIFIER', 'A_COMPLETER') AND superseded_by IS NULL.
ListForReview == {n \in Actuelles : table[n].statut \in {"A_VERIFIER", "A_COMPLETER"}}

\* Mutant: a replaced version counts.
SatisfaitHistorique(t, n) == TypeDe[table[n].depot] = t /\ table[n].statut # "REJETE"

Satisfait(t, n) ==
  /\ TypeDe[table[n].depot] = t
  /\ Courante(n)
  /\ table[n].statut # "REJETE"

Present(t) == \E n \in DOMAIN table : Satisfait(t, n)

\* requis, presents and manquants of the PME's dossier.
Checklist ==
  [requis    |-> Cardinality(Exigences),
   presents  |-> Cardinality({t \in Exigences : Present(t)}),
   manquants |-> {t \in Exigences : ~ Present(t)}]

CompletudePct ==
  IF Checklist.requis = 0 THEN 100
  ELSE (200 * Checklist.presents + Checklist.requis) \div (2 * Checklist.requis)

\* Requirements with no row that satisfies them; the alert leaves drafts out.
PiecesManquantes ==
  {t \in Exigences : \A n \in Actuelles :
                       TypeDe[table[n].depot] = t => table[n].statut = "REJETE"}

-----------------------------------------------------------------------------
(* Properties.                                                             *)

Versions(t) == {n \in DOMAIN table : TypeDe[table[n].depot] = t}

(* The checklist follows the last version of each document: a rejection    *)
(* reopens the requirement and a new upload closes it, save where an       *)
(* overlap left two versions current.  It is complete exactly when the     *)
(* executive alert, a different query, finds nothing missing, and what it  *)
(* misses is never waiting in the agents' queue.                           *)
CompletudeFidele ==
  /\ \A t \in Exigences :
       LET courantes == Versions(t) \cap Actuelles
       IN  /\ Versions(t) = {} => ~ Present(t)
           /\ Cardinality(courantes) = 1 =>
                \A n \in Versions(t) :
                  (\A m \in Versions(t) : m =< n) =>
                    (Present(t) <=> table[n].statut # "REJETE")
  /\ Checklist.manquants = PiecesManquantes
  /\ CompletudePct = 100 <=> PiecesManquantes = {}
  /\ \A n \in ListForReview : TypeDe[table[n].depot] \notin PiecesManquantes
=============================================================================
