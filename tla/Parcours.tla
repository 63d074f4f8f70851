------------------------------ MODULE Parcours ------------------------------
(***************************************************************************)
(* What the life of an application promises, one operation at a time: who  *)
(* may take each step, in which state of the dossier and with what in it,  *)
(* judged at the moment of the step.  Dossier.tla has the reads, the       *)
(* checks on what they returned and the concurrent calls, and implements   *)
(* this.                                                                   *)
(***************************************************************************)
EXTENDS Naturals, Sequences

CONSTANTS
  Agents,       \* users who may act as AGENT_FODIP
  Pme,          \* the user of the company that owns the dossier
  Comite,       \* a member of the committee
  Personne,     \* SQL NULL in a user column
  Absent,       \* no score
  Montants,     \* amounts; 0 stands for SQL NULL
  Notes         \* scores

VARIABLES
  statut, agent, montant,   \* the dossiers_financement row
  historique,               \* dossier_statuts_historique
  score,                    \* scores_dossier of the active model
  decisions,                \* decisions_comite, in order of date
  financements              \* amounts of the financings of this dossier

dossierVars == <<statut, agent, montant, historique, score, decisions, financements>>

Reclamables == {"SOUMIS", "EN_INSTRUCTION", "COMPLEMENT_REQUIS"}
Decisions   == {"APPROUVE", "REJETE", "COMPLEMENT_REQUIS"}
Statuts     == Reclamables \cup Decisions \cup {"BROUILLON", "PRET_COMITE"}

\* REVIEW_TRANSITIONS of agent-policy.js.
Revue == {<<"SOUMIS", "EN_INSTRUCTION">>, <<"SOUMIS", "COMPLEMENT_REQUIS">>,
          <<"EN_INSTRUCTION", "COMPLEMENT_REQUIS">>, <<"EN_INSTRUCTION", "PRET_COMITE">>,
          <<"COMPLEMENT_REQUIS", "EN_INSTRUCTION">>}

Passage  == [ancien: Statuts, nouveau: Statuts, par: Agents \cup {Pme, Comite}]
Decision == [decision: Decisions, montant: Montants \cup {0}]

Derniere == decisions[Len(decisions)]

\* The committee never sent the dossier back.
SansRetour == \A i \in DOMAIN decisions : decisions[i].decision # "COMPLEMENT_REQUIS"

ParcoursInit ==
  /\ statut = "BROUILLON"
  /\ agent = Personne
  /\ montant \in Montants
  /\ historique = <<>>
  /\ score = Absent
  /\ decisions = <<>>
  /\ financements = <<>>

\* The status changes and the same statement writes the history.
Passe(ancien, nouveau, par) ==
  /\ statut' = nouveau
  /\ historique' = Append(historique, [ancien |-> ancien, nouveau |-> nouveau, par |-> par])

-----------------------------------------------------------------------------

\* The PME amends a draft, or a dossier that was sent back to it.
Modifier ==
  /\ statut \in {"BROUILLON", "COMPLEMENT_REQUIS"}
  /\ montant' \in Montants
  /\ UNCHANGED <<statut, agent, historique, score, decisions, financements>>

Soumettre ==
  /\ statut = "BROUILLON"
  /\ Passe("BROUILLON", "SOUMIS", Pme)
  /\ UNCHANGED <<agent, montant, score, decisions, financements>>

\* An agent takes a dossier that nobody else has.
PrendreEnCharge(user) ==
  /\ statut \in Reclamables
  /\ agent \in {Personne, user}
  /\ agent' = user
  /\ IF statut = "SOUMIS" THEN Passe("SOUMIS", "EN_INSTRUCTION", user)
                          ELSE UNCHANGED <<statut, historique>>
  /\ UNCHANGED <<montant, score, decisions, financements>>

\* The agent in charge moves it, to the committee only with a score.
Instruire(user, cible) ==
  /\ agent = user
  /\ <<statut, cible>> \in Revue
  /\ cible = "PRET_COMITE" => score # Absent
  /\ Passe(statut, cible, user)
  /\ UNCHANGED <<agent, montant, score, decisions, financements>>

\* A score is that of the agent in charge; it may still be written when the
\* dossier has moved on.
Noter(user, note) ==
  /\ agent = user
  /\ statut \notin {"BROUILLON", "SOUMIS"}
  /\ score' = note
  /\ UNCHANGED <<statut, agent, montant, historique, decisions, financements>>

\* The committee decides on what has a score; it approves at most what is
\* requested, unless it had sent the dossier back before.
Decider(decision, accorde) ==
  /\ statut = "PRET_COMITE"
  /\ score # Absent
  /\ decision = "APPROUVE" => accorde > 0 /\ (SansRetour => accorde =< montant)
  /\ Passe("PRET_COMITE", decision, Comite)
  /\ decisions' = Append(decisions, [decision |-> decision, montant |-> accorde])
  /\ UNCHANGED <<agent, montant, score, financements>>

\* The one financing of an approved dossier, of the amount approved.
Financer ==
  /\ statut = "APPROUVE"
  /\ financements = <<>>
  /\ financements' = <<Derniere.montant>>
  /\ UNCHANGED <<statut, agent, montant, historique, score, decisions>>

ParcoursNext ==
  \/ Modifier
  \/ Soumettre
  \/ \E u \in Agents :
       \/ PrendreEnCharge(u)
       \/ \E c \in {"EN_INSTRUCTION", "COMPLEMENT_REQUIS", "PRET_COMITE"} : Instruire(u, c)
       \/ \E n \in Notes : Noter(u, n)
  \/ \E d \in Decisions, m \in Montants \cup {0} : Decider(d, m)
  \/ Financer

(* Every overlapping call has the effect of one operation that read, checked *)
(* and wrote at once, or none: whatever came between the reads of a service  *)
(* and its statement, the step is one that its actor was entitled to.        *)
ParcoursSpec == ParcoursInit /\ [][ParcoursNext]_dossierVars
=============================================================================
