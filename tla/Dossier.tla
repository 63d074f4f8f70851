------------------------------ MODULE Dossier ------------------------------
(***************************************************************************)
(* One application from the PME's draft to its financing: applications,    *)
(* agent-applications, scoring, committee and the creation of a financing. *)
(*                                                                         *)
(* The PME's two handlers are one conditional UPDATE each.  The others     *)
(* read the dossier first, decide from what they read whether to go on,    *)
(* and then run one statement (or transaction) whose own WHERE clause, or  *)
(* unique index, is all that protects it from the calls that came between. *)
(* The rule version captured by a submission is in Programs.  Of a         *)
(* committee's decision the comment is two lengths, as sent and trimmed,   *)
(* the terms are what the DTO lets through, and 0 is one that is left out. *)
(***************************************************************************)
EXTENDS Parcours, Amortissement

CONSTANTS
  SuperAdmins,  \* the agents who are SUPER_ADMIN
  Appels,       \* concurrent calls of the staff
  Avis,         \* what comes with a decision: its comment and its terms
  Borne         \* no new call once the history is this long

ASSUME DossierAssumption ==
  /\ Personne \notin Agents \cup {Pme, Comite}
  /\ SuperAdmins \subseteq Agents
  /\ Absent \notin Notes
  /\ Avis \subseteq [longueur: Nat, utile: Nat,
                     duree: {0} \cup DureesAcceptees, taux: TauxAcceptes, differe: 0 .. 120]
  /\ \A a \in Avis : a.utile =< a.longueur
  /\ Montants \subseteq Nat \ {0}
  /\ Borne \in Nat

VARIABLES requete, pc, lu   \* staff calls: what is asked, where, what was read

vars == <<statut, agent, montant, historique, score, decisions, financements,
          requete, pc, lu>>

Demandes ==
  [op: {"claim"}, user: Agents]
  \cup [op: {"review"}, user: Agents,
        cible: {"EN_INSTRUCTION", "COMPLEMENT_REQUIS", "PRET_COMITE"}]
  \cup [op: {"calculate"}, user: Agents, note: Notes]
  \cup [op: {"decide"}, decision: Decisions, montant: Montants \cup {0}, avis: Avis]
  \cup [op: {"createFinancing"}]

Aucune   == [op |-> "none"]
RienLu   == [statut |-> "BROUILLON", montant |-> 0]

\* The columns, and where a call can be: free, before its reads, before
\* isCommitteeReady, before its statement.
TypeOK ==
  /\ statut \in Statuts
  /\ agent \in Agents \cup {Personne}
  /\ montant \in Montants
  /\ historique \in Seq(Passage)
  /\ score \in Notes \cup {Absent}
  /\ decisions \in Seq(Decision)
  /\ financements \in Seq(Montants)
  /\ requete \in [Appels -> Demandes \cup {Aucune}]
  /\ pc \in [Appels -> {"idle", "read", "ready", "write"}]
  /\ lu \in [Appels -> [statut: Statuts, montant: Montants \cup {0}]]
  /\ \A r \in Appels : pc[r] = "idle" <=> requete[r] = Aucune
  /\ \A r \in Appels : pc[r] = "ready" => requete[r].op = "review"

Init ==
  /\ ParcoursInit
  /\ requete = [r \in Appels |-> Aucune]
  /\ pc = [r \in Appels |-> "idle"]
  /\ lu = [r \in Appels |-> RienLu]

-----------------------------------------------------------------------------
(* The PME.                                                                *)

\* UPDATE ... WHERE statut IN ('BROUILLON', 'COMPLEMENT_REQUIS').
UpdateOwned ==
  /\ statut \in {"BROUILLON", "COMPLEMENT_REQUIS"}
  /\ montant' \in Montants
  /\ UNCHANGED <<statut, agent, historique, score, decisions, financements,
                 requete, pc, lu>>

\* UPDATE ... WHERE statut = 'BROUILLON'.
SubmitOwned ==
  /\ statut = "BROUILLON"
  /\ Passe("BROUILLON", "SOUMIS", Pme)
  /\ UNCHANGED <<agent, montant, score, decisions, financements, requete, pc, lu>>

-----------------------------------------------------------------------------
(* A staff call arrives, and reads.                                        *)

Recevoir(r) ==
  /\ pc[r] = "idle"
  /\ Len(historique) < Borne
  /\ \E d \in Demandes : requete' = [requete EXCEPT ![r] = d]
  /\ pc' = [pc EXCEPT ![r] = "read"]
  /\ UNCHANGED <<dossierVars, lu>>

\* The answer is sent: nothing of the call remains.
Fin(r) ==
  /\ requete' = [requete EXCEPT ![r] = Aucune]
  /\ pc' = [pc EXCEPT ![r] = "idle"]
  /\ lu' = [lu EXCEPT ![r] = RienLu]

\* Mutant: only one's own dossiers can be opened.
CanReadSansLibre(user) ==
  \/ user \in SuperAdmins
  \/ agent = user
  \/ \E i \in DOMAIN historique : historique[i].par = user

CanRead(user) ==
  \/ user \in SuperAdmins
  \/ agent = user
  \/ agent = Personne /\ statut \in Reclamables
  \/ \E i \in DOMAIN historique : historique[i].par = user

\* The MaxLength of a comment in the DTO.
TexteMax == 2000

\* The DTO, then validateCommitteeDecision.
ValidateCommitteeDecision(d) ==
  /\ d.avis.longueur =< TexteMax
  /\ IF d.decision = "APPROUVE"
     THEN /\ d.montant > 0 /\ d.montant =< montant
          /\ d.avis.duree \in DureesAcceptees /\ d.avis.taux \in TauxAcceptes
          /\ d.avis.differe =< d.avis.duree
     ELSE d.avis.utile >= 3

FindEligibleApplication ==
  /\ statut = "APPROUVE"
  /\ decisions # <<>>
  /\ Derniere.decision = "APPROUVE"
  /\ Derniere.montant > 0
  /\ financements = <<>>

\* What the service checks on the rows it has read before it goes on.
Admise(d) ==
  \/ d.op = "claim"           /\ CanRead(d.user) /\ statut \in Reclamables
  \/ d.op = "review"          /\ agent = d.user /\ <<statut, d.cible>> \in Revue
  \/ d.op = "calculate"       /\ agent = d.user /\ statut = "EN_INSTRUCTION"
  \/ d.op = "decide"          /\ statut = "PRET_COMITE" /\ score # Absent
                              /\ ValidateCommitteeDecision(d)
  \/ d.op = "createFinancing" /\ FindEligibleApplication

Suite(d) ==
  IF d.op = "review" /\ d.cible = "PRET_COMITE" THEN "ready" ELSE "write"

Read(r) ==
  /\ pc[r] = "read"
  /\ Admise(requete[r])
  /\ lu' = [lu EXCEPT ![r] =
              [statut  |-> statut,
               montant |-> IF requete[r].op = "createFinancing" THEN Derniere.montant ELSE 0]]
  /\ pc' = [pc EXCEPT ![r] = Suite(requete[r])]
  /\ UNCHANGED <<dossierVars, requete>>

\* Mutant: the answer of the query is not looked at.
IsCommitteeReadyToujours(r) ==
  /\ pc[r] = "ready"
  /\ pc' = [pc EXCEPT ![r] = "write"]
  /\ UNCHANGED <<dossierVars, requete, lu>>

\* isCommitteeReady, a second query, only for a review that asks PRET_COMITE.
IsCommitteeReady(r) ==
  /\ pc[r] = "ready"
  /\ score # Absent
  /\ pc' = [pc EXCEPT ![r] = "write"]
  /\ UNCHANGED <<dossierVars, requete, lu>>

\* Nothing is written: a check refuses the call, the WHERE clause of its
\* statement matches no row, or the statement or the connection fails.
Abandon(r) ==
  /\ pc[r] # "idle"
  /\ Fin(r)
  /\ UNCHANGED dossierVars

-----------------------------------------------------------------------------
(* The statements.                                                         *)

\* Their WHERE clauses, and the unique index uq_financements_dossier, some with a
\* mutant: the clause is left out because the service has checked already.
ClaimWhere(user)     == statut \in Reclamables /\ agent \in {Personne, user}

TransitionSansStatut(user, attendu) == agent = user
TransitionWhere(user, attendu)      == agent = user /\ statut = attendu

DecideSansStatut == TRUE
DecideWhere      == statut = "PRET_COMITE"

SansUqFinancement == TRUE
UqFinancement     == financements = <<>>

Ecrit(r, op) ==
  /\ pc[r] = "write"
  /\ requete[r].op = op
  /\ Fin(r)

\* Mutant: taking charge of a submitted dossier leaves its status.
ClaimSansPassage(r) ==
  /\ Ecrit(r, "claim")
  /\ ClaimWhere(requete[r].user)
  /\ agent' = requete[r].user
  /\ UNCHANGED <<statut, historique, montant, score, decisions, financements>>

Claim(r) ==
  /\ Ecrit(r, "claim")
  /\ ClaimWhere(requete[r].user)
  /\ agent' = requete[r].user
  /\ IF statut = "SOUMIS" THEN Passe(statut, "EN_INSTRUCTION", requete[r].user)
                          ELSE UNCHANGED <<statut, historique>>
  /\ UNCHANGED <<montant, score, decisions, financements>>

Transition(r) ==
  /\ Ecrit(r, "review")
  /\ TransitionWhere(requete[r].user, lu[r].statut)
  /\ Passe(lu[r].statut, requete[r].cible, requete[r].user)
  /\ UNCHANGED <<agent, montant, score, decisions, financements>>

SaveScore(r) ==
  /\ Ecrit(r, "calculate")
  /\ score' = requete[r].note
  /\ UNCHANGED <<statut, agent, montant, historique, decisions, financements>>

Decide(r) ==
  /\ Ecrit(r, "decide")
  /\ DecideWhere
  /\ Passe("PRET_COMITE", requete[r].decision, Comite)
  /\ decisions' = Append(decisions, [decision |-> requete[r].decision,
                                     montant  |-> requete[r].montant])
  /\ UNCHANGED <<agent, montant, score, financements>>

CreateFromApplication(r) ==
  /\ Ecrit(r, "createFinancing")
  /\ UqFinancement
  /\ financements' = Append(financements, lu[r].montant)
  /\ UNCHANGED <<statut, agent, montant, historique, score, decisions>>

Appel(r) ==
  \/ Recevoir(r)
  \/ Read(r)
  \/ IsCommitteeReady(r)
  \/ Abandon(r)
  \/ Claim(r)
  \/ Transition(r)
  \/ SaveScore(r)
  \/ Decide(r)
  \/ CreateFromApplication(r)

Next ==
  \/ UpdateOwned
  \/ SubmitOwned
  \/ \E r \in Appels : Appel(r)

Spec == Init /\ [][Next]_vars

-----------------------------------------------------------------------------
(* Properties.                                                             *)

Permis == Revue \cup {<<"BROUILLON", "SOUMIS">>} \cup {<<"PRET_COMITE", d>> : d \in Decisions}

(* The history is the dossier's life: from BROUILLON, along permitted      *)
(* transitions and without a gap, to its present status, and every step    *)
(* the agents own was made by the one agent in charge, although a review   *)
(* writes the old status that it read two statements earlier.              *)
HistoriqueFidele ==
  /\ statut = IF historique = <<>> THEN "BROUILLON" ELSE historique[Len(historique)].nouveau
  /\ \A i \in DOMAIN historique :
       /\ historique[i].ancien = IF i = 1 THEN "BROUILLON" ELSE historique[i - 1].nouveau
       /\ <<historique[i].ancien, historique[i].nouveau>> \in Permis
       /\ historique[i].ancien \in Reclamables => historique[i].par = agent

(* Two agents who claim the same dossier at the same time do not take it   *)
(* from each other: an agent in charge stays.                              *)
AgentStable == [][agent # Personne => agent' = agent]_vars

(* What reaches the committee has a score and an agent, whichever calls    *)
(* came between the check of the score and the transition.                 *)
ComiteSurScore ==
  statut \in {"PRET_COMITE", "APPROUVE", "REJETE"} => score # Absent /\ agent # Personne

(* Concurrent members of the committee decide once: an approval or a       *)
(* rejection is the last decision, and is the status of the dossier.       *)
DecisionFinale ==
  /\ \A i \in DOMAIN decisions :
       decisions[i].decision # "COMPLEMENT_REQUIS" =>
         i = Len(decisions) /\ statut = decisions[i].decision
  /\ statut \in {"APPROUVE", "REJETE"} => decisions # <<>> /\ Derniere.decision = statut

(* Two calls that both found the dossier eligible create one financing, of *)
(* the amount that the committee approved.                                 *)
FinancementConforme ==
  /\ Len(financements) =< 1
  /\ financements # <<>> =>
       statut = "APPROUVE" /\ Derniere.decision = "APPROUVE" /\ financements[1] = Derniere.montant

(* As long as the committee never sent the dossier back, what it approves  *)
(* is at most the amount requested, which validateCommitteeDecision checks *)
(* on a row read before the statement that decides.                        *)
MontantPlafonneSansRetour ==
  \A i \in DOMAIN decisions :
    decisions[i].decision = "APPROUVE" /\ SansRetour => decisions[i].montant =< montant
=============================================================================
