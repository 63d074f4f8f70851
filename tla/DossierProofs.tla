--------------------------- MODULE DossierProofs ---------------------------
(***************************************************************************)
(* Proofs about Dossier, for any agents, calls, amounts and scores: that   *)
(* it implements Parcours, what Lectures shows of it, the schedule of      *)
(* Amortissement and the score of Notation.                                *)
(***************************************************************************)
EXTENDS Lectures, Notation, SequenceTheorems, FiniteSetTheorems, TLAPS

\* What remains true of the dossier between the reads of a call and its
\* statement, whatever the other calls did.
Revoit(r)  == pc[r] \in {"ready", "write"} /\ requete[r].op = "review"
Statue(r)  == pc[r] = "write" /\ requete[r].op = "decide" /\ requete[r].decision = "APPROUVE"
Finance(r) == pc[r] = "write" /\ requete[r].op = "createFinancing"

Fonde(r) ==
  /\ Revoit(r) => <<lu[r].statut, requete[r].cible>> \in Revue
  /\ Revoit(r) /\ pc[r] = "write" /\ requete[r].cible = "PRET_COMITE" => score # Absent
  /\ Statue(r) /\ SansRetour =>
       requete[r].montant =< montant /\ statut \in {"PRET_COMITE", "APPROUVE", "REJETE"}
  /\ Finance(r) => statut = "APPROUVE" /\ lu[r].montant = Derniere.montant
                   /\ lu[r].montant \in Montants

Fondes == \A r \in Appels : Fonde(r)

\* The inductive invariant.
IInv ==
  /\ TypeOK
  /\ HistoriqueFidele
  /\ ComiteSurScore
  /\ DecisionFinale
  /\ FinancementConforme
  /\ MontantPlafonneSansRetour
  /\ Fondes

-----------------------------------------------------------------------------

(* A call that ends leaves its slot free.                                  *)
LEMMA FinType ==
  ASSUME TypeOK, NEW r \in Appels, Fin(r)
  PROVE  /\ requete' \in [Appels -> Demandes \cup {Aucune}]
         /\ pc' \in [Appels -> {"idle", "read", "ready", "write"}]
         /\ lu' \in [Appels -> [statut: Statuts, montant: Montants \cup {0}]]
         /\ \A s \in Appels : pc'[s] = "idle" <=> requete'[s] = Aucune
         /\ \A s \in Appels : pc'[s] = "ready" => requete'[s].op = "review"
<1>1. RienLu \in [statut: Statuts, montant: Montants \cup {0}]
  BY DEF RienLu, Statuts
<1>2. QED  BY <1>1 DEF TypeOK, Fin

(* What the log of passages may receive.                                   *)
LEMMA PasseType ==
  ASSUME TypeOK, NEW a \in Statuts, NEW n \in Statuts, NEW p \in Agents \cup {Pme, Comite},
         Passe(a, n, p)
  PROVE  statut' \in Statuts /\ historique' \in Seq(Passage)
<1>1. [ancien |-> a, nouveau |-> n, par |-> p] \in Passage  BY DEF Passage
<1>2. QED  BY <1>1 DEF TypeOK, Passe

(* The members of the union that Demandes is.                              *)
LEMMA DemandeForme ==
  ASSUME NEW d \in Demandes \cup {Aucune}
  PROVE  /\ d.op = "claim" => d.user \in Agents
         /\ d.op = "review" => d.user \in Agents
                /\ d.cible \in {"EN_INSTRUCTION", "COMPLEMENT_REQUIS", "PRET_COMITE"}
         /\ d.op = "calculate" => d.user \in Agents /\ d.note \in Notes
         /\ d.op = "decide" => d.decision \in Decisions /\ d.montant \in Montants \cup {0}
         /\ d = Aucune => d.op = "none"
         /\ d # Aucune => d.op # "none"
BY DEF Demandes, Aucune

(* Every step keeps the columns and the calls well formed.                 *)
LEMMA TypeInv ==
  ASSUME TypeOK, Fondes, DossierAssumption, [Next]_vars
  PROVE  TypeOK'
<1>1. CASE UNCHANGED vars  BY <1>1 DEF TypeOK, vars
<1>2. CASE UpdateOwned  BY <1>2 DEF TypeOK, UpdateOwned
<1>3. CASE SubmitOwned
  <2>1. statut' \in Statuts /\ historique' \in Seq(Passage)
    BY <1>3, PasseType DEF SubmitOwned, Statuts, Reclamables
  <2>2. QED  BY <1>3, <2>1 DEF TypeOK, SubmitOwned
<1>4. ASSUME NEW r \in Appels, Appel(r)  PROVE TypeOK'
  <2>0. requete[r] \in Demandes \cup {Aucune}  BY DEF TypeOK
  <2>1. CASE Recevoir(r)
    <3>1. PICK d \in Demandes : requete' = [requete EXCEPT ![r] = d]  BY <2>1 DEF Recevoir
    <3>2. d # Aucune  BY DEF Demandes, Aucune
    <3>3. QED  BY <2>1, <3>1, <3>2 DEF TypeOK, Recevoir, dossierVars
  <2>2. CASE Read(r)
    <3>1. Suite(requete[r]) \in {"ready", "write"}  BY DEF Suite
    <3>2. Suite(requete[r]) = "ready" => requete[r].op = "review"  BY DEF Suite
    <3>3. requete[r].op = "createFinancing" => Derniere.montant \in Montants \cup {0}
      <4>1. SUFFICES ASSUME decisions # <<>>
                     PROVE  decisions[Len(decisions)].montant \in Montants \cup {0}
        BY <2>0, <2>2 DEF Read, Admise, FindEligibleApplication, Derniere
      <4>2. decisions \in Seq(Decision)  BY DEF TypeOK
      <4>3. decisions[Len(decisions)] \in Decision  BY <4>1, <4>2
      <4>4. QED  BY <4>3 DEF Decision
    <3>4. lu' \in [Appels -> [statut: Statuts, montant: Montants \cup {0}]]
      BY <2>2, <3>3 DEF TypeOK, Read
    <3>5. QED  BY <2>2, <3>1, <3>2, <3>4 DEF TypeOK, Read, dossierVars
  <2>3. CASE IsCommitteeReady(r)  BY <2>3 DEF TypeOK, IsCommitteeReady, dossierVars
  <2>4. CASE Abandon(r)  BY <2>4, FinType DEF TypeOK, Abandon, dossierVars
  <2>5. CASE Claim(r)
    <3>1. Fin(r) /\ requete[r].user \in Agents
      BY <2>0, <2>5, DemandeForme DEF Claim, Ecrit
    <3>2. statut' \in Statuts /\ historique' \in Seq(Passage)
      BY <2>5, <3>1, PasseType DEF Claim, TypeOK, Statuts, Reclamables
    <3>3. QED  BY <2>5, <3>1, <3>2, FinType DEF Claim, TypeOK
  <2>6. CASE Transition(r)
    <3>1. Fin(r) /\ requete[r].user \in Agents /\ requete[r].cible \in Statuts
      BY <2>0, <2>6, DemandeForme DEF Transition, Ecrit, Statuts, Reclamables
    <3>2. lu[r].statut \in Statuts  BY DEF TypeOK
    <3>3. statut' \in Statuts /\ historique' \in Seq(Passage)
      BY <2>6, <3>1, <3>2, PasseType DEF Transition
    <3>4. QED  BY <2>6, <3>1, <3>3, FinType DEF Transition, TypeOK
  <2>7. CASE SaveScore(r)
    <3>1. Fin(r) /\ requete[r].note \in Notes
      BY <2>0, <2>7, DemandeForme DEF SaveScore, Ecrit
    <3>2. QED  BY <2>7, <3>1, FinType DEF SaveScore, TypeOK
  <2>8. CASE Decide(r)
    <3>1. /\ Fin(r)
          /\ requete[r].decision \in Decisions
          /\ requete[r].montant \in Montants \cup {0}
      BY <2>0, <2>8, DemandeForme DEF Decide, Ecrit
    <3>2. statut' \in Statuts /\ historique' \in Seq(Passage)
      BY <2>8, <3>1, PasseType DEF Decide, Statuts
    <3>3. [decision |-> requete[r].decision, montant |-> requete[r].montant] \in Decision
      BY <3>1 DEF Decision
    <3>4. decisions' \in Seq(Decision)  BY <2>8, <3>3 DEF Decide, TypeOK
    <3>5. QED  BY <2>8, <3>1, <3>2, <3>4, FinType DEF Decide, TypeOK
  <2>9. CASE CreateFromApplication(r)
    <3>1. Fin(r) /\ lu[r].montant \in Montants
      BY <2>9 DEF CreateFromApplication, Ecrit, Fondes, Fonde, Finance
    <3>2. QED  BY <2>9, <3>1, FinType DEF CreateFromApplication, TypeOK
  <2>10. QED
    BY <1>4, <2>1, <2>2, <2>3, <2>4, <2>5, <2>6, <2>7, <2>8, <2>9 DEF Appel
<1>5. QED  BY <1>1, <1>2, <1>3, <1>4 DEF Next

-----------------------------------------------------------------------------
(* The history.                                                            *)

(* One more passage, permitted, from the present status, made by the agent *)
(* if the status is one the agents work on, keeps the history faithful.    *)
LEMMA PasseFidele ==
  ASSUME TypeOK, DossierAssumption, HistoriqueFidele,
         NEW n, NEW p, Passe(statut, n, p), <<statut, n>> \in Permis,
         statut \in Reclamables => p = agent',
         agent # Personne => agent' = agent
  PROVE  HistoriqueFidele'
<1> DEFINE e == [ancien |-> statut, nouveau |-> n, par |-> p]
<1>1. historique' = Append(historique, e) /\ statut' = n  BY DEF Passe
<1>2. historique \in Seq(Passage)  BY DEF TypeOK
<1>3. /\ Len(historique') = Len(historique) + 1
      /\ DOMAIN historique' = 1 .. Len(historique) + 1
      /\ DOMAIN historique = 1 .. Len(historique)
      /\ Len(historique) \in Nat
      /\ \A i \in 1 .. Len(historique) : historique'[i] = historique[i]
      /\ historique'[Len(historique) + 1] = e
  BY <1>1, <1>2
<1>4. historique' # <<>>  BY <1>3
<1>5. statut = IF historique = <<>> THEN "BROUILLON" ELSE historique[Len(historique)].nouveau
  BY DEF HistoriqueFidele
<1>6. historique = <<>> <=> Len(historique) = 0  BY <1>2
<1>7. ASSUME NEW i \in 1 .. Len(historique) + 1
      PROVE  /\ historique'[i].ancien = IF i = 1 THEN "BROUILLON" ELSE historique'[i - 1].nouveau
             /\ <<historique'[i].ancien, historique'[i].nouveau>> \in Permis
             /\ historique'[i].ancien \in Reclamables => historique'[i].par = agent'
  <2>1. CASE i = Len(historique) + 1
    <3>1. historique'[i] = e  BY <1>3, <2>1
    <3>2. e.ancien = IF i = 1 THEN "BROUILLON" ELSE historique'[i - 1].nouveau
      BY <1>3, <1>5, <1>6, <2>1
    <3>3. QED  BY <3>1, <3>2
  <2>2. CASE i \in 1 .. Len(historique)
    <3>1. historique'[i] = historique[i]  BY <1>3, <2>2
    <3>2. i # 1 => i - 1 \in 1 .. Len(historique) /\ historique'[i - 1] = historique[i - 1]
      BY <1>3, <2>2
    <3>3. /\ historique[i].ancien = IF i = 1 THEN "BROUILLON" ELSE historique[i - 1].nouveau
          /\ <<historique[i].ancien, historique[i].nouveau>> \in Permis
          /\ historique[i].ancien \in Reclamables => historique[i].par = agent
      BY <1>3, <2>2 DEF HistoriqueFidele
    <3>4. historique[i].par # Personne
      <4>1. historique[i] \in Passage  BY <1>2, <1>3, <2>2
      <4>2. QED  BY <4>1 DEF Passage, DossierAssumption
    <3>5. QED  BY <3>1, <3>2, <3>3, <3>4
  <2>3. QED  BY <1>3, <2>1, <2>2
<1>8. Permis' = Permis  BY DEF Permis
<1>9. QED  BY <1>1, <1>3, <1>4, <1>7 DEF HistoriqueFidele, Permis

(* A passage kept as it is, with the agent in charge, remains faithful.    *)
LEMMA HistoriqueStable ==
  ASSUME TypeOK, DossierAssumption, HistoriqueFidele,
         UNCHANGED <<statut, historique>>, agent # Personne => agent' = agent
  PROVE  HistoriqueFidele'
<1>1. historique \in Seq(Passage)  BY DEF TypeOK
<1>2. \A i \in DOMAIN historique : historique[i].par # Personne
  <2>1. ASSUME NEW i \in DOMAIN historique  PROVE historique[i].par # Personne
    <3>1. historique[i] \in Passage  BY <1>1
    <3>2. QED  BY <3>1 DEF Passage, DossierAssumption
  <2>2. QED  BY <2>1
<1>3. \A i \in DOMAIN historique : historique[i].ancien \in Reclamables => historique[i].par = agent'
  BY <1>2 DEF HistoriqueFidele
<1>4. QED  BY <1>3 DEF HistoriqueFidele, Permis

(* An agent in charge is never replaced.                                   *)
LEMMA AgentStep ==
  ASSUME TypeOK, [Next]_vars
  PROVE  agent # Personne => agent' = agent
<1>1. ASSUME NEW r \in Appels, Appel(r), agent # Personne  PROVE agent' = agent
  BY <1>1 DEF Appel, Recevoir, Read, IsCommitteeReady, Abandon, Claim, ClaimWhere, Transition,
     SaveScore, Decide, CreateFromApplication, dossierVars
<1>2. QED  BY <1>1 DEF Next, UpdateOwned, SubmitOwned, vars

(* Every step keeps the history faithful.                                  *)
LEMMA HistoriqueInv ==
  ASSUME TypeOK, Fondes, DossierAssumption, HistoriqueFidele, [Next]_vars
  PROVE  HistoriqueFidele'
<1>0. agent # Personne => agent' = agent  BY AgentStep
<1>1. CASE UNCHANGED <<statut, historique>>  BY <1>0, <1>1, HistoriqueStable
<1>2. CASE SubmitOwned
  <2>1. Passe(statut, "SOUMIS", Pme) /\ <<statut, "SOUMIS">> \in Permis
    BY <1>2 DEF SubmitOwned, Permis, Passe
  <2>2. statut \notin Reclamables  BY <1>2 DEF SubmitOwned, Reclamables
  <2>3. QED  BY <1>0, <2>1, <2>2, PasseFidele
<1>3. ASSUME NEW r \in Appels, Claim(r), ~ UNCHANGED <<statut, historique>>
      PROVE  HistoriqueFidele'
  <2>1. /\ Passe(statut, "EN_INSTRUCTION", requete[r].user)
        /\ statut = "SOUMIS"
        /\ agent' = requete[r].user
    BY <1>3 DEF Claim
  <2>2. <<statut, "EN_INSTRUCTION">> \in Permis  BY <2>1 DEF Permis, Revue
  <2>3. QED  BY <1>0, <2>1, <2>2, PasseFidele
<1>4. ASSUME NEW r \in Appels, Transition(r)  PROVE HistoriqueFidele'
  <2>1. /\ Passe(statut, requete[r].cible, requete[r].user)
        /\ agent' = requete[r].user
        /\ lu[r].statut = statut
    BY <1>4 DEF Transition, TransitionWhere
  <2>2. Revoit(r)  BY <1>4 DEF Transition, Ecrit, Revoit
  <2>3. <<statut, requete[r].cible>> \in Permis  BY <2>1, <2>2 DEF Fondes, Fonde, Permis
  <2>4. QED  BY <1>0, <2>1, <2>3, PasseFidele
<1>5. ASSUME NEW r \in Appels, Decide(r)  PROVE HistoriqueFidele'
  <2>1. Passe(statut, requete[r].decision, Comite) /\ statut = "PRET_COMITE"
    BY <1>5 DEF Decide, DecideWhere
  <2>2. requete[r].decision \in Decisions
    <3>1. requete[r] \in Demandes \cup {Aucune}  BY DEF TypeOK
    <3>2. QED  BY <1>5, <3>1, DemandeForme DEF Decide, Ecrit
  <2>3. <<statut, requete[r].decision>> \in Permis  BY <2>1, <2>2 DEF Permis
  <2>4. statut \notin Reclamables  BY <2>1 DEF Reclamables
  <2>5. QED  BY <1>0, <2>1, <2>3, <2>4, PasseFidele
<1>6. QED
  BY <1>1, <1>2, <1>3, <1>4, <1>5
  DEF Next, Appel, UpdateOwned, Recevoir, Read, IsCommitteeReady, Abandon, SaveScore,
      CreateFromApplication, dossierVars, vars

-----------------------------------------------------------------------------
(* What the statements do to the status.                                   *)

(* A status of the agents is left by a claim or a review only, towards a   *)
(* status of the agents or PRET_COMITE, with a score and an agent; a final *)
(* status is never left.                                                   *)
LEMMA StatutStep ==
  ASSUME TypeOK, Fondes, DossierAssumption, [Next]_vars
  PROVE  \/ statut' = statut
         \/ /\ statut \in Reclamables \cup {"BROUILLON"}
            /\ statut' \in Reclamables
            /\ decisions' = decisions
         \/ /\ statut \in Reclamables /\ statut' = "PRET_COMITE"
            /\ score # Absent /\ agent # Personne
            /\ UNCHANGED <<score, agent, decisions>>
         \/ \E r \in Appels : Decide(r)
<1> DEFINE Cas == \/ statut' = statut
                  \/ /\ statut \in Reclamables \cup {"BROUILLON"}
                     /\ statut' \in Reclamables
                     /\ decisions' = decisions
                  \/ /\ statut \in Reclamables /\ statut' = "PRET_COMITE"
                     /\ score # Absent /\ agent # Personne
                     /\ UNCHANGED <<score, agent, decisions>>
                  \/ \E r \in Appels : Decide(r)
<1>1. CASE UNCHANGED statut  BY <1>1
<1>2. CASE SubmitOwned  BY <1>2 DEF SubmitOwned, Passe, Reclamables
<1>3. ASSUME NEW r \in Appels, Claim(r)  PROVE Cas
  BY <1>3 DEF Claim, Passe, Reclamables
<1>4. ASSUME NEW r \in Appels, Transition(r)  PROVE Cas
  <2>1. /\ statut' = requete[r].cible /\ lu[r].statut = statut
        /\ agent = requete[r].user
        /\ UNCHANGED <<score, agent, decisions>>
    BY <1>4 DEF Transition, TransitionWhere, Passe
  <2>2. Revoit(r) /\ pc[r] = "write"  BY <1>4 DEF Transition, Ecrit, Revoit
  <2>3. requete[r].user \in Agents
    <3>1. requete[r] \in Demandes \cup {Aucune}  BY DEF TypeOK
    <3>2. QED  BY <2>2, <3>1, DemandeForme DEF Revoit
  <2>4. agent # Personne  BY <2>1, <2>3 DEF DossierAssumption
  <2>5. <<statut, requete[r].cible>> \in Revue
    BY <2>1, <2>2 DEF Fondes, Fonde
  <2>6. requete[r].cible = "PRET_COMITE" => score # Absent  BY <2>2 DEF Fondes, Fonde
  <2>7. statut \in Reclamables /\ requete[r].cible \in Reclamables \cup {"PRET_COMITE"}
    BY <2>5 DEF Revue, Reclamables
  <2>8. QED  BY <2>1, <2>4, <2>6, <2>7
<1>5. QED
  BY <1>1, <1>2, <1>3, <1>4
  DEF Next, Appel, UpdateOwned, Recevoir, Read, IsCommitteeReady, Abandon, SaveScore,
      CreateFromApplication, dossierVars, vars

(* A score, once there, stays.                                             *)
LEMMA ScoreStep ==
  ASSUME TypeOK, DossierAssumption, [Next]_vars, score # Absent
  PROVE  score' # Absent
<1>1. ASSUME NEW r \in Appels, SaveScore(r)  PROVE score' # Absent
  <2>1. requete[r] \in Demandes \cup {Aucune}  BY DEF TypeOK
  <2>2. requete[r].note \in Notes  BY <1>1, <2>1, DemandeForme DEF SaveScore, Ecrit
  <2>3. QED  BY <1>1, <2>2 DEF SaveScore, DossierAssumption
<1>2. QED
  BY <1>1 DEF Next, Appel, UpdateOwned, SubmitOwned, Recevoir, Read, IsCommitteeReady, Abandon,
     Claim, Transition, Decide, CreateFromApplication, dossierVars, vars

(* Every step keeps a score and an agent behind what the committee has.    *)
LEMMA ComiteInv ==
  ASSUME TypeOK, Fondes, DossierAssumption, ComiteSurScore, [Next]_vars
  PROVE  ComiteSurScore'
<1>1. agent # Personne => agent' = agent  BY AgentStep
<1>2. score # Absent => score' # Absent  BY ScoreStep
<1>3. ASSUME NEW r \in Appels, Decide(r)  PROVE statut = "PRET_COMITE"
  BY <1>3 DEF Decide, DecideWhere
<1>4. \/ statut' = statut
      \/ statut' \in Reclamables
      \/ score # Absent /\ agent # Personne /\ UNCHANGED <<score, agent>>
      \/ statut = "PRET_COMITE"
  BY <1>3, StatutStep
<1>5. QED  BY <1>1, <1>2, <1>4 DEF ComiteSurScore, Reclamables

(* What Decide does, and what leaves the decisions alone.                  *)
LEMMA DecisionStep ==
  ASSUME TypeOK, [Next]_vars
  PROVE  decisions' = decisions \/ \E r \in Appels : Decide(r)
BY DEF Next, Appel, UpdateOwned, SubmitOwned, Recevoir, Read, IsCommitteeReady, Abandon,
   Claim, Transition, SaveScore, CreateFromApplication, dossierVars, vars

(* Decide adds one decision, the new status, to a dossier in PRET_COMITE.  *)
LEMMA DecideAppend ==
  ASSUME TypeOK, NEW r \in Appels, Decide(r)
  PROVE  /\ Len(decisions') = Len(decisions) + 1
         /\ Len(decisions) \in Nat
         /\ DOMAIN decisions = 1 .. Len(decisions)
         /\ DOMAIN decisions' = 1 .. Len(decisions) + 1
         /\ \A i \in DOMAIN decisions : decisions'[i] = decisions[i]
         /\ decisions'[Len(decisions) + 1].decision = statut'
         /\ decisions'[Len(decisions) + 1].montant = requete[r].montant
         /\ decisions' # <<>>
         /\ statut = "PRET_COMITE" /\ statut' = requete[r].decision
         /\ requete[r].decision \in Decisions
<1> DEFINE e == [decision |-> requete[r].decision, montant |-> requete[r].montant]
<1>1. decisions' = Append(decisions, e) /\ statut' = requete[r].decision /\ statut = "PRET_COMITE"
  BY DEF Decide, Passe, DecideWhere
<1>2. decisions \in Seq(Decision)  BY DEF TypeOK
<1>3. /\ Len(decisions') = Len(decisions) + 1
      /\ Len(decisions) \in Nat
      /\ DOMAIN decisions = 1 .. Len(decisions)
      /\ DOMAIN decisions' = 1 .. Len(decisions) + 1
      /\ \A i \in 1 .. Len(decisions) : decisions'[i] = decisions[i]
      /\ decisions'[Len(decisions) + 1] = e
  BY <1>1, <1>2
<1>4. decisions' # <<>>
  <2>1. Len(<<>>) = 0  OBVIOUS
  <2>2. QED  BY <1>3, <2>1
<1>5. requete[r].decision \in Decisions
  <2>1. requete[r] \in Demandes \cup {Aucune}  BY DEF TypeOK
  <2>2. QED  BY <2>1, DemandeForme DEF Decide, Ecrit
<1>6. QED  BY <1>1, <1>3, <1>4, <1>5

(* What a recorded decision contains.                                      *)
LEMMA DecisionType ==
  ASSUME TypeOK, NEW i \in DOMAIN decisions
  PROVE  decisions[i].decision \in Decisions /\ decisions[i].montant \in Montants \cup {0}
<1>1. decisions \in Seq(Decision)  BY DEF TypeOK
<1>2. decisions[i] \in Decision  BY <1>1
<1>3. QED  BY <1>2 DEF Decision

(* Every step keeps a final decision last and equal to the status.         *)
LEMMA DecisionInv ==
  ASSUME TypeOK, Fondes, DossierAssumption, DecisionFinale, [Next]_vars
  PROVE  DecisionFinale'
<1>1. ASSUME NEW r \in Appels, Decide(r)  PROVE DecisionFinale'
  <2>1. \A i \in DOMAIN decisions : decisions[i].decision = "COMPLEMENT_REQUIS"
    BY <1>1, DecideAppend, DecisionType DEF DecisionFinale, Decisions
  <2>2. ASSUME NEW i \in DOMAIN decisions', decisions'[i].decision # "COMPLEMENT_REQUIS"
        PROVE  i = Len(decisions') /\ statut' = decisions'[i].decision
    <3>1. i \notin DOMAIN decisions  BY <1>1, <2>1, <2>2, DecideAppend
    <3>2. i = Len(decisions) + 1  BY <1>1, <3>1, DecideAppend
    <3>3. QED  BY <1>1, <3>2, DecideAppend
  <2>3. decisions' # <<>> /\ decisions'[Len(decisions')].decision = statut'
    BY <1>1, DecideAppend
  <2>4. QED  BY <2>2, <2>3 DEF DecisionFinale, Derniere
<1>2. CASE decisions' = decisions /\ ~ \E r \in Appels : Decide(r)
  <2>1. \/ statut' = statut
        \/ statut \notin {"APPROUVE", "REJETE"} /\ statut' \notin {"APPROUVE", "REJETE"}
    BY <1>2, StatutStep DEF Reclamables
  <2>2. CASE statut' = statut  BY <1>2, <2>2 DEF DecisionFinale, Derniere
  <2>3. CASE statut \notin {"APPROUVE", "REJETE"} /\ statut' \notin {"APPROUVE", "REJETE"}
    <3>1. \A i \in DOMAIN decisions : decisions[i].decision = "COMPLEMENT_REQUIS"
      BY <2>3, DecisionType DEF DecisionFinale, Decisions
    <3>2. QED  BY <1>2, <2>3, <3>1 DEF DecisionFinale
  <2>4. QED  BY <2>1, <2>2, <2>3
<1>3. QED  BY <1>1, <1>2, DecisionStep

-----------------------------------------------------------------------------
(* The financing.                                                          *)

(* Every step keeps one financing at most, of the amount approved.         *)
LEMMA FinancementInv ==
  ASSUME TypeOK, Fondes, DossierAssumption, DecisionFinale, FinancementConforme, [Next]_vars
  PROVE  FinancementConforme'
<1>1. ASSUME NEW r \in Appels, CreateFromApplication(r)  PROVE FinancementConforme'
  <2>1. /\ financements' = Append(<<>>, lu[r].montant)
        /\ UNCHANGED <<statut, decisions>>
    BY <1>1 DEF CreateFromApplication, UqFinancement
  <2>2. financements' = <<lu[r].montant>>  BY <2>1
  <2>3. Len(financements') = 1 /\ financements'[1] = lu[r].montant  BY <2>2
  <2>4. Finance(r)  BY <1>1 DEF CreateFromApplication, Ecrit, Finance
  <2>5. statut = "APPROUVE" /\ lu[r].montant = Derniere.montant /\ Derniere.decision = "APPROUVE"
    BY <2>4 DEF Fondes, Fonde, DecisionFinale
  <2>6. Derniere' = Derniere  BY <2>1 DEF Derniere
  <2>7. QED  BY <2>1, <2>3, <2>5, <2>6 DEF FinancementConforme
<1>2. CASE financements' = financements
  <2>1. CASE financements = <<>>  BY <1>2, <2>1 DEF FinancementConforme
  <2>2. CASE financements # <<>>
    <3>1. statut = "APPROUVE"  BY <2>2 DEF FinancementConforme
    <3>2. ~ \E r \in Appels : Decide(r)  BY <3>1 DEF Decide, DecideWhere
    <3>3. statut' = statut  BY <3>1, <3>2, StatutStep DEF Reclamables
    <3>4. decisions' = decisions  BY <3>2, DecisionStep
    <3>5. QED  BY <1>2, <3>3, <3>4 DEF FinancementConforme, Derniere
  <2>3. QED  BY <2>1, <2>2
<1>3. QED
  BY <1>1, <1>2
  DEF Next, Appel, UpdateOwned, SubmitOwned, Recevoir, Read, IsCommitteeReady, Abandon,
      Claim, Transition, SaveScore, Decide, dossierVars, vars

-----------------------------------------------------------------------------
(* The ceiling.                                                            *)

(* The requested amount changes only before a dossier is submitted, or     *)
(* after it was sent back.                                                 *)
LEMMA MontantStep ==
  ASSUME TypeOK, [Next]_vars
  PROVE  montant' = montant \/ (statut \in {"BROUILLON", "COMPLEMENT_REQUIS"}
                                /\ UNCHANGED <<statut, decisions, requete, pc>>)
BY DEF Next, Appel, UpdateOwned, SubmitOwned, Recevoir, Read, IsCommitteeReady, Abandon,
   Claim, Transition, SaveScore, Decide, CreateFromApplication, dossierVars, vars

(* Every step keeps the ceiling of a dossier that was never sent back.     *)
LEMMA PlafondInv ==
  ASSUME TypeOK, Fondes, DossierAssumption, DecisionFinale, MontantPlafonneSansRetour, [Next]_vars
  PROVE  MontantPlafonneSansRetour'
<1>1. ASSUME NEW r \in Appels, Decide(r)  PROVE MontantPlafonneSansRetour'
  <2>0. montant' = montant  BY <1>1 DEF Decide
  <2>1. SUFFICES ASSUME NEW i \in DOMAIN decisions', decisions'[i].decision = "APPROUVE",
                        \A j \in DOMAIN decisions' : decisions'[j].decision # "COMPLEMENT_REQUIS"
                 PROVE  decisions'[i].montant =< montant
    BY <2>0 DEF MontantPlafonneSansRetour, SansRetour
  <2>2. SansRetour  BY <1>1, <2>1, DecideAppend DEF SansRetour
  <2>3. CASE i \in DOMAIN decisions
    BY <1>1, <2>1, <2>2, <2>3, DecideAppend DEF MontantPlafonneSansRetour, SansRetour
  <2>4. CASE i = Len(decisions) + 1
    <3>1. requete[r].decision = "APPROUVE" /\ decisions'[i].montant = requete[r].montant
      BY <1>1, <2>1, <2>4, DecideAppend
    <3>2. Statue(r)  BY <1>1, <3>1 DEF Decide, Ecrit, Statue
    <3>3. QED  BY <2>2, <3>1, <3>2 DEF Fondes, Fonde
  <2>5. QED  BY <1>1, <2>1, <2>3, <2>4, DecideAppend
<1>2. CASE decisions' = decisions
  <2>1. CASE montant' = montant  BY <1>2, <2>1 DEF MontantPlafonneSansRetour, SansRetour
  <2>2. CASE statut \in {"BROUILLON", "COMPLEMENT_REQUIS"}
    BY <1>2, <2>2 DEF MontantPlafonneSansRetour, SansRetour, DecisionFinale
  <2>3. QED  BY <2>1, <2>2, MontantStep
<1>3. QED  BY <1>1, <1>2, DecisionStep

-----------------------------------------------------------------------------
(* What a call has read stays good enough for the statement it will run.   *)

(* A call that is not the one that moves keeps its place and its request.  *)
LEMMA Autres ==
  ASSUME TypeOK, [Next]_vars, NEW s \in Appels
  PROVE  \/ UNCHANGED <<pc[s], requete[s], lu[s]>>
         \/ pc'[s] \in {"idle", "read"}
         \/ Read(s)
         \/ IsCommitteeReady(s)
<1>1. CASE UpdateOwned \/ SubmitOwned \/ UNCHANGED vars  BY <1>1 DEF UpdateOwned, SubmitOwned, vars
<1>2. ASSUME NEW r \in Appels, Recevoir(r)
      PROVE  UNCHANGED <<pc[s], requete[s], lu[s]>> \/ pc'[s] \in {"idle", "read"}
  BY <1>2 DEF Recevoir, TypeOK
<1>3. ASSUME NEW r \in Appels, Fin(r)
      PROVE  UNCHANGED <<pc[s], requete[s], lu[s]>> \/ pc'[s] \in {"idle", "read"}
  BY <1>3 DEF Fin, TypeOK
<1>4. ASSUME NEW r \in Appels, Read(r) \/ IsCommitteeReady(r), r # s
      PROVE  UNCHANGED <<pc[s], requete[s], lu[s]>>
  BY <1>4 DEF Read, IsCommitteeReady, TypeOK
<1>5. QED
  BY <1>1, <1>2, <1>3, <1>4 DEF Next, Appel, Abandon, Claim, Transition, SaveScore, Decide,
     CreateFromApplication, Ecrit

(* The calls in flight, one statement of the others later.                 *)
LEMMA FondeAutre ==
  ASSUME TypeOK, Fondes, DossierAssumption, DecisionFinale, [Next]_vars,
         NEW s \in Appels, UNCHANGED <<pc[s], requete[s], lu[s]>>
  PROVE  Fonde(s)'
<1>0. Fonde(s)  BY DEF Fondes
<1>1. /\ Revoit(s)' = Revoit(s)
      /\ Statue(s)' = Statue(s)
      /\ Finance(s)' = Finance(s)
  BY DEF Revoit, Statue, Finance
<1>2. Revoit(s)' => <<lu'[s].statut, requete'[s].cible>> \in Revue
  BY <1>0, <1>1 DEF Fonde
<1>3. Revoit(s)' /\ pc'[s] = "write" /\ requete'[s].cible = "PRET_COMITE" => score' # Absent
  BY <1>0, <1>1, ScoreStep DEF Fonde
<1>4. ASSUME Statue(s)', SansRetour'
      PROVE  requete'[s].montant =< montant' /\ statut' \in {"PRET_COMITE", "APPROUVE", "REJETE"}
  <2>1. CASE \E r \in Appels : Decide(r)
    <3>1. PICK r \in Appels : Decide(r)  BY <2>1
    <3>2. SansRetour /\ statut' # "COMPLEMENT_REQUIS"
      BY <1>4, <3>1, DecideAppend DEF SansRetour
    <3>3. statut' \in Decisions  BY <3>1, DecideAppend
    <3>4. montant' = montant  BY <3>1 DEF Decide
    <3>5. QED  BY <1>0, <1>1, <1>4, <3>2, <3>3, <3>4 DEF Fonde, Decisions
  <2>2. CASE ~ \E r \in Appels : Decide(r)
    <3>1. decisions' = decisions  BY <2>2, DecisionStep
    <3>2. SansRetour  BY <1>4, <3>1 DEF SansRetour
    <3>3. requete[s].montant =< montant /\ statut \in {"PRET_COMITE", "APPROUVE", "REJETE"}
      BY <1>0, <1>1, <1>4, <3>2 DEF Fonde
    <3>4. statut' = statut  BY <2>2, <3>3, StatutStep DEF Reclamables
    <3>5. montant' = montant  BY <3>3, MontantStep
    <3>6. QED  BY <3>3, <3>4, <3>5
  <2>3. QED  BY <2>1, <2>2
<1>5. ASSUME Finance(s)'
      PROVE  statut' = "APPROUVE" /\ lu'[s].montant = Derniere' .montant /\ lu'[s].montant \in Montants
  <2>1. statut = "APPROUVE" /\ lu[s].montant = Derniere.montant /\ lu[s].montant \in Montants
    BY <1>0, <1>1, <1>5 DEF Fonde
  <2>2. ~ \E r \in Appels : Decide(r)  BY <2>1 DEF Decide, DecideWhere
  <2>3. statut' = statut  BY <2>1, <2>2, StatutStep DEF Reclamables
  <2>4. decisions' = decisions  BY <2>2, DecisionStep
  <2>5. QED  BY <2>1, <2>3, <2>4 DEF Derniere
<1>6. QED  BY <1>2, <1>3, <1>4, <1>5 DEF Fonde, Revue

(* Every step keeps every call founded on what it read.                    *)
LEMMA FondeInv ==
  ASSUME TypeOK, Fondes, DossierAssumption, DecisionFinale, [Next]_vars
  PROVE  Fondes'
<1>1. SUFFICES ASSUME NEW s \in Appels  PROVE Fonde(s)'  BY DEF Fondes
<1>2. CASE UNCHANGED <<pc[s], requete[s], lu[s]>>  BY <1>2, FondeAutre
<1>3. CASE pc'[s] \in {"idle", "read"}
  BY <1>3 DEF Fonde, Revoit, Statue, Finance
<1>4. CASE Read(s)
  <2>1. /\ UNCHANGED <<statut, montant, decisions, score, requete>>
        /\ Admise(requete[s])
        /\ pc'[s] = Suite(requete[s])
        /\ lu'[s].statut = statut
        /\ requete[s].op = "createFinancing" => lu'[s].montant = Derniere.montant
    BY <1>4 DEF Read, dossierVars, TypeOK
  <2>2. requete[s].op = "review" => <<statut, requete[s].cible>> \in Revue
    BY <2>1 DEF Admise
  <2>3. pc'[s] = "write" /\ requete[s].op = "review" => requete[s].cible # "PRET_COMITE"
    BY <2>1 DEF Suite
  <2>4. requete[s].op = "decide" /\ requete[s].decision = "APPROUVE" =>
          statut = "PRET_COMITE" /\ requete[s].montant =< montant
    BY <2>1 DEF Admise, ValidateCommitteeDecision
  <2>5. requete[s].op = "createFinancing" =>
          statut = "APPROUVE" /\ decisions # <<>> /\ Derniere.montant > 0
    BY <2>1 DEF Admise, FindEligibleApplication
  <2>6. requete[s].op = "createFinancing" => Derniere.montant \in Montants
    <3>1. decisions # <<>> => Len(decisions) \in DOMAIN decisions
      <4>1. decisions \in Seq(Decision)  BY DEF TypeOK
      <4>2. QED  BY <4>1
    <3>2. decisions # <<>> => Derniere.montant \in Montants \cup {0}
      BY <3>1, DecisionType DEF Derniere
    <3>3. QED  BY <2>5, <3>2
  <2>7. Derniere' = Derniere  BY <2>1 DEF Derniere
  <2>8. QED
    BY <2>1, <2>2, <2>3, <2>4, <2>5, <2>6, <2>7 DEF Fonde, Revoit, Statue, Finance, Revue
<1>5. CASE IsCommitteeReady(s)
  <2>1. /\ pc[s] = "ready" /\ requete[s].op = "review" /\ score # Absent
        /\ UNCHANGED <<score, requete, lu>>
    BY <1>5 DEF IsCommitteeReady, dossierVars, TypeOK
  <2>2. <<lu[s].statut, requete[s].cible>> \in Revue
    BY <2>1 DEF Fondes, Fonde, Revoit
  <2>3. QED  BY <2>1, <2>2 DEF Fonde, Revoit, Statue, Finance, Revue
<1>6. QED  BY <1>2, <1>3, <1>4, <1>5, Autres

-----------------------------------------------------------------------------

(* A new draft satisfies the inductive invariant.                          *)
LEMMA InitIInv ==
  ASSUME DossierAssumption, Init
  PROVE  IInv
<1>1. TypeOK
  BY DEF Init, ParcoursInit, TypeOK, Statuts, Reclamables, RienLu
<1>2. HistoriqueFidele /\ ComiteSurScore
  BY DEF Init, ParcoursInit, HistoriqueFidele, ComiteSurScore
<1>3. DecisionFinale /\ MontantPlafonneSansRetour
  BY DEF Init, ParcoursInit, DecisionFinale, MontantPlafonneSansRetour
<1>4. FinancementConforme  BY DEF Init, ParcoursInit, FinancementConforme
<1>5. Fondes  BY DEF Init, Fondes, Fonde, Revoit, Statue, Finance
<1>6. QED  BY <1>1, <1>2, <1>3, <1>4, <1>5 DEF IInv

(* Every step preserves the inductive invariant.                           *)
LEMMA NextIInv ==
  ASSUME DossierAssumption, IInv, [Next]_vars
  PROVE  IInv'
<1>1. /\ TypeOK /\ Fondes
      /\ HistoriqueFidele /\ ComiteSurScore /\ DecisionFinale
      /\ FinancementConforme /\ MontantPlafonneSansRetour
  BY DEF IInv
<1>2. TypeOK'  BY <1>1, TypeInv
<1>3. HistoriqueFidele'  BY <1>1, HistoriqueInv
<1>4. ComiteSurScore'  BY <1>1, ComiteInv
<1>5. DecisionFinale'  BY <1>1, DecisionInv
<1>6. FinancementConforme'  BY <1>1, FinancementInv
<1>7. MontantPlafonneSansRetour'  BY <1>1, PlafondInv
<1>8. Fondes'  BY <1>1, FondeInv
<1>9. QED  BY <1>2, <1>3, <1>4, <1>5, <1>6, <1>7, <1>8 DEF IInv

(* The inductive invariant holds in every reachable state.                 *)
THEOREM Inductif == Spec => []IInv
<1>1. Init => IInv  BY InitIInv, DossierAssumption
<1>2. IInv /\ [Next]_vars => IInv'  BY NextIInv, DossierAssumption
<1>3. QED  BY <1>1, <1>2, PTL DEF Spec

(* The columns and the places of the calls.                                *)
THEOREM DossierType == Spec => []TypeOK
<1>1. IInv => TypeOK  BY DEF IInv
<1>2. QED  BY <1>1, Inductif, PTL

(* The history is a permitted life of the dossier, ending at its status.   *)
THEOREM HistoriqueTheorem == Spec => []HistoriqueFidele
<1>1. IInv => HistoriqueFidele  BY DEF IInv
<1>2. QED  BY <1>1, Inductif, PTL

(* Nothing reaches the committee without a score and an agent.             *)
THEOREM ComiteTheorem == Spec => []ComiteSurScore
<1>1. IInv => ComiteSurScore  BY DEF IInv
<1>2. QED  BY <1>1, Inductif, PTL

(* An approval or a rejection is the last word.                            *)
THEOREM DecisionTheorem == Spec => []DecisionFinale
<1>1. IInv => DecisionFinale  BY DEF IInv
<1>2. QED  BY <1>1, Inductif, PTL

(* At most one financing, of the amount approved.                          *)
THEOREM FinancementTheorem == Spec => []FinancementConforme
<1>1. IInv => FinancementConforme  BY DEF IInv
<1>2. QED  BY <1>1, Inductif, PTL

(* The ceiling holds for a dossier that was never sent back.               *)
THEOREM PlafondTheorem == Spec => []MontantPlafonneSansRetour
<1>1. IInv => MontantPlafonneSansRetour  BY DEF IInv
<1>2. QED  BY <1>1, Inductif, PTL

(* No call takes a dossier from the agent in charge.                       *)
THEOREM AgentTheorem == Spec => AgentStable
<1>1. IInv /\ [Next]_vars => [agent # Personne => agent' = agent]_vars
  BY AgentStep DEF IInv
<1>2. QED  BY <1>1, Inductif, PTL DEF Spec, AgentStable

-----------------------------------------------------------------------------
(* What the worklists rest on.                                             *)

\* A dossier that has left the queue of submissions has an agent, who worked on it.
Partage ==
  /\ agent = Personne <=> statut \in {"BROUILLON", "SOUMIS"}
  /\ agent # Personne => ATraite(agent)

\* An approval, recorded or about to be, is of a positive amount.
MontantsApprouves ==
  /\ \A i \in DOMAIN decisions : decisions[i].decision = "APPROUVE" => decisions[i].montant > 0
  /\ \A r \in Appels : Statue(r) => requete[r].montant > 0

LInv == IInv /\ Partage /\ MontantsApprouves

(* A passage is added to the history, or nothing is.                       *)
LEMMA HistoriqueStep ==
  ASSUME TypeOK, [Next]_vars
  PROVE  historique' = historique \/ \E e : historique' = Append(historique, e)
BY DEF Next, Appel, UpdateOwned, SubmitOwned, Recevoir, Read, IsCommitteeReady, Abandon,
   Claim, Transition, SaveScore, Decide, CreateFromApplication, Passe, dossierVars, vars

(* Who has worked on the dossier stays among those who have.               *)
LEMMA ATraiteStep ==
  ASSUME TypeOK, [Next]_vars, NEW u, ATraite(u)
  PROVE  ATraite(u)'
<1>1. PICK i \in DOMAIN historique : historique[i].par = u  BY DEF ATraite
<1>2. CASE historique' = historique  BY <1>1, <1>2 DEF ATraite
<1>3. ASSUME NEW e, historique' = Append(historique, e)  PROVE ATraite(u)'
  <2>1. historique \in Seq(Passage)  BY DEF TypeOK
  <2>2. i \in DOMAIN historique' /\ historique'[i] = historique[i]  BY <1>3, <2>1
  <2>3. QED  BY <1>1, <2>2 DEF ATraite
<1>4. QED  BY <1>2, <1>3, HistoriqueStep

(* Every step keeps the dossier with the agent who took it.                *)
LEMMA PartageInv ==
  ASSUME IInv, Partage, DossierAssumption, [Next]_vars
  PROVE  Partage'
<1>0. TypeOK /\ Fondes  BY DEF IInv
<1>1. agent # Personne => agent' = agent /\ ATraite(agent)'
  BY <1>0, AgentStep, ATraiteStep DEF Partage
<1>2. ASSUME NEW r \in Appels, Claim(r)  PROVE Partage'
  <2>1. requete[r].user \in Agents /\ requete[r].user # Personne
    <3>1. requete[r] \in Demandes \cup {Aucune}  BY <1>0 DEF TypeOK
    <3>2. QED  BY <1>2, <3>1, DemandeForme DEF Claim, Ecrit, DossierAssumption
  <2>2. agent' = requete[r].user /\ statut \in Reclamables  BY <1>2 DEF Claim, ClaimWhere
  <2>3. CASE agent # Personne
    <3>1. statut' = statut  BY <1>2, <2>3 DEF Claim, Partage
    <3>2. QED  BY <1>1, <2>1, <2>2, <2>3, <3>1 DEF Partage
  <2>4. CASE agent = Personne
    <3>1. statut = "SOUMIS"  BY <2>2, <2>4 DEF Partage, Reclamables
    <3>2. Passe("SOUMIS", "EN_INSTRUCTION", requete[r].user)  BY <1>2, <3>1 DEF Claim
    <3>3. historique \in Seq(Passage)  BY <1>0 DEF TypeOK
    <3>4. ATraite(agent)'
      <4> DEFINE e == [ancien |-> "SOUMIS", nouveau |-> "EN_INSTRUCTION", par |-> requete[r].user]
      <4>1. historique' = Append(historique, e)  BY <3>2 DEF Passe
      <4>2. /\ Len(historique) + 1 \in DOMAIN historique'
            /\ historique'[Len(historique) + 1] = e
        BY <3>3, <4>1
      <4>3. historique'[Len(historique) + 1].par = agent'  BY <2>2, <4>2
      <4>4. QED  BY <4>2, <4>3 DEF ATraite
    <3>5. statut' = "EN_INSTRUCTION"  BY <3>2 DEF Passe
    <3>6. QED  BY <2>1, <2>2, <3>4, <3>5 DEF Partage
  <2>5. QED  BY <2>3, <2>4
<1>3. CASE agent' = agent
  <2>1. agent # Personne => statut' \notin {"BROUILLON", "SOUMIS"}
    <3>1. SUFFICES ASSUME agent # Personne  PROVE statut' \notin {"BROUILLON", "SOUMIS"}
      OBVIOUS
    <3>2. statut \notin {"BROUILLON", "SOUMIS"}  BY <3>1 DEF Partage
    <3>3. ASSUME NEW r \in Appels, Transition(r)  PROVE statut' \notin {"BROUILLON", "SOUMIS"}
      <4>1. requete[r] \in Demandes \cup {Aucune}  BY <1>0 DEF TypeOK
      <4>2. requete[r].cible \notin {"BROUILLON", "SOUMIS"}
        BY <3>3, <4>1, DemandeForme DEF Transition, Ecrit
      <4>3. QED  BY <3>3, <4>2 DEF Transition, Passe
    <3>4. ASSUME NEW r \in Appels, Decide(r)  PROVE statut' \notin {"BROUILLON", "SOUMIS"}
      BY <1>0, <3>4, DecideAppend DEF Decisions
    <3>5. ASSUME NEW r \in Appels, Claim(r)  PROVE statut' \notin {"BROUILLON", "SOUMIS"}
      BY <3>2, <3>5 DEF Claim, Passe
    <3>6. QED
      BY <3>2, <3>3, <3>4, <3>5 DEF Next, Appel, UpdateOwned, SubmitOwned, Recevoir, Read,
         IsCommitteeReady, Abandon, SaveScore, CreateFromApplication, dossierVars, vars
  <2>2. agent = Personne => statut' \in {"BROUILLON", "SOUMIS"}
    <3>1. SUFFICES ASSUME agent = Personne  PROVE statut' \in {"BROUILLON", "SOUMIS"}
      OBVIOUS
    <3>2. statut \in {"BROUILLON", "SOUMIS"}  BY <3>1 DEF Partage
    <3>3. ASSUME NEW r \in Appels, Transition(r)  PROVE FALSE
      <4>1. requete[r] \in Demandes \cup {Aucune}  BY <1>0 DEF TypeOK
      <4>2. agent = requete[r].user /\ requete[r].user \in Agents
        BY <3>3, <4>1, DemandeForme DEF Transition, Ecrit, TransitionWhere
      <4>3. QED  BY <3>1, <4>2 DEF DossierAssumption
    <3>4. ASSUME NEW r \in Appels, Decide(r)  PROVE FALSE
      BY <3>2, <3>4 DEF Decide, DecideWhere
    <3>5. ASSUME NEW r \in Appels, Claim(r)  PROVE FALSE
      <4>1. requete[r] \in Demandes \cup {Aucune}  BY <1>0 DEF TypeOK
      <4>2. agent' \in Agents  BY <3>5, <4>1, DemandeForme DEF Claim, Ecrit
      <4>3. QED  BY <1>3, <3>1, <4>2 DEF DossierAssumption
    <3>6. QED
      BY <3>2, <3>3, <3>4, <3>5 DEF Next, Appel, UpdateOwned, SubmitOwned, Passe, Recevoir, Read,
         IsCommitteeReady, Abandon, SaveScore, CreateFromApplication, dossierVars, vars
  <2>3. QED  BY <1>1, <1>3, <2>1, <2>2 DEF Partage
<1>4. (\E r \in Appels : Claim(r)) \/ agent' = agent
  BY DEF Next, Appel, UpdateOwned, SubmitOwned, Recevoir, Read, IsCommitteeReady, Abandon,
     Transition, SaveScore, Decide, CreateFromApplication, dossierVars, vars
<1>5. QED  BY <1>2, <1>3, <1>4

(* Every step keeps the amounts approved positive: validateCommitteeDecision. *)
LEMMA MontantsApprouvesInv ==
  ASSUME IInv, MontantsApprouves, DossierAssumption, [Next]_vars
  PROVE  MontantsApprouves'
<1>0. TypeOK  BY DEF IInv
<1>1. ASSUME NEW i \in DOMAIN decisions', decisions'[i].decision = "APPROUVE"
      PROVE  decisions'[i].montant > 0
  <2>1. CASE decisions' = decisions  BY <1>1, <2>1 DEF MontantsApprouves
  <2>2. ASSUME NEW r \in Appels, Decide(r)  PROVE decisions'[i].montant > 0
    <3>1. CASE i \in DOMAIN decisions
      BY <1>0, <1>1, <2>2, <3>1, DecideAppend DEF MontantsApprouves
    <3>2. CASE i = Len(decisions) + 1
      <4>1. requete[r].decision = "APPROUVE" /\ decisions'[i].montant = requete[r].montant
        BY <1>0, <1>1, <2>2, <3>2, DecideAppend
      <4>2. Statue(r)  BY <2>2, <4>1 DEF Decide, Ecrit, Statue
      <4>3. QED  BY <4>1, <4>2 DEF MontantsApprouves
    <3>3. QED  BY <1>0, <1>1, <2>2, <3>1, <3>2, DecideAppend
  <2>3. QED  BY <1>0, <2>1, <2>2, DecisionStep
<1>2. ASSUME NEW s \in Appels, Statue(s)'  PROVE requete'[s].montant > 0
  <2>1. CASE UNCHANGED <<pc[s], requete[s], lu[s]>>
    BY <1>2, <2>1 DEF MontantsApprouves, Statue
  <2>2. CASE pc'[s] \in {"idle", "read"}  BY <1>2, <2>2 DEF Statue
  <2>3. CASE Read(s)
    <3>1. requete' = requete /\ Admise(requete[s])  BY <2>3 DEF Read
    <3>2. QED  BY <1>2, <3>1 DEF Admise, ValidateCommitteeDecision, Statue
  <2>4. CASE IsCommitteeReady(s)
    <3>1. requete[s].op = "review" /\ requete' = requete  BY <1>0, <2>4 DEF IsCommitteeReady, TypeOK
    <3>2. QED  BY <1>2, <3>1 DEF Statue
  <2>5. QED  BY <1>0, <2>1, <2>2, <2>3, <2>4, Autres
<1>3. QED  BY <1>1, <1>2 DEF MontantsApprouves

(* The strengthened invariant holds in every reachable state.              *)
THEOREM Repartition == Spec => []LInv
<1>1. Init => LInv
  <2>1. Init => Partage /\ MontantsApprouves
    BY DEF Init, ParcoursInit, Partage, MontantsApprouves, Statue
  <2>2. QED  BY <2>1, InitIInv, DossierAssumption DEF LInv
<1>2. LInv /\ [Next]_vars => LInv'
  BY NextIInv, PartageInv, MontantsApprouvesInv, DossierAssumption DEF LInv
<1>3. QED  BY <1>1, <1>2, PTL DEF Spec

-----------------------------------------------------------------------------
(* The implementation of Parcours.                                         *)

\* A call that is about to write a score is the one of the agent in charge.
Notant(r)     == pc[r] = "write" /\ requete[r].op = "calculate"
NotesFondees  == \A r \in Appels : Notant(r) => agent = requete[r].user

(* Every step keeps the scores in the hands of the agent in charge.        *)
LEMMA NotesFondeesInv ==
  ASSUME IInv, NotesFondees, DossierAssumption, [Next]_vars
  PROVE  NotesFondees'
<1>0. TypeOK  BY DEF IInv
<1>1. SUFFICES ASSUME NEW s \in Appels, Notant(s)'  PROVE agent' = requete'[s].user
  BY DEF NotesFondees
<1>2. agent # Personne => agent' = agent  BY <1>0, AgentStep
<1>3. CASE UNCHANGED <<pc[s], requete[s], lu[s]>>
  <2>1. Notant(s) /\ agent = requete[s].user  BY <1>1, <1>3 DEF NotesFondees, Notant
  <2>2. requete[s] \in Demandes \cup {Aucune}  BY <1>0 DEF TypeOK
  <2>3. requete[s].user \in Agents  BY <2>1, <2>2, DemandeForme DEF Notant
  <2>4. QED  BY <1>2, <1>3, <2>1, <2>3 DEF DossierAssumption
<1>4. CASE pc'[s] \in {"idle", "read"}  BY <1>1, <1>4 DEF Notant
<1>5. CASE Read(s)
  <2>1. Admise(requete[s]) /\ UNCHANGED <<requete, agent>>  BY <1>5 DEF Read, dossierVars
  <2>2. QED  BY <1>1, <2>1 DEF Admise, Notant
<1>6. CASE IsCommitteeReady(s)
  <2>1. requete[s].op = "review" /\ requete' = requete  BY <1>0, <1>6 DEF IsCommitteeReady, TypeOK
  <2>2. QED  BY <1>1, <2>1 DEF Notant
<1>7. QED  BY <1>0, <1>3, <1>4, <1>5, <1>6, Autres

PInv == LInv /\ NotesFondees

(* One staff call, whatever came between its reads and its statement, is   *)
(* one operation of Parcours, or none.                                     *)
LEMMA AppelParcours ==
  ASSUME PInv, DossierAssumption, NEW r \in Appels, Appel(r)
  PROVE  [ParcoursNext]_dossierVars
<1>0. /\ TypeOK /\ Fondes /\ ComiteSurScore /\ Partage /\ MontantsApprouves
      /\ FinancementConforme /\ NotesFondees
  BY DEF PInv, LInv, IInv
<1>1. requete[r] \in Demandes \cup {Aucune}  BY <1>0 DEF TypeOK
<1>2. CASE Recevoir(r) \/ Read(r) \/ IsCommitteeReady(r) \/ Abandon(r)
  BY <1>2 DEF Recevoir, Read, IsCommitteeReady, Abandon
<1>3. CASE Claim(r)
  <2>1. requete[r].user \in Agents  BY <1>1, <1>3, DemandeForme DEF Claim, Ecrit
  <2>2. PrendreEnCharge(requete[r].user)  BY <1>3 DEF Claim, ClaimWhere, PrendreEnCharge
  <2>3. QED  BY <2>1, <2>2 DEF ParcoursNext
<1>4. CASE Transition(r)
  <2>1. /\ requete[r].user \in Agents
        /\ requete[r].cible \in {"EN_INSTRUCTION", "COMPLEMENT_REQUIS", "PRET_COMITE"}
    BY <1>1, <1>4, DemandeForme DEF Transition, Ecrit
  <2>2. /\ agent = requete[r].user /\ statut = lu[r].statut
        /\ Passe(statut, requete[r].cible, requete[r].user)
        /\ UNCHANGED <<agent, montant, score, decisions, financements>>
    BY <1>4 DEF Transition, TransitionWhere
  <2>3. Revoit(r) /\ pc[r] = "write"  BY <1>4 DEF Transition, Ecrit, Revoit
  <2>4. <<statut, requete[r].cible>> \in Revue
        /\ (requete[r].cible = "PRET_COMITE" => score # Absent)
    BY <1>0, <2>2, <2>3 DEF Fondes, Fonde
  <2>5. Instruire(requete[r].user, requete[r].cible)  BY <2>2, <2>4 DEF Instruire
  <2>6. QED  BY <2>1, <2>5 DEF ParcoursNext
<1>5. CASE SaveScore(r)
  <2>1. requete[r].user \in Agents /\ requete[r].note \in Notes
    BY <1>1, <1>5, DemandeForme DEF SaveScore, Ecrit
  <2>2. agent = requete[r].user  BY <1>0, <1>5 DEF NotesFondees, Notant, SaveScore, Ecrit
  <2>3. statut \notin {"BROUILLON", "SOUMIS"}
    BY <1>0, <2>1, <2>2 DEF Partage, DossierAssumption
  <2>4. Noter(requete[r].user, requete[r].note)  BY <1>5, <2>2, <2>3 DEF SaveScore, Noter
  <2>5. QED  BY <2>1, <2>4 DEF ParcoursNext
<1>6. CASE Decide(r)
  <2>1. requete[r].decision \in Decisions /\ requete[r].montant \in Montants \cup {0}
    BY <1>1, <1>6, DemandeForme DEF Decide, Ecrit
  <2>2. statut = "PRET_COMITE" /\ score # Absent
    BY <1>0, <1>6 DEF Decide, DecideWhere, ComiteSurScore
  <2>3. requete[r].decision = "APPROUVE" => Statue(r)  BY <1>6 DEF Decide, Ecrit, Statue
  <2>4. requete[r].decision = "APPROUVE" =>
          requete[r].montant > 0 /\ (SansRetour => requete[r].montant =< montant)
    BY <1>0, <2>3 DEF MontantsApprouves, Fondes, Fonde
  <2>5. Decider(requete[r].decision, requete[r].montant)
    BY <1>6, <2>2, <2>4 DEF Decide, Decider
  <2>6. QED  BY <2>1, <2>5 DEF ParcoursNext
<1>7. CASE CreateFromApplication(r)
  <2>1. Finance(r)  BY <1>7 DEF CreateFromApplication, Ecrit, Finance
  <2>2. statut = "APPROUVE" /\ lu[r].montant = Derniere.montant
    BY <1>0, <2>1 DEF Fondes, Fonde
  <2>3. financements = <<>> /\ financements' = Append(<<>>, lu[r].montant)
    BY <1>7 DEF CreateFromApplication, UqFinancement
  <2>4. financements' = <<Derniere.montant>>  BY <2>2, <2>3
  <2>5. Financer  BY <1>7, <2>2, <2>3, <2>4 DEF CreateFromApplication, Financer
  <2>6. QED  BY <2>5 DEF ParcoursNext
<1>8. QED  BY <1>2, <1>3, <1>4, <1>5, <1>6, <1>7 DEF Appel

(* The concurrent calls implement the life of an application: each has the *)
(* effect of one operation its actor was entitled to at that moment, judged *)
(* on the rows as they are then, or no effect.                             *)
THEOREM ParcoursTheorem == Spec => ParcoursSpec
<1>1. Init => ParcoursInit /\ NotesFondees
  BY DEF Init, NotesFondees, Notant
<1>2. LInv /\ NotesFondees /\ [Next]_vars => NotesFondees'
  BY NotesFondeesInv, DossierAssumption DEF LInv
<1>3. LInv /\ NotesFondees /\ [Next]_vars => [ParcoursNext]_dossierVars
  <2>1. SUFFICES ASSUME LInv, NotesFondees, [Next]_vars  PROVE [ParcoursNext]_dossierVars
    OBVIOUS
  <2>2. CASE UpdateOwned
    <3>1. Modifier  BY <2>2 DEF UpdateOwned, Modifier
    <3>2. QED  BY <3>1 DEF ParcoursNext
  <2>3. CASE SubmitOwned
    <3>1. Soumettre  BY <2>3 DEF SubmitOwned, Soumettre
    <3>2. QED  BY <3>1 DEF ParcoursNext
  <2>4. ASSUME NEW r \in Appels, Appel(r)  PROVE [ParcoursNext]_dossierVars
    BY <2>1, <2>4, AppelParcours, DossierAssumption DEF PInv
  <2>5. CASE UNCHANGED vars  BY <2>5 DEF vars, dossierVars
  <2>6. QED  BY <2>1, <2>2, <2>3, <2>4, <2>5 DEF Next
<1>4. QED  BY <1>1, <1>2, <1>3, Repartition, PTL DEF Spec, ParcoursSpec

-----------------------------------------------------------------------------
(* What everyone is shown.                                                 *)

(* A dossier that was submitted has a last passage, to its status.         *)
LEMMA DernierPassage ==
  ASSUME IInv, statut # "BROUILLON"
  PROVE  \E i \in DOMAIN historique : historique[i].nouveau = statut
<1>1. historique # <<>> /\ statut = historique[Len(historique)].nouveau
  BY DEF IInv, HistoriqueFidele
<1>2. historique \in Seq(Passage)  BY DEF IInv, TypeOK
<1>3. Len(historique) \in DOMAIN historique  BY <1>1, <1>2
<1>4. QED  BY <1>1, <1>3

(* A draft has no history: no passage leads back to BROUILLON.             *)
LEMMA BrouillonVierge ==
  ASSUME IInv
  PROVE  statut = "BROUILLON" <=> historique = <<>>
<1>1. historique = <<>> => statut = "BROUILLON"  BY DEF IInv, HistoriqueFidele
<1>2. ASSUME historique # <<>>  PROVE statut # "BROUILLON"
  <2>1. historique \in Seq(Passage)  BY DEF IInv, TypeOK
  <2>2. Len(historique) \in DOMAIN historique  BY <1>2, <2>1
  <2>3. <<historique[Len(historique)].ancien, historique[Len(historique)].nouveau>> \in Permis
    BY <2>2 DEF IInv, HistoriqueFidele
  <2>4. statut = historique[Len(historique)].nouveau
    BY <1>2 DEF IInv, HistoriqueFidele
  <2>5. QED  BY <2>3, <2>4 DEF Permis, Revue, Decisions
<1>3. QED  BY <1>1, <1>2

(* The last decision is the status of a dossier that is decided.           *)
LEMMA DecideeOuNon ==
  ASSUME IInv
  PROVE  /\ DecisionCourante = "APPROUVE" <=> statut = "APPROUVE"
         /\ DecisionCourante = "REJETE" <=> statut = "REJETE"
         /\ decisions # <<>> => Len(decisions) \in DOMAIN decisions
<1>0. DecisionFinale /\ decisions \in Seq(Decision)  BY DEF IInv, TypeOK
<1>1. decisions # <<>> => Len(decisions) \in DOMAIN decisions  BY <1>0
<1>2. ASSUME decisions # <<>>, Derniere.decision \in {"APPROUVE", "REJETE"}
      PROVE  statut = Derniere.decision
  BY <1>0, <1>1, <1>2 DEF DecisionFinale, Derniere
<1>3. ASSUME statut \in {"APPROUVE", "REJETE"}
      PROVE  decisions # <<>> /\ Derniere.decision = statut
  BY <1>0, <1>3 DEF DecisionFinale
<1>4. QED  BY <1>1, <1>2, <1>3 DEF DecisionCourante

(* An approved dossier has a last decision of a positive amount.           *)
LEMMA ApprouveMontant ==
  ASSUME LInv, statut = "APPROUVE"
  PROVE  decisions # <<>> /\ Derniere.decision = "APPROUVE" /\ Derniere.montant > 0
<1>1. IInv  BY DEF LInv
<1>2. decisions # <<>> /\ Derniere.decision = "APPROUVE"  BY <1>1 DEF IInv, DecisionFinale
<1>3. Len(decisions) \in DOMAIN decisions  BY <1>1, <1>2, DecideeOuNon
<1>4. Derniere.montant > 0  BY <1>2, <1>3 DEF LInv, MontantsApprouves, Derniere
<1>5. QED  BY <1>2, <1>4

(* Whoever it waits for was told of the status.                            *)
LEMMA Prevenu ==
  ASSUME IInv, statut # "BROUILLON", NEW role \in Attendus
  PROVE  statut \in NotificationsDe(role)
<1>1. PICK i \in DOMAIN historique : historique[i].nouveau = statut  BY DernierPassage
<1>2. role \in Destinataires(statut)  BY DEF Attendus, Destinataires, Decisions
<1>3. QED  BY <1>1, <1>2 DEF NotificationsDe

(* The dossier is in exactly one of the open worklists.                    *)
LEMMA UnSeulEndroit ==
  ASSUME LInv, DossierAssumption, statut # "BROUILLON"
  PROVE  LET offert  == \A u \in Agents : ListeAgent("A_PRENDRE", u)
             enMains == {u \in Agents : ListeAgent("MES_DOSSIERS", u)}
             remis   == {u \in Agents : ListeAgent("PRET_COMITE", u)}
             inscrit == ListeComite("ORDRE_DU_JOUR")
             clos    == statut \in {"APPROUVE", "REJETE"}
         IN  /\ (IF offert THEN 1 ELSE 0) + Cardinality(enMains) + (IF inscrit THEN 1 ELSE 0)
                  = (IF clos THEN 0 ELSE 1)
             /\ inscrit => Cardinality(remis) = 1
<1> DEFINE offert  == \A u \in Agents : ListeAgent("A_PRENDRE", u)
           enMains == {u \in Agents : ListeAgent("MES_DOSSIERS", u)}
           remis   == {u \in Agents : ListeAgent("PRET_COMITE", u)}
           inscrit == ListeComite("ORDRE_DU_JOUR")
           clos    == statut \in {"APPROUVE", "REJETE"}
<1>0. /\ agent \in Agents \cup {Personne} /\ statut \in Statuts
      /\ agent = Personne <=> statut = "SOUMIS"
  BY DEF LInv, IInv, TypeOK, Partage
<1>1. offert <=> statut = "SOUMIS"
  <2>1. statut = "SOUMIS" => offert  BY <1>0 DEF ListeAgent
  <2>2. ASSUME statut # "SOUMIS", offert  PROVE FALSE
    <3>1. agent \in Agents  BY <1>0, <2>2
    <3>2. ListeAgent("A_PRENDRE", agent)  BY <2>2, <3>1
    <3>3. QED  BY <2>2, <3>2 DEF ListeAgent
  <2>3. QED  BY <2>1, <2>2
<1>2. enMains = IF statut \in EnMain THEN {agent} ELSE {}
  <2>1. \A u : ListeAgent("MES_DOSSIERS", u) <=> agent = u /\ statut \in EnMain
    BY DEF ListeAgent
  <2>2. statut \in EnMain => agent \in Agents  BY <1>0 DEF EnMain
  <2>3. QED  BY <2>1, <2>2
<1>3. inscrit <=> statut = "PRET_COMITE"  BY DEF ListeComite
<1>4. inscrit => remis = {agent}
  <2>1. \A u : ListeAgent("PRET_COMITE", u) <=> agent = u /\ statut = "PRET_COMITE"
    BY DEF ListeAgent
  <2>2. QED  BY <1>0, <1>3, <2>1
<1>5. Cardinality({agent}) = 1 /\ Cardinality({}) = 0  BY FS_Singleton, FS_EmptySet
<1>6. statut \in {"SOUMIS", "PRET_COMITE", "APPROUVE", "REJETE"} \cup EnMain
  BY <1>0 DEF Statuts, Reclamables, Decisions, EnMain
<1>7. inscrit => Cardinality(remis) = 1  BY <1>4, <1>5
<1>8. Cardinality(enMains) = IF statut \in EnMain THEN 1 ELSE 0  BY <1>2, <1>5
<1> HIDE DEF offert, enMains, remis, inscrit, clos
<1>9. (IF offert THEN 1 ELSE 0) + Cardinality(enMains) + (IF inscrit THEN 1 ELSE 0)
        = (IF clos THEN 0 ELSE 1)
  BY <1>1, <1>3, <1>6, <1>8 DEF EnMain, clos
<1>10. QED  BY <1>7, <1>9 DEF offert, enMains, remis, inscrit, clos

(* No submitted dossier is lost: the invariant implies JamaisPerdu.        *)
LEMMA JamaisPerduLemme ==
  ASSUME LInv, DossierAssumption
  PROVE  JamaisPerdu
<1>1. SUFFICES ASSUME statut # "BROUILLON"  PROVE JamaisPerdu  BY DEF JamaisPerdu
<1>2. IInv /\ Partage  BY DEF LInv
<1>3. ListeComite("ORDRE_DU_JOUR") => FicheComite.score # Absent
  BY <1>2 DEF ListeComite, FicheComite, IInv, ComiteSurScore
<1>4. statut = "APPROUVE" => (ListEligibleApplications <=> financements = <<>>)
  BY ApprouveMontant DEF ListEligibleApplications, DecisionCourante
<1>5. ASSUME statut \in {"APPROUVE", "REJETE"}
      PROVE  /\ ListeComite("HISTORIQUE")
             /\ \E u \in Agents : agent = u /\ ListeAgent("HISTORIQUE", u)
  <2>1. decisions # <<>>  BY <1>2, <1>5 DEF IInv, DecisionFinale
  <2>2. agent # Personne /\ agent \in Agents /\ ATraite(agent)
    BY <1>2, <1>5 DEF Partage, IInv, TypeOK
  <2>3. statut \notin EnMain  BY <1>5 DEF EnMain
  <2>4. QED  BY <2>1, <2>2, <2>3 DEF ListeComite, ListeAgent
<1>6. \A role \in Attendus : statut \in NotificationsDe(role)  BY <1>1, <1>2, Prevenu
<1>7. QED  BY <1>1, <1>3, <1>4, <1>5, <1>6, UnSeulEndroit DEF JamaisPerdu

-----------------------------------------------------------------------------
(* The screens.                                                            *)

(* What an agent may ask, as a value of Demandes.                          *)
LEMMA DemandesAgent ==
  ASSUME NEW u \in Agents
  PROVE  /\ [op |-> "claim", user |-> u] \in Demandes
         /\ \A c \in {"EN_INSTRUCTION", "COMPLEMENT_REQUIS", "PRET_COMITE"} :
              [op |-> "review", user |-> u, cible |-> c] \in Demandes
BY DEF Demandes

(* Every line of a worklist opens, and the counters count what is listed.  *)
LEMMA LignesOuvrables ==
  ASSUME NEW u \in Agents, NEW vue \in Vues
  PROVE  /\ ListeAgent(vue, u) => FicheAgent(u) # {}
         /\ vue \in SommaireAgent(u) <=> ListeAgent(vue, u)
<1>1. ListeAgent(vue, u) => CanRead(u)
  BY DEF ListeAgent, CanRead, ATraite, Reclamables
<1>2. CanRead(u) => FicheAgent(u) # {}  BY DEF FicheAgent
<1>3. vue \in SommaireAgent(u) <=> ListeAgent(vue, u)
  <2>1. vue \in {"A_PRENDRE", "MES_DOSSIERS", "COMPLEMENTS", "PRET_COMITE", "HISTORIQUE"}
    BY DEF Vues
  <2>2. CASE vue = "A_PRENDRE"  BY <2>2 DEF SommaireAgent, ListeAgent, Vues
  <2>3. CASE vue = "MES_DOSSIERS"  BY <2>3 DEF SommaireAgent, ListeAgent, Vues
  <2>4. CASE vue = "COMPLEMENTS"  BY <2>4 DEF SommaireAgent, ListeAgent, Vues
  <2>5. CASE vue = "PRET_COMITE"  BY <2>5 DEF SommaireAgent, ListeAgent, Vues
  <2>6. CASE vue = "HISTORIQUE"  BY <2>6 DEF SommaireAgent, ListeAgent, Vues
  <2>7. QED  BY <2>1, <2>2, <2>3, <2>4, <2>5, <2>6
<1>4. QED  BY <1>1, <1>2, <1>3

(* The agents' screens offer calls the API admits.                         *)
LEMMA EcranAgentSert ==
  ASSUME LInv, DossierAssumption, NEW u \in Agents
  PROVE  /\ ListeAgent("A_PRENDRE", u) => OpenDossier(u) \cap BoutonClaim(u) # {}
         /\ \A d \in EcranAgent(u) : d.op = "claim" /\ statut # "BROUILLON" => Admise(d) /\ ClaimWhere(u)
         /\ ListeAgent("MES_DOSSIERS", u) =>
              \E d \in EcranAgent(u) : Admise(d) /\ TransitionWhere(u, statut)
         /\ statut = "EN_INSTRUCTION" /\ agent = u =>
              \A d \in EcranAgent(u) : d.op = "calculate" => Admise(d)
<1>0. /\ u # Personne
      /\ agent = Personne <=> statut \in {"BROUILLON", "SOUMIS"}
  BY DEF DossierAssumption, LInv, Partage
<1>1. ListeAgent("A_PRENDRE", u) => OpenDossier(u) \cap BoutonClaim(u) # {}
  <2>1. SUFFICES ASSUME ListeAgent("A_PRENDRE", u)
                 PROVE  [op |-> "claim", user |-> u] \in OpenDossier(u) \cap BoutonClaim(u)
    OBVIOUS
  <2>2. statut = "SOUMIS" /\ agent = Personne  BY <2>1 DEF ListeAgent
  <2>3. QED  BY <2>2, DemandesAgent DEF OpenDossier, BoutonClaim
<1>2. ASSUME NEW d \in EcranAgent(u), d.op = "claim", statut # "BROUILLON"
      PROVE  Admise(d) /\ ClaimWhere(u)
  <2>1. CanRead(u)  BY <1>2 DEF EcranAgent, FicheAgent
  <2>2. d \in BoutonClaim(u)
    BY <1>2 DEF EcranAgent, FormulaireReview, FormulaireScore
  <2>3. d.user = u /\ agent = Personne  BY <2>2 DEF BoutonClaim
  <2>4. statut \in Reclamables  BY <1>0, <1>2, <2>3 DEF Reclamables
  <2>5. QED  BY <1>2, <2>1, <2>3, <2>4 DEF Admise, ClaimWhere
<1>3. ASSUME ListeAgent("MES_DOSSIERS", u)
      PROVE  \E d \in EcranAgent(u) : Admise(d) /\ TransitionWhere(u, statut)
  <2>1. agent = u /\ statut \in EnMain  BY <1>3 DEF ListeAgent
  <2>2. FicheAgent(u) # {}  BY <2>1 DEF FicheAgent, CanRead
  <2>3. PICK c \in {"EN_INSTRUCTION", "COMPLEMENT_REQUIS", "PRET_COMITE"} : <<statut, c>> \in Revue
    <3>1. CASE statut = "EN_INSTRUCTION"
      <4>1. <<statut, "COMPLEMENT_REQUIS">> \in Revue  BY <3>1 DEF Revue
      <4>2. QED  BY <4>1
    <3>2. CASE statut = "COMPLEMENT_REQUIS"
      <4>1. <<statut, "EN_INSTRUCTION">> \in Revue  BY <3>2 DEF Revue
      <4>2. QED  BY <4>1
    <3>3. QED  BY <2>1, <3>1, <3>2 DEF EnMain
  <2> DEFINE d == [op |-> "review", user |-> u, cible |-> c]
  <2>4. d \in Demandes /\ d.op = "review" /\ d.user = u /\ d.cible = c  BY DemandesAgent
  <2>5. CanInstruct  BY <1>0, <2>1 DEF CanInstruct
  <2>6. d \in EcranAgent(u)  BY <2>2, <2>4, <2>5 DEF EcranAgent, FormulaireReview
  <2>7. Admise(d)  BY <2>1, <2>3, <2>4 DEF Admise
  <2>8. QED  BY <2>1, <2>6, <2>7 DEF TransitionWhere
<1>4. ASSUME statut = "EN_INSTRUCTION", agent = u, NEW d \in EcranAgent(u), d.op = "calculate"
      PROVE  Admise(d)
  <2>1. d \in FormulaireScore(u)
    BY <1>4 DEF EcranAgent, FormulaireReview, BoutonClaim
  <2>2. QED  BY <1>4, <2>1 DEF FormulaireScore, Admise
<1>5. QED  BY <1>1, <1>2, <1>3, <1>4

(* A call of the committee's form carries one of the opinions considered.  *)
LEMMA AvisDe ==
  ASSUME DossierAssumption, NEW d \in EcranComite
  PROVE  /\ d.op = "decide" /\ statut = "PRET_COMITE" /\ ChampsRemplis(d.decision, d.avis)
         /\ d.decision = "APPROUVE" => d.montant \in 1 .. montant
         /\ d.avis.longueur \in Nat /\ d.avis.utile \in Nat
         /\ d.avis.duree \in Int /\ d.avis.differe \in Int
<1>1. d \in Demandes /\ d.op = "decide"  BY DEF EcranComite
<1>2. d.avis \in Avis
  <2>1. d \in [op: {"decide"}, decision: Decisions, montant: Montants \cup {0}, avis: Avis]
    BY <1>1 DEF Demandes
  <2>2. QED  BY <2>1
<1>3. /\ d.avis \in [longueur: Nat, utile: Nat,
                     duree: {0} \cup DureesAcceptees, taux: TauxAcceptes, differe: 0 .. 120]
  BY <1>2 DEF DossierAssumption
<1>4. \A x \in DureesAcceptees : x \in Int  BY DEF DureesAcceptees
<1>5. QED  BY <1>1, <1>3, <1>4 DEF EcranComite

(* The committee's form sends every decision, and of what it sends exactly *)
(* the comments too long or made of spaces are refused.                    *)
LEMMA EcranComiteSert ==
  ASSUME IInv, DossierAssumption
  PROVE  /\ \A d \in EcranComite : Admise(d) <=> ~CommentaireRefuse(d)
         /\ ListeComite("ORDRE_DU_JOUR") =>
              \A choix \in Decisions, a \in Avis : ChampsRemplis(choix, a) =>
                \E d \in EcranComite : d.decision = choix /\ d.avis = a
<1>0. ComiteSurScore /\ montant \in Montants /\ Montants \subseteq Nat \ {0}
  BY DEF IInv, TypeOK, DossierAssumption
<1>1. ASSUME NEW d \in EcranComite  PROVE Admise(d) <=> ~CommentaireRefuse(d)
  <2>1. /\ d.op = "decide" /\ statut = "PRET_COMITE" /\ ChampsRemplis(d.decision, d.avis)
        /\ d.decision = "APPROUVE" => d.montant \in 1 .. montant
        /\ d.avis.longueur \in Nat /\ d.avis.utile \in Nat
        /\ d.avis.duree \in Int /\ d.avis.differe \in Int
    BY AvisDe
  <2>2. score # Absent  BY <1>0, <2>1 DEF ComiteSurScore
  <2>3. Admise(d) <=> ValidateCommitteeDecision(d)  BY <2>1, <2>2 DEF Admise
  <2>4. d.avis.longueur =< TexteMax <=> ~(d.avis.longueur > TexteMax)
    BY <2>1, SMT DEF TexteMax
  <2>5. CASE d.decision = "APPROUVE"
    <3>1. d.montant > 0 /\ d.montant =< montant  BY <1>0, <2>1, <2>5
    <3>2. /\ d.avis.duree \in DureesAcceptees /\ d.avis.taux \in TauxAcceptes
          /\ d.avis.differe =< d.avis.duree
      BY <2>1, <2>5 DEF ChampsRemplis
    <3>3. QED
      BY <2>3, <2>4, <2>5, <3>1, <3>2 DEF ValidateCommitteeDecision, CommentaireRefuse
  <2>6. CASE d.decision # "APPROUVE"
    <3>1. d.avis.utile >= 3 <=> ~(d.avis.utile < 3)  BY <2>1
    <3>2. QED
      BY <2>3, <2>4, <2>6, <3>1 DEF ValidateCommitteeDecision, CommentaireRefuse
  <2>7. QED  BY <2>5, <2>6
<1>2. ASSUME ListeComite("ORDRE_DU_JOUR"), NEW choix \in Decisions, NEW a \in Avis,
             ChampsRemplis(choix, a)
      PROVE  \E d \in EcranComite : d.decision = choix /\ d.avis = a
  <2>1. statut = "PRET_COMITE"  BY <1>2 DEF ListeComite
  <2> DEFINE d == [op |-> "decide", decision |-> choix,
                   montant |-> IF choix = "APPROUVE" THEN montant ELSE 0, avis |-> a]
  <2>2. d \in Demandes  BY <1>0 DEF Demandes
  <2>3. choix = "APPROUVE" => d.montant \in 1 .. montant  BY <1>0
  <2>4. d \in EcranComite  BY <1>2, <2>1, <2>2, <2>3 DEF EcranComite
  <2>5. QED  BY <2>4
<1>3. QED  BY <1>1, <1>2

(* Every list opens, every button works.                                   *)
LEMMA ListeOuvrableLemme ==
  ASSUME LInv, DossierAssumption
  PROVE  ListeOuvrable
<1>1. IInv  BY DEF LInv
<1>2. BoutonSoumettre <=> historique = <<>>  BY <1>1, BrouillonVierge DEF BoutonSoumettre
<1>3. QED
  BY <1>1, <1>2, LignesOuvrables, EcranAgentSert, EcranComiteSert DEF ListeOuvrable

-----------------------------------------------------------------------------
(* The figures.                                                            *)

(* The positions of a sequence that are of one of three kinds are counted  *)
(* once each.                                                              *)
LEMMA TroisComptes ==
  ASSUME NEW n \in Nat, NEW A, NEW B, NEW C, A \cup B \cup C = 1 .. n,
         A \cap B = {}, (A \cup B) \cap C = {}
  PROVE  n = Cardinality(A) + Cardinality(B) + Cardinality(C)
<1>1. IsFiniteSet(1 .. n) /\ Cardinality(1 .. n) = n
  <2>1. 1 \in Int /\ n \in Int  OBVIOUS
  <2>2. Cardinality(1 .. n) = (IF 1 > n THEN 0 ELSE n - 1 + 1) /\ IsFiniteSet(1 .. n)
    BY <2>1, FS_Interval, Zenon
  <2>3. QED  BY <2>2
<1>2. A \in SUBSET (1 .. n) /\ B \in SUBSET (1 .. n) /\ C \in SUBSET (1 .. n)  OBVIOUS
<1>3. IsFiniteSet(A) /\ IsFiniteSet(B) /\ IsFiniteSet(C)  BY <1>1, <1>2, FS_Subset
<1>4. IsFiniteSet(A \cup B) /\
      Cardinality(A \cup B) = Cardinality(A) + Cardinality(B) - Cardinality(A \cap B)
  BY <1>3, FS_Union
<1>5. Cardinality(A \cup B \cup C) = Cardinality(A \cup B) + Cardinality(C)
                                     - Cardinality((A \cup B) \cap C)
  BY <1>3, <1>4, FS_Union
<1>6. Cardinality({}) = 0  BY FS_EmptySet
<1>7. Cardinality(A) \in Nat /\ Cardinality(B) \in Nat /\ Cardinality(C) \in Nat
  BY <1>3, FS_CardinalityType
<1>8. /\ Cardinality(A \cup B \cup C) = n
      /\ Cardinality(A \cap B) = 0
      /\ Cardinality((A \cup B) \cap C) = 0
  BY <1>1, <1>6, Zenon
<1>9. QED  BY <1>4, <1>5, <1>7, <1>8

(* The committee's counts follow the status.                               *)
LEMMA ComptesComite ==
  ASSUME IInv
  PROVE  /\ Rendues("APPROUVE") = IF statut = "APPROUVE" THEN 1 ELSE 0
         /\ Rendues("REJETE") = IF statut = "REJETE" THEN 1 ELSE 0
         /\ Len(decisions) = Rendues("APPROUVE") + Rendues("REJETE") + Rendues("COMPLEMENT_REQUIS")
<1> DEFINE I(x) == {i \in DOMAIN decisions : decisions[i].decision = x}
<1>0. /\ DecisionFinale /\ decisions \in Seq(Decision)
      /\ DOMAIN decisions = 1 .. Len(decisions) /\ Len(decisions) \in Nat
  BY DEF IInv, TypeOK
<1>1. Cardinality({}) = 0 /\ \A i : Cardinality({i}) = 1  BY FS_EmptySet, FS_Singleton
<1>2. ASSUME NEW x \in {"APPROUVE", "REJETE"}
      PROVE  I(x) = IF statut = x THEN {Len(decisions)} ELSE {}
  <2>1. \A i \in DOMAIN decisions : decisions[i].decision = x => i = Len(decisions) /\ statut = x
    BY <1>0 DEF DecisionFinale
  <2>2. statut = x => Len(decisions) \in DOMAIN decisions /\ decisions[Len(decisions)].decision = x
    BY <1>0, DecideeOuNon DEF DecisionFinale, Derniere
  <2>3. QED  BY <2>1, <2>2
<1>3. \A i \in DOMAIN decisions : decisions[i].decision \in Decisions
  BY DecisionType DEF IInv
<1>4. /\ I("APPROUVE") \cup I("REJETE") \cup I("COMPLEMENT_REQUIS") = 1 .. Len(decisions)
      /\ I("APPROUVE") \cap I("REJETE") = {}
      /\ (I("APPROUVE") \cup I("REJETE")) \cap I("COMPLEMENT_REQUIS") = {}
  BY <1>0, <1>3 DEF Decisions
<1>5. \A x : Rendues(x) = Cardinality(I(x))  BY DEF Rendues
<1> HIDE DEF I
<1>6. Len(decisions) = Cardinality(I("APPROUVE")) + Cardinality(I("REJETE"))
                       + Cardinality(I("COMPLEMENT_REQUIS"))
  BY <1>0, <1>4, TroisComptes
<1>7. QED  BY <1>1, <1>2, <1>5, <1>6

(* The invariant implies that the figures agree.                           *)
LEMMA TableauAccordeLemme ==
  ASSUME LInv, DossierAssumption
  PROVE  TableauAccorde
<1>0. IInv /\ statut \in Statuts  BY DEF LInv, IInv, TypeOK
<1> DEFINE Etat == Kpis \cap {"actifs", "approuves", "rejetes"}
<1>1. /\ "deposes" \in Kpis <=> statut # "BROUILLON"
      /\ "actifs" \in Kpis <=> statut \in Reclamables \cup {"PRET_COMITE"}
      /\ "enInstruction" \in Kpis <=> statut \in EnMain
      /\ "approuves" \in Kpis <=> statut = "APPROUVE"
      /\ "rejetes" \in Kpis <=> statut = "REJETE"
  BY <1>0, DecideeOuNon DEF Kpis
<1>2. Cardinality({}) = 0 /\ \A x : Cardinality({x}) = 1  BY FS_EmptySet, FS_Singleton
<1>3. CASE statut = "BROUILLON"
  <2>1. Etat = {}  BY <1>1, <1>3 DEF Reclamables
  <2>2. Cardinality(Etat) = 0  BY <1>2, <2>1
  <2>3. MontantApprouve = 0  BY <1>0, <1>3, DecideeOuNon DEF MontantApprouve
  <2>4. statut \notin EnMain  BY <1>3 DEF EnMain
  <2> HIDE DEF Etat
  <2>5. QED
    BY <1>0, <1>1, <1>3, <2>2, <2>3, <2>4, ComptesComite
    DEF TableauAccorde, SommaireComite, Pipeline, Etat
<1>4. CASE statut # "BROUILLON"
  <2>1. \E x : Etat = {x}
    <3>1. CASE statut = "APPROUVE"
      <4>1. Etat = {"approuves"}  BY <1>1, <3>1 DEF Reclamables
      <4>2. QED  BY <4>1
    <3>2. CASE statut = "REJETE"
      <4>1. Etat = {"rejetes"}  BY <1>1, <3>2 DEF Reclamables
      <4>2. QED  BY <4>1
    <3>3. CASE statut \in Reclamables \cup {"PRET_COMITE"}
      <4>1. Etat = {"actifs"}  BY <1>1, <3>3 DEF Reclamables
      <4>2. QED  BY <4>1
    <3>4. QED  BY <1>0, <1>4, <3>1, <3>2, <3>3 DEF Statuts, Reclamables, Decisions
  <2>2. Cardinality(Etat) = 1  BY <1>2, <2>1
  <2>3. MontantApprouve > 0 <=> statut = "APPROUVE"
    BY <1>0, ApprouveMontant, DecideeOuNon DEF MontantApprouve
  <2>4. statut \in EnMain => SommaireComite.aStatuer = 0  BY DEF SommaireComite, EnMain
  <2>5. QED
    BY <1>0, <1>1, <1>4, <2>2, <2>3, <2>4, ComptesComite
    DEF TableauAccorde, SommaireComite, Pipeline
<1>5. QED  BY <1>3, <1>4

(* No submitted dossier falls between two worklists.                       *)
THEOREM JamaisPerduTheorem == Spec => []JamaisPerdu
<1>1. LInv => JamaisPerdu  BY JamaisPerduLemme, DossierAssumption
<1>2. QED  BY <1>1, Repartition, PTL

(* Every list opens, every button offered to whoever's turn it is works.   *)
THEOREM ListeOuvrableTheorem == Spec => []ListeOuvrable
<1>1. LInv => ListeOuvrable  BY ListeOuvrableLemme, DossierAssumption
<1>2. QED  BY <1>1, Repartition, PTL

(* The committee's figures and the dashboard's agree.                      *)
THEOREM TableauAccordeTheorem == Spec => []TableauAccorde
<1>1. LInv => TableauAccorde  BY TableauAccordeLemme, DossierAssumption
<1>2. QED  BY <1>1, Repartition, PTL

-----------------------------------------------------------------------------
(* The schedule of a financing, by induction on the instalments.           *)

(* Every non-empty set of naturals has a least element.                    *)
LEMMA PlusPetit ==
  ASSUME NEW T \in SUBSET Nat, T # {}
  PROVE  \E x \in T : \A y \in T : ~ (y < x)
<1> DEFINE R == OpToRel(<, Nat)
<1>1. \E x \in T : \A y \in T : ~ (<<y, x>> \in R)
  <2>1. IsWellFoundedOn(R, Nat)  BY NatLessThanWellFounded
  <2> HIDE DEF R
  <2>2. QED  BY <2>1, WFMin
<1>2. \A x, y \in T : y < x => <<y, x>> \in R  BY DEF OpToRel
<1>3. QED  BY <1>1, <1>2

(* A set that holds 0, and n + 1 with n, holds the naturals.               *)
LEMMA Recurrence ==
  ASSUME NEW S, 0 \in S, \A n \in Nat : n \in S => n + 1 \in S
  PROVE  Nat \subseteq S
<1>1. SUFFICES ASSUME Nat \ S # {}  PROVE FALSE  OBVIOUS
<1>2. PICK x \in Nat \ S : \A y \in Nat \ S : ~ (y < x)
  <2>1. Nat \ S \in SUBSET Nat  OBVIOUS
  <2>2. QED  BY <1>1, <2>1, PlusPetit
<1>3. x # 0 /\ x - 1 \in Nat /\ x - 1 < x  BY <1>2
<1>4. x - 1 \in S  BY <1>2, <1>3
<1>5. QED  BY <1>2, <1>3, <1>4

\* c follows from v by the steps f, as far as n.
Enchaine(c, n, v, f) == \A i \in 0 .. n : c[i] = IF i = 0 THEN v ELSE f[i][c[i - 1]]

(* A sequence that each of its terms determines from the one before exists. *)
LEMMA SuiteExiste ==
  ASSUME NEW n \in Nat, NEW V, NEW v \in V, NEW f \in [1 .. n -> [V -> V]]
  PROVE  \E c \in [0 .. n -> V] : Enchaine(c, n, v, f)
<1> DEFINE S == {m \in Nat : m <= n => \E c \in [0 .. m -> V] : Enchaine(c, m, v, f)}
<1>1. 0 \in S
  <2> DEFINE c == [i \in 0 .. 0 |-> v]
  <2>1. c \in [0 .. 0 -> V] /\ Enchaine(c, 0, v, f)  BY DEF Enchaine
  <2>2. QED  BY <2>1
<1>2. ASSUME NEW m \in Nat, m \in S  PROVE m + 1 \in S
  <2>1. SUFFICES ASSUME m + 1 <= n
                 PROVE  \E c \in [0 .. m + 1 -> V] : Enchaine(c, m + 1, v, f)
    OBVIOUS
  <2>2. PICK b \in [0 .. m -> V] : Enchaine(b, m, v, f)  BY <1>2, <2>1
  <2> DEFINE c == [i \in 0 .. m + 1 |-> IF i <= m THEN b[i] ELSE f[m + 1][b[m]]]
  <2>3. c \in [0 .. m + 1 -> V]  BY <2>1
  <2>4. ASSUME NEW i \in 0 .. m + 1
        PROVE  c[i] = IF i = 0 THEN v ELSE f[i][c[i - 1]]
    <3>1. CASE i <= m  BY <2>2, <3>1 DEF Enchaine
    <3>2. CASE i = m + 1  BY <3>2
    <3>3. QED  BY <3>1, <3>2
  <2>5. Enchaine(c, m + 1, v, f)  BY <2>4 DEF Enchaine
  <2>6. QED  BY <2>3, <2>5
<1>3. Nat \subseteq S
  <2> HIDE DEF S
  <2>1. QED  BY <1>1, <1>2, Recurrence
<1>4. n \in S  BY <1>3
<1>5. QED  BY <1>4

(* Rounding: the nearest whole number of centimes, half up.                *)
LEMMA Arrondi ==
  ASSUME NEW a \in Nat, NEW b \in Nat \ {0}
  PROVE  /\ RoundMoney(a, b) \in Nat
         /\ 2 * b * RoundMoney(a, b) <= 2 * a + b
         /\ 2 * a + b < 2 * b * RoundMoney(a, b) + 2 * b
<1> DEFINE x == 2 * a + b
           y == 2 * b
<1>1. x \in Nat /\ y \in Nat /\ y > 0  OBVIOUS
<1>2. (x \div y) \in Int /\ x = y * (x \div y) + (x % y) /\ (x % y) \in 0 .. y - 1
  <2> HIDE DEF x, y
  <2>1. QED  BY <1>1
<1>3. QED  BY <1>1, <1>2 DEF RoundMoney


\* What is still owed after k instalments: the principal less k regular
\* instalments, never negative, and nothing after the last.
Soldes(r, p, n) ==
  /\ r \in [0 .. n -> Nat]
  /\ r[0] = p /\ r[n] = 0
  /\ \A k \in 1 .. n : r[k] = r[k - 1] - CapitalDu(p, n, k, r[k - 1])
  /\ \A k \in 0 .. n - 1 :
       r[k] = IF k * RoundMoney(p, n) <= p THEN p - k * RoundMoney(p, n) ELSE 0

(* The recursive definition computes what is still owed.                   *)
LEMMA RestantsCorrects ==
  ASSUME NEW p \in Nat, NEW n \in Nat \ {0}
  PROVE  Soldes(Restants(p, n), p, n)
<1>a. PICK r : r = Restants(p, n)  OBVIOUS
<1> DEFINE R == RoundMoney(p, n)
<1>0. R \in Nat  BY Arrondi
<1>1. \A k \in 1 .. n, x \in Int : CapitalDu(p, n, k, x) = IF k = n THEN x ELSE IF R < x THEN R ELSE x
  BY DEF CapitalDu, Moindre
<1> DEFINE f == [k \in 1 .. n |-> [x \in Int |-> x - CapitalDu(p, n, k, x)]]
<1>2. f \in [1 .. n -> [Int -> Int]]
  <2>1. \A k \in 1 .. n, x \in Int : x - CapitalDu(p, n, k, x) \in Int
    <3> HIDE DEF R
    <3>1. QED  BY <1>0, <1>1
  <2>2. QED  BY <2>1
<1>3. PICK c \in [0 .. n -> Int] : Enchaine(c, n, p, f)
  <2>1. p \in Int /\ n \in Nat  OBVIOUS
  <2> HIDE DEF f
  <2>2. QED  BY <1>2, <2>1, SuiteExiste
<1>4. c = [i \in 0 .. n |-> IF i = 0 THEN p
                            ELSE LET avant == c[i - 1] IN avant - CapitalDu(p, n, i, avant)]
  <2>1. \A i \in 1 .. n : f[i][c[i - 1]] = c[i - 1] - CapitalDu(p, n, i, c[i - 1])
    BY <1>3
  <2> HIDE DEF f
  <2>2. \A i \in 0 .. n : c[i] = IF i = 0 THEN p ELSE c[i - 1] - CapitalDu(p, n, i, c[i - 1])
    <3>1. \A i \in 0 .. n : i # 0 => i \in 1 .. n  OBVIOUS
    <3>2. QED  BY <1>3, <2>1, <3>1, Zenon DEF Enchaine
  <2>3. QED  BY <2>2
<1>5. r = [i \in 0 .. n |-> IF i = 0 THEN p
                            ELSE LET avant == r[i - 1] IN avant - CapitalDu(p, n, i, avant)]
  BY <1>4, <1>a DEF Restants
<1> HIDE DEF f, R
<1>6. r[0] = p  BY <1>5
<1>7. \A k \in 1 .. n : r[k] = r[k - 1] - CapitalDu(p, n, k, r[k - 1])  BY <1>5
<1> DEFINE Forme(k) == r[k] = IF k * R <= p THEN p - k * R ELSE 0
           S == {k \in Nat : k < n => Forme(k)}
<1>8. 0 \in S  BY <1>0, <1>6
<1>9. ASSUME NEW k \in Nat, k \in S  PROVE k + 1 \in S
  <2>1. SUFFICES ASSUME k + 1 < n  PROVE Forme(k + 1)  OBVIOUS
  <2>2. Forme(k)  BY <1>9, <2>1
  <2>3. (k + 1) * R = k * R + R /\ k * R \in Nat  BY <1>0
  <2>4. r[k] \in Nat  BY <2>2, <2>3
  <2>5. r[k + 1] = r[k] - (IF R < r[k] THEN R ELSE r[k])
    <3>1. k + 1 \in 1 .. n /\ k + 1 # n /\ (k + 1) - 1 = k  BY <2>1
    <3>2. r[k + 1] = r[k] - CapitalDu(p, n, k + 1, r[k])  BY <1>7, <3>1
    <3>3. QED  BY <1>1, <2>4, <3>1, <3>2
  <2>6. QED  BY <1>0, <2>2, <2>3, <2>4, <2>5
<1>10. Nat \subseteq S
  <2> HIDE DEF S
  <2>1. QED  BY <1>8, <1>9, Recurrence
<1>11. \A k \in 0 .. n - 1 : Forme(k) /\ r[k] \in Nat
  <2>1. SUFFICES ASSUME NEW k \in 0 .. n - 1  PROVE Forme(k) /\ r[k] \in Nat  OBVIOUS
  <2>2. Forme(k)  BY <1>10
  <2>3. k * R \in Nat  BY <1>0
  <2>4. QED  BY <2>2, <2>3
<1>12. r[n] = 0
  <2>1. n \in 1 .. n /\ n - 1 \in 0 .. n - 1  OBVIOUS
  <2>2. r[n] = r[n - 1] - CapitalDu(p, n, n, r[n - 1]) /\ r[n - 1] \in Nat
    BY <1>7, <1>11, <2>1
  <2>3. QED  BY <1>1, <2>1, <2>2
<1>13. r \in [0 .. n -> Nat]
  <2>1. \A k \in 0 .. n : r[k] \in Nat  BY <1>11, <1>12
  <2>2. QED  BY <1>5, <2>1
<1>14. Soldes(r, p, n)  BY <1>6, <1>7, <1>11, <1>12, <1>13 DEF R, Soldes
<1>15. QED  BY <1>14, <1>a

(* One instalment: at most the regular one before the last, at most what   *)
(* is owed.                                                                *)
LEMMA CapitalBorne ==
  ASSUME NEW p \in Nat, NEW n \in Nat \ {0}, NEW k \in 1 .. n, NEW x \in Nat
  PROVE  /\ CapitalDu(p, n, k, x) \in Nat /\ CapitalDu(p, n, k, x) <= x
         /\ k # n /\ CapitalDu(p, n, k, x) = 0 => RoundMoney(p, n) = 0 \/ x = 0
<1>1. RoundMoney(p, n) \in Nat  BY Arrondi
<1>2. QED  BY <1>1 DEF CapitalDu, Moindre

(* The partial sums of the capital and what is still owed make the         *)
(* principal.                                                              *)
LEMMA VerseCorrect ==
  ASSUME NEW p \in Nat, NEW n \in Nat \ {0}, NEW r \in [0 .. n -> Nat], NEW w \in [1 .. n -> Nat],
         r[0] = p, \A k \in 1 .. n : r[k] = r[k - 1] - w[k]
  PROVE  \A k \in 0 .. n : Cumul(w)[k] = p - r[k]
<1>1. Len(w) = n
  <2>1. w \in Seq(Nat)  BY SeqDef
  <2>2. QED  BY <2>1
<1> DEFINE c == [k \in 0 .. n |-> p - r[k]]
           v == Cumul(w)
<1>2. c = [i \in 0 .. Len(w) |-> IF i = 0 THEN 0 ELSE c[i - 1] + w[i]]
  <2>1. \A i \in 0 .. n : c[i] = IF i = 0 THEN 0 ELSE c[i - 1] + w[i]
    <3>1. c[0] = 0
      <4>1. c[0] = p - r[0]  OBVIOUS
      <4>2. QED  BY <4>1
    <3>2. ASSUME NEW i \in 1 .. n  PROVE c[i] = c[i - 1] + w[i]
      <4>1. i \in 0 .. n /\ i - 1 \in 0 .. n  OBVIOUS
      <4>2. c[i] = p - r[i] /\ c[i - 1] = p - r[i - 1]  BY <4>1
      <4>3. r[i] = r[i - 1] - w[i] /\ r[i] \in Nat /\ r[i - 1] \in Nat /\ w[i] \in Nat
        BY <4>1
      <4> HIDE DEF c
      <4>4. QED  BY <4>2, <4>3
    <3> HIDE DEF c
    <3>3. QED  BY <3>1, <3>2
  <2>2. QED  BY <1>1, <2>1
<1>3. v = [i \in 0 .. n |-> IF i = 0 THEN 0 ELSE v[i - 1] + w[i]]
  <2> HIDE DEF c
  <2>1. QED  BY <1>1, <1>2 DEF Cumul
<1> HIDE DEF v
<1> DEFINE S == {k \in Nat : k <= n => v[k] = p - r[k]}
<1>4. 0 \in S  BY <1>3
<1>5. ASSUME NEW k \in Nat, k \in S  PROVE k + 1 \in S
  <2>1. SUFFICES ASSUME k + 1 <= n  PROVE v[k + 1] = p - r[k + 1]  OBVIOUS
  <2>2. v[k + 1] = v[k] + w[k + 1]  BY <1>3, <2>1
  <2>3. k + 1 \in 1 .. n /\ (k + 1) - 1 = k  BY <2>1
  <2>4. r[k + 1] = r[k] - w[k + 1]  BY <2>3
  <2>5. PICK a \in Nat, b \in Nat, e \in Nat : a = r[k] /\ b = w[k + 1] /\ e = r[k + 1]
    <3>1. r[k] \in Nat /\ w[k + 1] \in Nat /\ r[k + 1] \in Nat  BY <2>1, <2>3
    <3>2. QED  BY <3>1, Zenon
  <2>6. v[k] = p - a  BY <1>5, <2>1, <2>5
  <2>7. v[k + 1] = p - a + b /\ e = a - b  BY <2>2, <2>4, <2>5, <2>6
  <2>8. v[k + 1] = p - e  BY <2>7
  <2>9. QED  BY <2>5, <2>8
<1>6. Nat \subseteq S
  <2> HIDE DEF S
  <2>1. QED  BY <1>4, <1>5, Recurrence
<1>7. QED  BY <1>6 DEF v

(* Interest is a whole number that grows with what is owed.                *)
LEMMA InteretCroissant ==
  ASSUME NEW x \in Nat, NEW y \in Nat, NEW t \in Nat, x <= y
  PROVE  /\ InteretDu(x, t) \in Nat /\ InteretDu(y, t) \in Nat
         /\ InteretDu(x, t) <= InteretDu(y, t)
<1>1. x * t \in Nat /\ y * t \in Nat /\ x * t <= y * t
  <2>1. PICK e \in Nat : y = x + e
    <3>1. y - x \in Nat /\ y = x + (y - x)  OBVIOUS
    <3>2. QED  BY <3>1
  <2>2. y * t = x * t + e * t /\ e * t \in Nat /\ x * t \in Nat  BY <2>1
  <2>3. QED  BY <2>2
<1> DEFINE a == x * t
           b == y * t
<1>2. a \in Nat /\ b \in Nat /\ a <= b  BY <1>1
<1> HIDE DEF a, b
<1>3. RoundMoney(a, Mensuel) \in Nat /\ RoundMoney(b, Mensuel) \in Nat
  BY <1>2, SMT DEF RoundMoney, Mensuel
<1>4. RoundMoney(a, Mensuel) <= RoundMoney(b, Mensuel)
  BY <1>2, SMT DEF RoundMoney, Mensuel
<1>5. QED  BY <1>3, <1>4 DEF InteretDu, a, b

(* The last instalment exceeds a regular one by at most half a centime per *)
(* month.                                                                  *)
LEMMA DerniereBornee ==
  ASSUME NEW p \in Nat, NEW n \in Nat \ {0}, NEW q, NEW R, R = RoundMoney(p, n),
         q = IF (n - 1) * R <= p THEN p - (n - 1) * R ELSE 0
  PROVE  2 * (q - R) <= n
<1>1. /\ R \in Nat
      /\ 2 * n * R <= 2 * p + n
      /\ 2 * p + n < 2 * n * R + 2 * n
  BY Arrondi
<1>2. n * R \in Nat /\ (n - 1) * R = n * R - R /\ 2 * n * R = 2 * (n * R)  BY <1>1
<1> DEFINE z == n * R
<1>3. z \in Nat /\ 2 * p + n < 2 * z + 2 * n /\ (n - 1) * R = z - R  BY <1>1, <1>2
<1>4. q = IF z - R <= p THEN p - (z - R) ELSE 0  BY <1>3
<1> HIDE DEF z
<1>5. QED  BY <1>1, <1>3, <1>4

(* A date some months later: the months follow each other, and the day is  *)
(* the same, or the last of its month.                                     *)
LEMMA MoisSuivant ==
  ASSUME NEW d \in [an: Nat, mois: 1 .. 12, jour: 1 .. 31], NEW k \in Nat,
         NEW x, x = AddMonths(d, k)
  PROVE  /\ x.an \in Nat /\ x.mois \in 1 .. 12
         /\ 12 * x.an + x.mois = 12 * d.an + d.mois + k
         /\ x.jour = Moindre(d.jour, DernierJour(x.an, x.mois))
         /\ DateCorrecte(x)
<1> DEFINE rang == 12 * d.an + d.mois - 1 + k
<1>1. d.an \in Nat /\ d.mois \in 1 .. 12 /\ d.jour \in 1 .. 31  OBVIOUS
<1>2. rang \in Nat  BY <1>1
<1>3. /\ x.an = rang \div 12
      /\ x.mois = (rang % 12) + 1
      /\ x.jour = Moindre(d.jour, DernierJour(x.an, x.mois))
  BY DEF AddMonths
<1> HIDE DEF rang
<1>4. x.an \in Nat /\ x.mois \in 1 .. 12 /\ 12 * x.an + x.mois = rang + 1
  BY <1>2, <1>3
<1>5. DernierJour(x.an, x.mois) \in 28 .. 31  BY DEF DernierJour
<1>6. x.jour \in 1 .. DernierJour(x.an, x.mois)  BY <1>1, <1>3, <1>5 DEF Moindre
<1>7. 12 * x.an + x.mois = 12 * d.an + d.mois + k  BY <1>1, <1>4 DEF rang
<1>8. QED  BY <1>3, <1>4, <1>6, <1>7 DEF DateCorrecte

(* The fields of an instalment.                                            *)
LEMMA PlanForme ==
  ASSUME NEW p, NEW t, NEW n, NEW d, NEW k \in 1 .. n, NEW r, r = Restants(p, n),
         NEW plan, plan = BuildAmortizationSchedule(p, t, n, d)
  PROVE  /\ plan[k].date = AddMonths(d, k)
         /\ plan[k].capital = CapitalDu(p, n, k, r[k - 1])
         /\ plan[k].interet = InteretDu(r[k - 1], t)
         /\ plan[k].total = CapitalDu(p, n, k, r[k - 1]) + InteretDu(r[k - 1], t)
BY DEF BuildAmortizationSchedule

(* The schedule is what its borrower and its bank are owed, for every      *)
(* principal, rate, duration and first date.                               *)
THEOREM EcheancierCorrect ==
  ASSUME NEW p \in Nat \ {0}, NEW t \in Nat, NEW n \in Nat \ {0},
         NEW d \in [an: Nat, mois: 1 .. 12, jour: 1 .. 31], DateCorrecte(d)
  PROVE  EcheancierDe(p, t, n, d)
<1>a. PICK plan : plan = BuildAmortizationSchedule(p, t, n, d)  OBVIOUS
<1>b. PICK r : r = Restants(p, n)  OBVIOUS
<1>c. PICK R : R = RoundMoney(p, n)  OBVIOUS
<1>d. PICK w : w = [k \in 1 .. n |-> plan[k].capital]  OBVIOUS
<1>e. PICK verse : verse = Cumul(w)  OBVIOUS
<1>f. p \in Nat /\ n \in Nat  OBVIOUS
<1>1. /\ r \in [0 .. n -> Nat] /\ r[0] = p /\ r[n] = 0
      /\ \A k \in 1 .. n : r[k] = r[k - 1] - CapitalDu(p, n, k, r[k - 1])
      /\ r[n - 1] = IF (n - 1) * R <= p THEN p - (n - 1) * R ELSE 0
  <2>1. n - 1 \in 0 .. n - 1  OBVIOUS
  <2>2. /\ r \in [0 .. n -> Nat] /\ r[0] = p /\ r[n] = 0
        /\ \A k \in 1 .. n : r[k] = r[k - 1] - CapitalDu(p, n, k, r[k - 1])
        /\ \A k \in 0 .. n - 1 : r[k] = IF k * R <= p THEN p - k * R ELSE 0
    <3>1. n \in Nat \ {0}  OBVIOUS
    <3>2. Soldes(r, p, n)  BY <1>b, <1>f, <3>1, RestantsCorrects
    <3>3. QED  BY <1>c, <3>2, Zenon DEF Soldes
  <2>3. QED  BY <2>1, <2>2, Zenon
<1>2. \A k \in 1 .. n : /\ plan[k].date = AddMonths(d, k)
                        /\ plan[k].capital = CapitalDu(p, n, k, r[k - 1])
                        /\ plan[k].interet = InteretDu(r[k - 1], t)
                        /\ plan[k].total = plan[k].capital + plan[k].interet
  <2>1. SUFFICES ASSUME NEW k \in 1 .. n
                 PROVE  /\ plan[k].date = AddMonths(d, k)
                        /\ plan[k].capital = CapitalDu(p, n, k, r[k - 1])
                        /\ plan[k].interet = InteretDu(r[k - 1], t)
                        /\ plan[k].total = plan[k].capital + plan[k].interet
    OBVIOUS
  <2>2. QED  BY <1>a, <1>b, PlanForme
<1>3. ASSUME NEW k \in 1 .. n
      PROVE  /\ plan[k].capital \in Nat /\ plan[k].capital <= r[k - 1]
             /\ plan[k].interet \in Nat
             /\ r[k] = r[k - 1] - plan[k].capital /\ r[k - 1] \in Nat /\ r[k] \in Nat
             /\ k # n /\ plan[k].capital = 0 => R = 0 \/ r[k - 1] = 0
  <2>1. r[k - 1] \in Nat /\ r[k] \in Nat
    <3>1. k - 1 \in 0 .. n /\ k \in 0 .. n  OBVIOUS
    <3>2. QED  BY <1>1, <3>1
  <2>2. r[k] = r[k - 1] - plan[k].capital  BY <1>1, <1>2
  <2>3. /\ CapitalDu(p, n, k, r[k - 1]) \in Nat
        /\ CapitalDu(p, n, k, r[k - 1]) <= r[k - 1]
        /\ k # n /\ CapitalDu(p, n, k, r[k - 1]) = 0 => R = 0 \/ r[k - 1] = 0
    BY <1>c, <1>f, <2>1, CapitalBorne
  <2>4. InteretDu(r[k - 1], t) \in Nat
    <3>1. r[k - 1] <= r[k - 1]  BY <2>1
    <3>2. QED  BY <2>1, <3>1, InteretCroissant
  <2>5. QED  BY <1>2, <2>1, <2>2, <2>3, <2>4
<1>4. w \in [1 .. n -> Nat]  BY <1>3, <1>d
<1>5. \A k \in 0 .. n : verse[k] = p - r[k]
  <2>1. \A k \in 1 .. n : r[k] = r[k - 1] - w[k]  BY <1>3, <1>d
  <2>2. n \in Nat \ {0} /\ r \in [0 .. n -> Nat] /\ r[0] = p  BY <1>1
  <2>3. \A k \in 0 .. n : Cumul(w)[k] = p - r[k]
    BY <1>4, <1>f, <2>1, <2>2, VerseCorrect, Zenon
  <2>4. QED  BY <1>e, <2>3, Zenon
<1>6. verse[n] = p
  <2>1. n \in 0 .. n  OBVIOUS
  <2>2. verse[n] = p - 0  BY <1>1, <1>5, <2>1
  <2>3. QED  BY <1>f, <2>2
<1>7. ASSUME NEW k \in 1 .. n, plan[k].total = 0
      PROVE  verse[k] = p \/ R = 0
  <2>1. plan[k].capital = 0  BY <1>2, <1>3, <1>7
  <2>2. CASE k = n  BY <1>6, <2>2
  <2>3. CASE r[k - 1] = 0
    <3>1. r[k] = 0  BY <1>3, <2>1, <2>3
    <3>2. k \in 0 .. n  OBVIOUS
    <3>3. QED  BY <1>5, <3>1, <3>2
  <2>4. QED  BY <1>3, <2>1, <2>2, <2>3
<1>8. ASSUME NEW k \in 1 .. n
      PROVE  /\ DateCorrecte(plan[k].date)
             /\ Avant(IF k = 1 THEN d ELSE plan[k - 1].date, plan[k].date)
             /\ plan[k].date.jour = Moindre(d.jour, DernierJour(plan[k].date.an, plan[k].date.mois))
  <2> DEFINE x == plan[k].date
             y == IF k = 1 THEN d ELSE plan[k - 1].date
  <2>1. x = AddMonths(d, k)  BY <1>2
  <2>2. /\ x.an \in Nat /\ x.mois \in 1 .. 12
        /\ 12 * x.an + x.mois = 12 * d.an + d.mois + k
        /\ x.jour = Moindre(d.jour, DernierJour(x.an, x.mois))
        /\ DateCorrecte(x)
    <3> HIDE DEF x
    <3>1. k \in Nat  OBVIOUS
    <3>2. QED  BY <2>1, <3>1, MoisSuivant
  <2>3. /\ y.an \in Nat /\ y.mois \in 1 .. 12
        /\ 12 * y.an + y.mois = 12 * d.an + d.mois + k - 1
    <3>1. CASE k = 1  BY <3>1
    <3>2. CASE k # 1
      <4>1. k - 1 \in 1 .. n /\ k - 1 \in Nat  BY <3>2
      <4>2. y = AddMonths(d, k - 1)  BY <1>2, <3>2, <4>1
      <4>3. d.an \in Nat /\ d.mois \in Nat  OBVIOUS
      <4> HIDE DEF y
      <4>4. /\ y.an \in Nat /\ y.mois \in 1 .. 12
            /\ 12 * y.an + y.mois = 12 * d.an + d.mois + (k - 1)
        BY <4>1, <4>2, MoisSuivant
      <4>5. QED  BY <4>3, <4>4
    <3>3. QED  BY <3>1, <3>2
  <2>4. d.an \in Nat /\ d.mois \in Nat  OBVIOUS
  <2> HIDE DEF x, y
  <2>5. Avant(y, x)  BY <2>2, <2>3, <2>4 DEF Avant
  <2>6. QED  BY <2>2, <2>5 DEF x, y
<1>9. ASSUME NEW k \in 2 .. n  PROVE plan[k].interet <= plan[k - 1].interet
  <2>1. k \in 1 .. n /\ k - 1 \in 1 .. n  OBVIOUS
  <2>2. r[k - 1] = r[k - 2] - plan[k - 1].capital /\ r[k - 2] \in Nat /\ r[k - 1] \in Nat
        /\ plan[k - 1].capital \in Nat
    <3>1. (k - 1) - 1 = k - 2  OBVIOUS
    <3>2. QED  BY <1>3, <2>1, <3>1
  <2>3. r[k - 1] <= r[k - 2]  BY <2>2
  <2>4. plan[k].interet = InteretDu(r[k - 1], t) /\ plan[k - 1].interet = InteretDu(r[k - 2], t)
    <3>1. (k - 1) - 1 = k - 2  OBVIOUS
    <3>2. QED  BY <1>2, <2>1, <3>1
  <2>5. InteretDu(r[k - 1], t) <= InteretDu(r[k - 2], t)
    BY <2>2, <2>3, InteretCroissant, Zenon
  <2>6. QED  BY <2>4, <2>5
<1>10. 2 * (plan[n].capital - R) <= n
  <2>1. n \in 1 .. n  OBVIOUS
  <2>2. plan[n].capital = r[n - 1]  BY <1>2, <2>1 DEF CapitalDu
  <2>3. 2 * (r[n - 1] - R) <= n  BY <1>1, <1>c, <1>f, DerniereBornee
  <2>4. QED  BY <2>2, <2>3
<1>11. QED
  BY <1>3, <1>6, <1>7, <1>8, <1>9, <1>10, <1>a, <1>c, <1>d, <1>e DEF EcheancierDe

(* Rates and durations that are accepted are whole numbers.                *)
LEMMA BornesAcceptees ==
  /\ \A x \in TauxAcceptes : x \in Nat
  /\ \A x \in DureesAcceptees : x \in Nat \ {0}
<1>1. \A x \in TauxAcceptes : x \in Nat  BY DEF TauxAcceptes
<1>2. \A x \in DureesAcceptees : x \in Nat \ {0}  BY SMT DEF DureesAcceptees
<1>3. QED  BY <1>1, <1>2

(* The schedule written with a financing is exact.                         *)
THEOREM EcheancierExactTheorem == Spec => []EcheancierExact
<1>1. TypeOK => EcheancierExact
  <2>1. SUFFICES ASSUME TypeOK, NEW i \in DOMAIN financements,
                        NEW t \in Taux, NEW n \in Durees, NEW d \in Dates
                 PROVE  <<financements[i], t, n, d>> \in PlansCorrects
    BY DEF EcheancierExact
  <2>2. financements[i] \in Montants
    <3>1. financements \in Seq(Montants)  BY <2>1 DEF TypeOK
    <3>2. QED  BY <3>1
  <2>3. PICK p \in Montants : p = financements[i]  BY <2>2
  <2>4. p \in Nat \ {0}  BY DossierAssumption DEF DossierAssumption
  <2>5. /\ t \in TauxAcceptes /\ n \in DureesAcceptees
        /\ d \in [an: Nat, mois: 1 .. 12, jour: 1 .. 31] /\ DateCorrecte(d)
    BY LecturesAssumption DEF LecturesAssumption
  <2>6. EcheancierDe(p, t, n, d)
    <3>1. t \in Nat /\ n \in Nat \ {0}  BY <2>5, BornesAcceptees
    <3>2. QED  BY <2>4, <2>5, <3>1, EcheancierCorrect
  <2>7. Acceptable(p, t, n)  BY <2>4, <2>5 DEF Acceptable
  <2>8. <<p, t, n, d>> \in PlansCorrects  BY <2>6, <2>7 DEF PlansCorrects, Plans
  <2>9. QED  BY <2>3, <2>8
<1>2. QED  BY <1>1, DossierType, PTL
-----------------------------------------------------------------------------
(* The score, for every grid.                                              *)

(* The sum of a column is that of its first rows.                          *)
LEMMA SommePas ==
  ASSUME NEW n \in Nat, NEW w \in [1 .. n -> Nat]
  PROVE  /\ Cumul(w) \in [0 .. n -> Nat]
         /\ Cumul(w)[0] = 0 /\ Somme(w) = Cumul(w)[n] /\ Somme(w) \in Nat
         /\ \A k \in 1 .. n : Cumul(w)[k] = Cumul(w)[k - 1] + w[k]
<1> DEFINE v == Cumul(w)
<1>1. Len(w) = n
  <2>1. w \in Seq(Nat)  BY SeqDef
  <2>2. QED  BY <2>1
<1> DEFINE f == [k \in 1 .. n |-> [x \in Nat |-> x + w[k]]]
<1>2. f \in [1 .. n -> [Nat -> Nat]]  OBVIOUS
<1>3. PICK c \in [0 .. n -> Nat] : Enchaine(c, n, 0, f)
  <2> HIDE DEF f
  <2>1. QED  BY <1>2, SuiteExiste
<1>4. c = [i \in 0 .. n |-> IF i = 0 THEN 0 ELSE c[i - 1] + w[i]]
  <2>1. ASSUME NEW i \in 0 .. n  PROVE c[i] = IF i = 0 THEN 0 ELSE c[i - 1] + w[i]
    <3>1. i # 0 => i \in 1 .. n /\ c[i - 1] \in Nat  OBVIOUS
    <3>2. i # 0 => f[i][c[i - 1]] = c[i - 1] + w[i]  BY <3>1
    <3> HIDE DEF f
    <3>3. QED  BY <1>3, <3>2 DEF Enchaine
  <2> HIDE DEF f
  <2>2. QED  BY <2>1
<1>5. v = [i \in 0 .. n |-> IF i = 0 THEN 0 ELSE v[i - 1] + w[i]]
  BY <1>1, <1>4 DEF Cumul
<1>11. Somme(w) = v[n]  BY <1>1 DEF Somme
<1> HIDE DEF v
<1>6. v[0] = 0 /\ \A k \in 1 .. n : v[k] = v[k - 1] + w[k]  BY <1>5
<1> DEFINE S == {k \in Nat : k <= n => v[k] \in Nat}
<1>7. 0 \in S  BY <1>6
<1>8. ASSUME NEW k \in Nat, k \in S  PROVE k + 1 \in S
  <2>1. SUFFICES ASSUME k + 1 <= n  PROVE v[k + 1] \in Nat  OBVIOUS
  <2>2. k + 1 \in 1 .. n /\ (k + 1) - 1 = k  BY <2>1
  <2>3. v[k + 1] = v[k] + w[k + 1] /\ v[k] \in Nat /\ w[k + 1] \in Nat
    BY <1>6, <1>8, <2>1, <2>2
  <2>4. QED  BY <2>3
<1>9. Nat \subseteq S
  <2> HIDE DEF S
  <2>1. QED  BY <1>7, <1>8, Recurrence
<1>10. v \in [0 .. n -> Nat]
  <2>1. \A k \in 0 .. n : v[k] \in Nat  BY <1>9
  <2>2. QED  BY <1>5, <2>1
<1>12. v[n] \in Nat
  <2>1. n \in 0 .. n  OBVIOUS
  <2>2. QED  BY <1>10, <2>1
<1>13. QED  BY <1>6, <1>10, <1>11, <1>12 DEF v

(* What bounds each row bounds the sum.                                    *)
LEMMA SommeEncadree ==
  ASSUME NEW n \in Nat, NEW w \in [1 .. n -> Nat], NEW z \in [1 .. n -> Nat],
         NEW A \in Int, NEW B \in Int, NEW D \in Int,
         \A i \in 1 .. n : A * w[i] <= B * z[i] + D
  PROVE  A * Somme(w) <= B * Somme(z) + n * D
<1> DEFINE v == Cumul(w)
           t == Cumul(z)
<1>3. /\ v \in [0 .. n -> Nat] /\ v[0] = 0 /\ Somme(w) = v[n]
      /\ \A k \in 1 .. n : v[k] = v[k - 1] + w[k]
  BY SommePas
<1>4. /\ t \in [0 .. n -> Nat] /\ t[0] = 0 /\ Somme(z) = t[n]
      /\ \A k \in 1 .. n : t[k] = t[k - 1] + z[k]
  BY SommePas
<1> HIDE DEF v, t
<1> DEFINE S == {k \in Nat : k <= n => A * v[k] <= B * t[k] + k * D}
<1>5. 0 \in S
  <2>1. A * v[0] = 0 /\ B * t[0] = 0 /\ 0 * D = 0  BY <1>3, <1>4
  <2>2. QED  BY <2>1
<1>6. ASSUME NEW k \in Nat, k \in S  PROVE k + 1 \in S
  <2>1. SUFFICES ASSUME k + 1 <= n  PROVE A * v[k + 1] <= B * t[k + 1] + (k + 1) * D  OBVIOUS
  <2>2. k + 1 \in 1 .. n /\ (k + 1) - 1 = k /\ k \in 0 .. n  BY <2>1
  <2>3. PICK a \in Nat, x \in Nat, b \in Nat, y \in Nat :
          a = v[k] /\ x = w[k + 1] /\ b = t[k] /\ y = z[k + 1]
    <3>1. v[k] \in Nat /\ w[k + 1] \in Nat /\ t[k] \in Nat /\ z[k + 1] \in Nat
      BY <1>3, <1>4, <2>2
    <3>2. QED  BY <3>1, Zenon
  <2>4. v[k + 1] = a + x /\ t[k + 1] = b + y  BY <1>3, <1>4, <2>2, <2>3
  <2>5. A * a <= B * b + k * D  BY <1>6, <2>1, <2>3
  <2>6. A * x <= B * y + D  BY <2>2, <2>3
  <2>7. A * (a + x) = A * a + A * x /\ B * (b + y) = B * b + B * y /\ (k + 1) * D = k * D + D
    OBVIOUS
  <2>8. /\ A * a \in Int /\ A * x \in Int /\ B * b \in Int /\ B * y \in Int /\ k * D \in Int
    OBVIOUS
  <2>9. A * (a + x) <= B * (b + y) + (k + 1) * D
    <3> DEFINE p == A * a
               q == A * x
               r == B * b
               s == B * y
               m == k * D
    <3>1. p \in Int /\ q \in Int /\ r \in Int /\ s \in Int /\ m \in Int  BY <2>8
    <3>2. p <= r + m /\ q <= s + D  BY <2>5, <2>6
    <3>3. A * (a + x) = p + q /\ B * (b + y) = r + s /\ (k + 1) * D = m + D  BY <2>7
    <3> HIDE DEF p, q, r, s, m
    <3>4. QED  BY <3>1, <3>2, <3>3
  <2>10. QED  BY <2>4, <2>9
<1>7. Nat \subseteq S
  <2> HIDE DEF S
  <2>1. QED  BY <1>5, <1>6, Recurrence
<1>8. QED  BY <1>3, <1>4, <1>7

(* A contribution is rounded to the nearest millionth, half up, although   *)
(* it is divided in two goes.                                              *)
LEMMA MillioniemesProches ==
  ASSUME NEW a \in Nat, NEW b \in Nat \ {0}
  PROVE  /\ Millioniemes(a, b) \in Nat
         /\ 2 * b * Millioniemes(a, b) <= 2000000 * a + b
         /\ 2000000 * a + b < 2 * b * Millioniemes(a, b) + 2 * b
<1> DEFINE x == 1000 * a
           q == x \div b
           r == x % b
           t == RoundMoney(1000 * r, b)
<1>1. x \in Nat /\ b \in Nat /\ b > 0  OBVIOUS
<1>2. q \in Nat /\ x = b * q + r /\ r \in Nat
  <2> HIDE DEF x
  <2>1. QED  BY <1>1
<1>3. Millioniemes(a, b) = 1000 * q + t  BY DEF Millioniemes, RoundMoney
<1> HIDE DEF q, r
<1>4. 1000 * r \in Nat  BY <1>2
<1>5. t \in Nat /\ 2 * b * t <= 2 * (1000 * r) + b /\ 2 * (1000 * r) + b < 2 * b * t + 2 * b
  <2>1. PICK R \in Nat : R = 1000 * r  BY <1>4
  <2>2. /\ RoundMoney(R, b) \in Nat
        /\ 2 * b * RoundMoney(R, b) <= 2 * R + b
        /\ 2 * R + b < 2 * b * RoundMoney(R, b) + 2 * b
    BY Arrondi
  <2>3. t = RoundMoney(R, b)  BY <2>1
  <2> HIDE DEF t
  <2>4. QED  BY <2>1, <2>2, <2>3
<1> HIDE DEF t
<1> DEFINE y == b * q
           z == b * t
<1>6. y \in Nat /\ z \in Nat /\ 2 * b * t = 2 * z  BY <1>1, <1>2, <1>5
<1>7. 2 * b * (1000 * q + t) = 2000 * y + 2 * z  BY <1>1, <1>2, <1>5
<1>8. 1000 * a = y + r  BY <1>2
<1> HIDE DEF y, z
<1>9. 2 * b * (1000 * q + t) <= 2000000 * a + b
      /\ 2000000 * a + b < 2 * b * (1000 * q + t) + 2 * b
  BY <1>1, <1>2, <1>5, <1>6, <1>7, <1>8
<1>10. 1000 * q + t \in Nat  BY <1>2, <1>5
<1>11. QED  BY <1>3, <1>9, <1>10

(* More points on the same scale are not rounded to fewer.                 *)
LEMMA MillioniemesCroissants ==
  ASSUME NEW a \in Nat, NEW e \in Nat, NEW b \in Nat \ {0}, a <= e
  PROVE  /\ Millioniemes(a, b) \in Nat /\ Millioniemes(e, b) \in Nat
         /\ Millioniemes(a, b) <= Millioniemes(e, b)
<1> DEFINE c == Millioniemes(a, b)
           d == Millioniemes(e, b)
<1>1. c \in Nat /\ 2 * b * c <= 2000000 * a + b  BY MillioniemesProches
<1>2. d \in Nat /\ 2000000 * e + b < 2 * b * d + 2 * b  BY MillioniemesProches
<1> HIDE DEF c, d
<1>3. SUFFICES ASSUME d + 1 <= c  PROVE FALSE
  <2>1. c <= d  BY <1>1, <1>2, <1>3
  <2>2. QED  BY <1>1, <1>2, <2>1 DEF c, d
<1>4. PICK k \in Nat : c = d + 1 + k
  <2>1. c - (d + 1) \in Nat /\ c = d + 1 + (c - (d + 1))  BY <1>1, <1>2, <1>3
  <2>2. QED  BY <2>1
<1>5. 2 * b * c = 2 * b * d + 2 * b + 2 * b * k /\ 2 * b * k \in Nat /\ 2 * b * d \in Nat
  BY <1>1, <1>2, <1>4
<1>6. QED  BY <1>1, <1>2, <1>5

\* Twice a million: the contributions are halves of a millionth apart.
Echelle == 2000000

(* One contribution and its term of the mean, on the common denominator.   *)
LEMMA ContributionProche ==
  ASSUME NEW x \in Nat, NEW p \in Nat, NEW m \in Nat \ {0}, NEW P \in Nat \ {0},
         NEW K \in Nat \ {0}, K % m = 0, x <= m
  PROVE  /\ Millioniemes(x * p, m * P) \in Nat
         /\ x * p * (K \div m) \in Nat
         /\ (2 * (K * P)) * Millioniemes(x * p, m * P) <= Echelle * (x * p * (K \div m)) + K * P
         /\ Echelle * (x * p * (K \div m)) <= (2 * (K * P)) * Millioniemes(x * p, m * P) + K * P
         /\ x * p * (K \div m) <= K * p
<1> DEFINE h == K \div m
           a == x * p
           b == m * P
           c == Millioniemes(a, b)
<1>1. h \in Nat /\ K = m * h
  <2>1. K \in Nat /\ m \in Nat /\ m > 0  OBVIOUS
  <2>2. QED  BY <2>1
<1> HIDE DEF h
<1>2. a \in Nat /\ b \in Nat \ {0}
  <2>1. m * P > 0 /\ m * P \in Nat  OBVIOUS
  <2>2. QED  BY <2>1
<1>3. K * P = b * h  BY <1>1
<1>4. /\ c \in Nat
      /\ 2 * b * c <= 2000000 * a + b
      /\ 2000000 * a + b < 2 * b * c + 2 * b
  <2> HIDE DEF a, b
  <2>1. QED  BY <1>2, MillioniemesProches
<1>5. a * h <= K * p
  <2>1. PICK e \in Nat : m = x + e
    <3>1. m - x \in Nat /\ m = x + (m - x)  OBVIOUS
    <3>2. QED  BY <3>1
  <2>2. K * p = (x + e) * h * p  BY <1>1, <2>1
  <2>3. (x + e) * h * p = x * p * h + e * h * p /\ e * h * p \in Nat /\ x * p * h \in Nat
    BY <1>1, <2>1
  <2>4. QED  BY <2>2, <2>3
<1> HIDE DEF a, b, c
<1>6. h * (2 * b * c) <= h * (2000000 * a + b) /\ h * (2000000 * a) <= h * (2 * b * c + b)
  <2>1. \A u, v \in Nat : u <= v => h * u <= h * v
    <3>1. SUFFICES ASSUME NEW u \in Nat, NEW v \in Nat, u <= v  PROVE h * u <= h * v  OBVIOUS
    <3>2. PICK e \in Nat : v = u + e
      <4>1. v - u \in Nat /\ v = u + (v - u)  BY <3>1
      <4>2. QED  BY <4>1
    <3>3. h * v = h * u + h * e /\ h * e \in Nat /\ h * u \in Nat  BY <1>1, <3>2
    <3>4. QED  BY <3>3
  <2>2. 2 * b * c \in Nat /\ 2000000 * a + b \in Nat /\ 2000000 * a \in Nat /\ 2 * b * c + b \in Nat
    BY <1>2, <1>4
  <2>3. 2000000 * a <= 2 * b * c + b  BY <1>2, <1>4, <2>2
  <2>4. QED  BY <1>4, <2>1, <2>2, <2>3
<1>7. /\ h * (2 * b * c) = (2 * (b * h)) * c
      /\ h * (2000000 * a + b) = 2000000 * (a * h) + b * h
      /\ h * (2000000 * a) = 2000000 * (a * h)
      /\ h * (2 * b * c + b) = (2 * (b * h)) * c + b * h
  BY <1>1, <1>2, <1>4
<1>8. a * h \in Nat  BY <1>1, <1>2
<1>9. (2 * (K * P)) * c <= Echelle * (a * h) + K * P
      /\ Echelle * (a * h) <= (2 * (K * P)) * c + K * P
  BY <1>3, <1>6, <1>7, SMT DEF Echelle
<1>10. QED  BY <1>4, <1>5, <1>8, <1>9 DEF h, a, b, c

\* S, the sum of n contributions to a whole score, and M, that of the terms
\* of the mean over g, are n roundings apart.
Proches(g, S, M, n) ==
  /\ (2 * g) * S <= Echelle * M + n * g
  /\ Echelle * M <= (2 * g) * S + n * g
  /\ M <= g

\* What NoteDe says of the total.
Exact(g, M, n, T) ==
  /\ 200 * (T * g - Plein * M) <= g * (100 + n)
  /\ -200 * (T * g - Plein * M) <= g * (100 + n)
  /\ T \in 0 .. Plein
  /\ M = g => T = Plein
  /\ M = 0 => T = 0

(* The sum of fewer than 100 roundings up does not reach a hundredth.      *)
LEMMA TotalBorne ==
  ASSUME NEW T \in Nat, NEW S \in Nat, NEW n \in Nat, n < 100,
         100 * T <= S + 50, 2 * S <= Echelle + n
  PROVE  T \in 0 .. Plein
<1>1. T <= 10000  BY SMT DEF Echelle
<1>2. QED  BY <1>1, SMT DEF Plein

(* The total is the sum of the contributions to a hundredth of a point; on *)
(* fewer than 100 of them their roundings cannot cost a hundredth.         *)
LEMMA TotalProche ==
  ASSUME NEW g \in Nat \ {0}, NEW S \in Nat, NEW M \in Nat, NEW n \in Nat, n < 100,
         Proches(g, S, M, n), NEW T, T = Centieme(S)
  PROVE  Exact(g, M, n, T)
<1>0. /\ (2 * g) * S <= Echelle * M + n * g
      /\ Echelle * M <= (2 * g) * S + n * g
      /\ M <= g
  BY DEF Proches
<1>1. T \in Nat /\ 100 * T <= S + 50 /\ S <= 100 * T + 49
  <2>1. S + 50 \in Nat  OBVIOUS
  <2>2. QED  BY <2>1 DEF Centieme
<1> DEFINE p == g * S
           u == g * T
           e == g * n
<1>2. /\ p \in Nat /\ u \in Nat /\ e \in Nat
      /\ (2 * g) * S = 2 * p /\ n * g = e /\ T * g = u /\ g * (100 + n) = 100 * g + e
  BY <1>1
<1>3. 2 * p <= 2000000 * M + e /\ 2000000 * M <= 2 * p + e  BY <1>0, <1>2, SMT DEF Echelle
<1>4. \A x, y \in Nat : x <= y => g * x <= g * y
  <2>1. SUFFICES ASSUME NEW x \in Nat, NEW y \in Nat, x <= y  PROVE g * x <= g * y  OBVIOUS
  <2>2. PICK d \in Nat : y = x + d
    <3>1. y - x \in Nat /\ y = x + (y - x)  BY <2>1
    <3>2. QED  BY <3>1
  <2>3. g * y = g * x + g * d /\ g * d \in Nat /\ g * x \in Nat  BY <2>2
  <2>4. QED  BY <2>3
<1>5. 100 * u <= p + 50 * g /\ p <= 100 * u + 49 * g
  <2>1. g * (100 * T) <= g * (S + 50) /\ g * S <= g * (100 * T + 49)
    <3>1. 100 * T \in Nat /\ S + 50 \in Nat /\ 100 * T + 49 \in Nat  BY <1>1
    <3>2. QED  BY <1>1, <1>4, <3>1
  <2>2. /\ g * (100 * T) = 100 * u /\ g * (S + 50) = p + 50 * g
        /\ g * (100 * T + 49) = 100 * u + 49 * g
    BY <1>1
  <2>3. QED  BY <2>1, <2>2
<1>6. ASSUME NEW x \in Nat, NEW y \in Nat, g * x <= g * y  PROVE x <= y
  <2>1. SUFFICES ASSUME y + 1 <= x  PROVE FALSE  OBVIOUS
  <2>2. g * (y + 1) <= g * x /\ g * (y + 1) = g * y + g /\ g * y \in Nat /\ g * x \in Nat
    BY <1>4, <2>1
  <2>3. QED  BY <1>6, <2>2
<1>7. 2 * S <= 2000000 + n
  <2>1. 2 * p <= 2000000 * g + e  BY <1>0, <1>2, <1>3
  <2>2. g * (2 * S) = 2 * p /\ g * (2000000 + n) = 2000000 * g + e  OBVIOUS
  <2>3. 2 * S \in Nat /\ 2000000 + n \in Nat  OBVIOUS
  <2>4. QED  BY <1>6, <2>1, <2>2, <2>3
<1>8. ASSUME M = g  PROVE 2000000 <= 2 * S + n
  <2>1. 2000000 * g <= 2 * p + e  BY <1>3, <1>8
  <2>2. g * (2 * S + n) = 2 * p + e /\ g * 2000000 = 2000000 * g  OBVIOUS
  <2>3. 2 * S + n \in Nat /\ 2000000 \in Nat  OBVIOUS
  <2>4. QED  BY <1>6, <2>1, <2>2, <2>3
<1>9. ASSUME M = 0  PROVE 2 * S <= n
  <2>1. 2 * p <= e  BY <1>2, <1>3, <1>9
  <2>2. g * (2 * S) = 2 * p /\ 2 * S \in Nat  OBVIOUS
  <2>3. QED  BY <1>6, <2>1, <2>2
<1> HIDE DEF p, u, e
<1>10. 200 * (u - 10000 * M) <= 100 * g + e /\ -200 * (u - 10000 * M) <= 100 * g + e
  <2>1. 200 * u <= 2000000 * M + 100 * g + e  BY <1>2, <1>3, <1>5, SMT
  <2>2. 2000000 * M <= 200 * u + 100 * g + e  BY <1>2, <1>3, <1>5, SMT
  <2>3. 200 * (u - 10000 * M) = 200 * u - 2000000 * M  BY <1>2, SMT
  <2>4. -200 * (u - 10000 * M) = 2000000 * M - 200 * u  BY <1>2, SMT
  <2>5. QED  BY <1>2, <2>1, <2>2, <2>3, <2>4, SMT
<1>11. T \in 0 .. Plein
  <2>1. 2 * S <= Echelle + n  BY <1>7, SMT DEF Echelle
  <2>2. QED  BY <1>1, <2>1, TotalBorne, Zenon
<1>12. M = g => T = Plein
  <2>1. M = g => T = 10000  BY <1>1, <1>7, <1>8, SMT
  <2>2. QED  BY <2>1, SMT DEF Plein
<1>13. M = 0 => T = 0  BY <1>1, <1>9, SMT
<1>14. 200 * (T * g - Plein * M) <= g * (100 + n) /\ -200 * (T * g - Plein * M) <= g * (100 + n)
  BY <1>2, <1>10, SMT DEF Plein
<1>15. QED  BY <1>11, <1>12, <1>13, <1>14, Zenon DEF Exact

(* The answers the program accepts.                                        *)
LEMMA Obtentions ==
  ASSUME NEW C, NEW criteres \in Seq([code: C, poids: Nat, max: Nat \ {0}]),
         NEW reponses, Notable(criteres, reponses), NEW i \in DOMAIN criteres
  PROVE  Obtenu(criteres[i], reponses) \in 0 .. criteres[i].max
<1>1. PICK j \in DOMAIN reponses : /\ reponses[j].code = criteres[i].code
                                   /\ reponses[j].obtenu \in 0 .. criteres[i].max
  BY DEF Notable
<1>2. \A k \in DOMAIN reponses : reponses[k].code = criteres[i].code => k = j
  BY <1>1 DEF Notable
<1>3. (CHOOSE k \in DOMAIN reponses : reponses[k].code = criteres[i].code) = j
  BY <1>1, <1>2
<1>4. QED  BY <1>1, <1>3 DEF Obtenu

\* The columns that a score is computed from.
Details(criteres, reponses) == [i \in DOMAIN criteres |-> Contribution(criteres, i, reponses)]
Poids(criteres)             == [i \in DOMAIN criteres |-> criteres[i].poids]
Termes(criteres, reponses, commun) ==
  [i \in DOMAIN criteres |->
     Obtenu(criteres[i], reponses) * criteres[i].poids * (commun \div criteres[i].max)]

(* A criterion of a model.                                                 *)
LEMMA CritereForme ==
  ASSUME NEW C, NEW criteres \in Seq([code: C, poids: Nat, max: Nat \ {0}])
  PROVE  /\ Len(criteres) \in Nat /\ DOMAIN criteres = 1 .. Len(criteres)
         /\ \A i \in DOMAIN criteres : criteres[i].poids \in Nat /\ criteres[i].max \in Nat \ {0}
         /\ Poids(criteres) \in [1 .. Len(criteres) -> Nat]
         /\ PoidsTotal(criteres) = Somme(Poids(criteres)) /\ PoidsTotal(criteres) \in Nat
<1>1. Len(criteres) \in Nat /\ DOMAIN criteres = 1 .. Len(criteres)  OBVIOUS
<1>2. \A i \in DOMAIN criteres : criteres[i].poids \in Nat /\ criteres[i].max \in Nat \ {0}
  <2> DEFINE R == [code: C, poids: Nat, max: Nat \ {0}]
  <2>1. criteres \in Seq(R)  OBVIOUS
  <2>2. \A i \in DOMAIN criteres : criteres[i] \in R
    <3> HIDE DEF R
    <3>1. QED  BY <2>1
  <2>3. QED  BY <2>2
<1>3. Poids(criteres) \in [1 .. Len(criteres) -> Nat]  BY <1>1, <1>2 DEF Poids
<1>4. PoidsTotal(criteres) = Somme(Poids(criteres))  BY DEF PoidsTotal, Poids
<1>5. Somme(Poids(criteres)) \in Nat  BY <1>1, <1>3, SommePas
<1>6. QED  BY <1>1, <1>2, <1>3, <1>4, <1>5

(* The contributions and the terms of the mean, row by row, then summed.   *)
LEMMA SommesProches ==
  ASSUME NEW C, NEW criteres \in Seq([code: C, poids: Nat, max: Nat \ {0}]),
         NEW reponses, Notable(criteres, reponses),
         NEW commun \in Nat \ {0}, EstCommun(commun, criteres),
         NEW g, g = commun * PoidsTotal(criteres),
         NEW S, S = Somme(Details(criteres, reponses)),
         NEW M, M = Moyenne(criteres, reponses, commun),
         NEW n, n = Len(criteres)
  PROVE  /\ Details(criteres, reponses) \in [1 .. n -> Nat]
         /\ g \in Nat \ {0} /\ S \in Nat /\ M \in Nat /\ n \in Nat
         /\ Proches(g, S, M, n)
<1> DEFINE d == Details(criteres, reponses)
           t == Termes(criteres, reponses, commun)
           p == Poids(criteres)
           P == PoidsTotal(criteres)
<1>1. /\ n \in Nat /\ DOMAIN criteres = 1 .. n
      /\ \A i \in 1 .. n : criteres[i].poids \in Nat /\ criteres[i].max \in Nat \ {0}
      /\ p \in [1 .. n -> Nat] /\ P = Somme(p) /\ P \in Nat
  BY CritereForme
<1>2. P > 0  BY DEF Notable
<1>3. g \in Nat \ {0}
  <2>1. g = commun * P /\ commun \in Nat /\ commun > 0  OBVIOUS
  <2> HIDE DEF P
  <2>2. commun * P > 0 /\ commun * P \in Nat  BY <1>1, <1>2, <2>1
  <2>3. QED  BY <2>1, <2>2
<1>4. ASSUME NEW i \in 1 .. n
      PROVE  /\ d[i] \in Nat /\ t[i] \in Nat
             /\ (2 * g) * d[i] <= Echelle * t[i] + g
             /\ Echelle * t[i] <= (2 * g) * d[i] + g
             /\ t[i] <= commun * p[i]
  <2> DEFINE x == Obtenu(criteres[i], reponses)
             q == criteres[i].poids
             m == criteres[i].max
  <2>1. x \in 0 .. m  BY <1>1, Obtentions
  <2>2. q \in Nat /\ m \in Nat \ {0}  BY <1>1
  <2>3. commun % m = 0  BY <1>1 DEF EstCommun
  <2>4. /\ d[i] = Millioniemes(x * q, m * P)
        /\ t[i] = x * q * (commun \div m)
        /\ p[i] = q
    BY <1>1 DEF Details, Contribution, Termes, Poids
  <2>5. P \in Nat \ {0} /\ g = commun * P  BY <1>1, <1>2
  <2> HIDE DEF x, q, m, d, t, p, P
  <2>6. x \in Nat /\ x <= m  BY <2>1, <2>2
  <2>7. /\ Millioniemes(x * q, m * P) \in Nat
        /\ x * q * (commun \div m) \in Nat
        /\ (2 * (commun * P)) * Millioniemes(x * q, m * P)
             <= Echelle * (x * q * (commun \div m)) + commun * P
        /\ Echelle * (x * q * (commun \div m))
             <= (2 * (commun * P)) * Millioniemes(x * q, m * P) + commun * P
        /\ x * q * (commun \div m) <= commun * q
    BY <2>2, <2>3, <2>5, <2>6, ContributionProche, Zenon
  <2>8. QED  BY <2>4, <2>5, <2>7, Zenon
<1>5. d \in [1 .. n -> Nat] /\ t \in [1 .. n -> Nat]
  <2>1. \A i \in 1 .. n : d[i] \in Nat /\ t[i] \in Nat  BY <1>4
  <2>2. QED  BY <1>1, <2>1 DEF Details, Termes
<1>6. S = Somme(d) /\ M = Somme(t)  BY DEF Moyenne, Termes
<1> HIDE DEF d, t, p, P
<1>7. S \in Nat /\ M \in Nat
  <2>1. \A f \in [1 .. n -> Nat] : Somme(f) \in Nat  BY <1>1, SommePas
  <2>2. QED  BY <1>5, <1>6, <2>1
<1>8. g \in Int /\ 2 * g \in Int /\ Echelle \in Int /\ commun \in Int  BY <1>3 DEF Echelle
<1>9. (2 * g) * S <= Echelle * M + n * g
  BY <1>1, <1>4, <1>5, <1>6, <1>8, SommeEncadree
<1>10. Echelle * M <= (2 * g) * S + n * g
  BY <1>1, <1>4, <1>5, <1>6, <1>8, SommeEncadree
<1>11. M <= g
  <2>1. \A i \in 1 .. n : 1 * t[i] <= commun * p[i] + 0
    <3>1. SUFFICES ASSUME NEW i \in 1 .. n  PROVE 1 * t[i] <= commun * p[i] + 0  OBVIOUS
    <3>2. PICK a \in Nat, b \in Nat : a = t[i] /\ b = p[i]
      <4>1. t[i] \in Nat  BY <1>4
      <4>2. p[i] \in Nat  BY <1>1
      <4>3. QED  BY <4>1, <4>2
    <3>3. a <= commun * b  BY <1>4, <3>2
    <3>4. 1 * a <= commun * b + 0
      <4>1. PICK c \in Nat : c = commun * b  OBVIOUS
      <4>2. QED  BY <3>3, <4>1
    <3>5. QED  BY <3>2, <3>4
  <2>2. 1 * Somme(t) <= commun * Somme(p) + n * 0
    <3>1. 1 \in Int /\ 0 \in Int  OBVIOUS
    <3>2. QED  BY <1>1, <1>5, <1>8, <2>1, <3>1, SommeEncadree
  <2>3. g = commun * P  BY DEF P
  <2>4. QED  BY <1>1, <1>6, <1>7, <2>2, <2>3
<1>12. QED  BY <1>1, <1>3, <1>5, <1>7, <1>9, <1>10, <1>11 DEF d, Proches

(* One more is more.                                                       *)
LEMMA Suivant == \A v \in Nat : v + 1 \in Nat /\ v <= v + 1 /\ v <= v
  OBVIOUS

(* One more point to an answer lowers no criterion.                        *)
LEMMA ObtentionCroit ==
  ASSUME NEW C, NEW criteres \in Seq([code: C, poids: Nat, max: Nat \ {0}]),
         NEW reponses \in Seq([code: C, obtenu: Nat]), Notable(criteres, reponses),
         NEW j \in DOMAIN reponses,
         NEW r, r = [reponses EXCEPT ![j].obtenu = @ + 1],
         NEW i \in DOMAIN criteres
  PROVE  /\ Obtenu(criteres[i], reponses) \in Nat
         /\ Obtenu(criteres[i], r) \in Nat
         /\ Obtenu(criteres[i], reponses) <= Obtenu(criteres[i], r)
<1>1. \A k \in DOMAIN reponses : reponses[k] \in [code: C, obtenu: Nat]
  <2> DEFINE R == [code: C, obtenu: Nat]
  <2>1. reponses \in Seq(R)  OBVIOUS
  <2> HIDE DEF R
  <2>2. \A k \in DOMAIN reponses : reponses[k] \in R  BY <2>1
  <2>3. QED  BY <2>2 DEF R
<1>2. /\ DOMAIN r = DOMAIN reponses
      /\ \A k \in DOMAIN reponses :
           r[k] = IF k = j THEN [reponses[k] EXCEPT !.obtenu = @ + 1] ELSE reponses[k]
  OBVIOUS
<1>3. \A k \in DOMAIN reponses :
        /\ r[k].code = reponses[k].code
        /\ reponses[k].obtenu \in Nat /\ r[k].obtenu \in Nat
        /\ reponses[k].obtenu <= r[k].obtenu
  <2>1. SUFFICES ASSUME NEW k \in DOMAIN reponses
                 PROVE  /\ r[k].code = reponses[k].code
                        /\ reponses[k].obtenu \in Nat /\ r[k].obtenu \in Nat
                        /\ reponses[k].obtenu <= r[k].obtenu
    OBVIOUS
  <2>2. PICK x \in [code: C, obtenu: Nat] : x = reponses[k]  BY <1>1, <2>1
  <2>3. r[k] = IF k = j THEN [x EXCEPT !.obtenu = @ + 1] ELSE x  BY <1>2, <2>1, <2>2
  <2>4. x.obtenu \in Nat  BY <2>2
  <2>5. [x EXCEPT !.obtenu = @ + 1].code = x.code
        /\ [x EXCEPT !.obtenu = @ + 1].obtenu = x.obtenu + 1
    BY <2>2
  <2>6. r[k].code = x.code /\ (r[k].obtenu = x.obtenu + 1 \/ r[k].obtenu = x.obtenu)
    BY <2>3, <2>5, Zenon
  <2>a. PICK v \in Nat : v = x.obtenu  BY <2>4
  <2>b. PICK w : w = r[k].obtenu  OBVIOUS
  <2>7. v = x.obtenu /\ w = r[k].obtenu  BY <2>a, <2>b, Zenon
  <2>8. w \in Nat /\ v <= w
    <3>1. w = v + 1 \/ w = v  BY <2>6, <2>7, Zenon
    <3>2. v \in Nat  BY <2>a
    <3>3. v + 1 \in Nat /\ v <= v + 1 /\ v <= v  BY <3>2, Suivant, Zenon
    <3>4. QED  BY <3>1, <3>2, <3>3, Zenon
  <2>9. QED  BY <2>2, <2>6, <2>7, <2>8, Zenon
<1>4. PICK n \in DOMAIN reponses : reponses[n].code = criteres[i].code  BY DEF Notable
<1>5. \A k \in DOMAIN reponses : reponses[k].code = criteres[i].code => k = n
  BY <1>4 DEF Notable
<1>6. (CHOOSE k \in DOMAIN reponses : reponses[k].code = criteres[i].code) = n
  BY <1>4, <1>5
<1>7. (CHOOSE k \in DOMAIN r : r[k].code = criteres[i].code) = n
  BY <1>2, <1>3, <1>4, <1>5
<1>8. Obtenu(criteres[i], reponses) = reponses[n].obtenu /\ Obtenu(criteres[i], r) = r[n].obtenu
  BY <1>6, <1>7 DEF Obtenu
<1>9. QED  BY <1>3, <1>4, <1>8

(* ... nor its contribution ...                                            *)
LEMMA ContributionCroit ==
  ASSUME NEW x \in Nat, NEW y \in Nat, x <= y, NEW q \in Nat,
         NEW m \in Nat \ {0}, NEW P \in Nat \ {0}
  PROVE  /\ Millioniemes(x * q, m * P) \in Nat /\ Millioniemes(y * q, m * P) \in Nat
         /\ Millioniemes(x * q, m * P) <= Millioniemes(y * q, m * P)
<1>1. x * q \in Nat /\ y * q \in Nat /\ x * q <= y * q
  <2>1. PICK k \in Nat : y = x + k
    <3>1. y - x \in Nat /\ y = x + (y - x)  OBVIOUS
    <3>2. QED  BY <3>1
  <2>2. y * q = x * q + k * q /\ k * q \in Nat /\ x * q \in Nat  BY <2>1
  <2>3. QED  BY <2>2
<1>2. m * P \in Nat \ {0}
  <2>1. m \in Nat /\ m > 0 /\ P \in Nat /\ P > 0  OBVIOUS
  <2>2. m * P > 0 /\ m * P \in Nat  BY <2>1
  <2>3. QED  BY <2>2
<1>3. PICK a \in Nat, c \in Nat, b \in Nat \ {0} : a = x * q /\ c = y * q /\ b = m * P
  BY <1>1, <1>2
<1>4. /\ Millioniemes(a, b) \in Nat /\ Millioniemes(c, b) \in Nat
      /\ Millioniemes(a, b) <= Millioniemes(c, b)
  BY <1>1, <1>3, MillioniemesCroissants
<1>5. QED  BY <1>3, <1>4

(* ... so that the sum of the contributions does not shrink.               *)
LEMMA SommeCroit ==
  ASSUME NEW C, NEW criteres \in Seq([code: C, poids: Nat, max: Nat \ {0}]),
         NEW reponses \in Seq([code: C, obtenu: Nat]), Notable(criteres, reponses),
         NEW j \in DOMAIN reponses,
         NEW r, r = [reponses EXCEPT ![j].obtenu = @ + 1]
  PROVE  /\ Somme(Details(criteres, reponses)) \in Nat
         /\ Somme(Details(criteres, r)) \in Nat
         /\ Somme(Details(criteres, reponses)) <= Somme(Details(criteres, r))
<1> DEFINE n == Len(criteres)
           P == PoidsTotal(criteres)
           d == Details(criteres, reponses)
           e == Details(criteres, r)
<1>1. /\ n \in Nat /\ DOMAIN criteres = 1 .. n
      /\ \A i \in 1 .. n : criteres[i].poids \in Nat /\ criteres[i].max \in Nat \ {0}
      /\ P \in Nat
  BY CritereForme
<1>2. P \in Nat \ {0}  BY <1>1 DEF Notable
<1>3. ASSUME NEW i \in 1 .. n
      PROVE  d[i] \in Nat /\ e[i] \in Nat /\ d[i] <= e[i]
  <2> DEFINE x == Obtenu(criteres[i], reponses)
             y == Obtenu(criteres[i], r)
             q == criteres[i].poids
             m == criteres[i].max
  <2>1. x \in Nat /\ y \in Nat /\ x <= y  BY <1>1, ObtentionCroit
  <2>2. q \in Nat /\ m \in Nat \ {0}  BY <1>1
  <2>3. d[i] = Millioniemes(x * q, m * P) /\ e[i] = Millioniemes(y * q, m * P)
    BY <1>1 DEF Details, Contribution
  <2>4. P \in Nat \ {0}  BY <1>2
  <2> HIDE DEF x, y, q, m, P, d, e
  <2>5. /\ Millioniemes(x * q, m * P) \in Nat /\ Millioniemes(y * q, m * P) \in Nat
        /\ Millioniemes(x * q, m * P) <= Millioniemes(y * q, m * P)
    BY <2>1, <2>2, <2>4, ContributionCroit, Zenon
  <2>6. QED  BY <2>3, <2>5, Zenon
<1>4. d \in [1 .. n -> Nat] /\ e \in [1 .. n -> Nat]
  <2>1. \A i \in 1 .. n : d[i] \in Nat /\ e[i] \in Nat  BY <1>3
  <2>2. QED  BY <1>1, <2>1 DEF Details
<1> HIDE DEF n, P, d, e
<1>5. Somme(d) \in Nat /\ Somme(e) \in Nat
  <2>1. \A f \in [1 .. n -> Nat] : Somme(f) \in Nat  BY <1>1, SommePas
  <2>2. QED  BY <1>4, <2>1
<1>6. 1 * Somme(d) <= 1 * Somme(e) + n * 0
  <2>1. \A i \in 1 .. n : 1 * d[i] <= 1 * e[i] + 0  BY <1>3
  <2>2. 1 \in Int /\ 0 \in Int  OBVIOUS
  <2>3. QED  BY <1>1, <1>4, <2>1, <2>2, SommeEncadree
<1>7. Somme(d) <= Somme(e)  BY <1>1, <1>5, <1>6
<1>8. QED  BY <1>5, <1>7 DEF d, e

(* The total and the class of risk follow the sum.                         *)
LEMMA TotalCroit ==
  ASSUME NEW S \in Nat, NEW R \in Nat, S <= R
  PROVE  Centieme(R) >= Centieme(S)
         /\ ClassifyScore(Centieme(R)) >= ClassifyScore(Centieme(S))
<1>1. Centieme(S) \in Nat /\ Centieme(R) \in Nat /\ Centieme(S) <= Centieme(R)
  BY SMT DEF Centieme
<1>2. PICK a \in Nat, b \in Nat : a = Centieme(S) /\ b = Centieme(R)  BY <1>1
<1>3. ClassifyScore(b) >= ClassifyScore(a)  BY <1>1, <1>2, SMT DEF ClassifyScore
<1>4. QED  BY <1>1, <1>2, <1>3

(* The score of any dossier, on any grid of fewer than 100 criteria, is    *)
(* the weighted mean of its answers: scoring-policy.js, where contributions *)
(* are rounded one by one before they are added.                           *)
THEOREM NoteTheorem ==
  ASSUME NEW C, NEW criteres \in Seq([code: C, poids: Nat, max: Nat \ {0}]),
         NEW reponses \in Seq([code: C, obtenu: Nat]), Notable(criteres, reponses),
         NEW commun \in Nat \ {0}, EstCommun(commun, criteres), Len(criteres) < 100
  PROVE  NoteDe(criteres, reponses, commun)
<1> DEFINE S == Somme(Details(criteres, reponses))
           M == Moyenne(criteres, reponses, commun)
           g == commun * PoidsTotal(criteres)
           n == Len(criteres)
           T == CalculateScore(criteres, reponses).total
           r(j) == [reponses EXCEPT ![j].obtenu = @ + 1]
<1>1. /\ g \in Nat \ {0} /\ S \in Nat /\ M \in Nat /\ n \in Nat
      /\ Proches(g, S, M, n)
  <2>1. PICK g1, S1, M1, n1 : g1 = g /\ S1 = S /\ M1 = M /\ n1 = n  OBVIOUS
  <2>2. QED  BY <2>1, SommesProches
<1>2. ASSUME NEW s  PROVE CalculateScore(criteres, s).total = Centieme(Somme(Details(criteres, s)))
  BY DEF CalculateScore, Details
<1>3. T = Centieme(S)  BY <1>2
<1>4. Exact(g, M, n, T)
  <2>1. n < 100  OBVIOUS
  <2> HIDE DEF S, M, g, n, T
  <2>2. QED  BY <1>1, <1>3, <2>1, TotalProche, Zenon
<1>5. ASSUME NEW j \in DOMAIN reponses
      PROVE  /\ CalculateScore(criteres, r(j)).total >= T
             /\ ClassifyScore(CalculateScore(criteres, r(j)).total) >= ClassifyScore(T)
  <2>1. PICK s : s = r(j)  OBVIOUS
  <2>2. /\ S \in Nat /\ Somme(Details(criteres, s)) \in Nat
        /\ S <= Somme(Details(criteres, s))
    BY <2>1, SommeCroit
  <2>3. PICK R \in Nat : R = Somme(Details(criteres, s))  BY <2>2
  <2>4. CalculateScore(criteres, s).total = Centieme(R)  BY <1>2, <2>3
  <2> HIDE DEF S, T, r
  <2>5. Centieme(R) >= Centieme(S) /\ ClassifyScore(Centieme(R)) >= ClassifyScore(Centieme(S))
    BY <2>2, <2>3, TotalCroit
  <2>6. QED  BY <1>3, <2>1, <2>4, <2>5
<1>6. NoteDe(criteres, reponses, commun)
      <=> /\ Exact(g, M, n, T)
          /\ \A j \in DOMAIN reponses :
               Notable(criteres, r(j)) =>
                 /\ CalculateScore(criteres, r(j)).total >= T
                 /\ ClassifyScore(CalculateScore(criteres, r(j)).total) >= ClassifyScore(T)
  BY Zenon DEF NoteDe, Exact
<1> HIDE DEF S, M, g, n, T, r
<1>7. QED  BY <1>4, <1>5, <1>6, Zenon

=============================================================================
