------------------------------ MODULE Lectures ------------------------------
(***************************************************************************)
(* What each actor is shown of the dossier of module Dossier: the agents'  *)
(* worklists, the committee's agenda, the applications the Direction may   *)
(* finance, the figures of the dashboard, the notifications that triggers  *)
(* write, and the schedule of the financing.  Reads write nothing and are  *)
(* operators; a list is the question whether this dossier is in it, since  *)
(* every list filters its rows one by one.                                 *)
(***************************************************************************)
EXTENDS Dossier, FiniteSets

CONSTANTS
  Durees,   \* dureeMois the committee may grant
  Taux,     \* rates, in ten-thousandths of a percent
  Dates     \* dateDebut of a financing

\* What the DTO of a decision and parseIsoDate accept.
ASSUME LecturesAssumption ==
  /\ Taux \subseteq TauxAcceptes /\ Durees \subseteq DureesAcceptees
  /\ Dates \subseteq [an: Nat, mois: 1 .. 12, jour: 1 .. 31]
  /\ \A d \in Dates : DateCorrecte(d)

-----------------------------------------------------------------------------
(* The agents.                                                             *)

Vues == {"A_PRENDRE", "MES_DOSSIERS", "COMPLEMENTS", "PRET_COMITE", "HISTORIQUE"}

EnMain == {"EN_INSTRUCTION", "COMPLEMENT_REQUIS"}

ATraite(user) == \E i \in DOMAIN historique : historique[i].par = user

\* AgentApplicationsRepository.list, by view.
ListeAgent(vue, user) ==
  \/ vue = "A_PRENDRE"    /\ statut = "SOUMIS" /\ agent = Personne
  \/ vue = "MES_DOSSIERS" /\ agent = user /\ statut \in EnMain
  \/ vue = "COMPLEMENTS"  /\ agent = user /\ statut = "COMPLEMENT_REQUIS"
  \/ vue = "PRET_COMITE"  /\ agent = user /\ statut = "PRET_COMITE"
  \/ vue = "HISTORIQUE"   /\ ATraite(user) /\ statut \notin EnMain

\* summary: the views whose counter this dossier is in, by another query.
SommaireAgent(user) ==
  {vue \in Vues :
     /\ vue = "A_PRENDRE"    => statut = "SOUMIS" /\ agent = Personne
     /\ vue = "MES_DOSSIERS" => agent = user /\ statut \in EnMain
     /\ vue = "COMPLEMENTS"  => agent = user /\ statut = "COMPLEMENT_REQUIS"
     /\ vue = "PRET_COMITE"  => agent = user /\ statut = "PRET_COMITE"
     /\ vue = "HISTORIQUE"   => statut \notin EnMain /\ ATraite(user)}

\* get: 403 is the empty set.
FicheAgent(user) ==
  IF CanRead(user)
  THEN {[statut |-> statut, agent |-> agent, historique |-> historique, score |-> score]}
  ELSE {}

-----------------------------------------------------------------------------
(* The committee.                                                          *)

ListeComite(vue) ==
  \/ vue = "ORDRE_DU_JOUR" /\ statut = "PRET_COMITE"
  \/ vue = "HISTORIQUE"    /\ decisions # <<>>

Rendues(decision) == Cardinality({i \in DOMAIN decisions : decisions[i].decision = decision})

SommaireComite ==
  [aStatuer    |-> IF statut = "PRET_COMITE" THEN 1 ELSE 0,
   total       |-> Len(decisions),
   approuves   |-> Rendues("APPROUVE"),
   rejetes     |-> Rendues("REJETE"),
   complements |-> Rendues("COMPLEMENT_REQUIS")]

FicheComite ==
  [statut |-> statut, score |-> score, decisions |-> decisions, historique |-> historique]

-----------------------------------------------------------------------------
(* The Direction: what can be financed, and the view vw_dossier_portfolio. *)

DecisionCourante == IF decisions = <<>> THEN "AUCUNE" ELSE Derniere.decision

ListEligibleApplications ==
  /\ statut = "APPROUVE"
  /\ DecisionCourante = "APPROUVE"
  /\ Derniere.montant > 0
  /\ financements = <<>>

\* The counters of the dashboard this dossier is in.
Kpis ==
  {k \in {"actifs", "deposes", "enInstruction", "approuves", "rejetes"} :
     /\ k = "actifs"        => statut \in Reclamables \cup {"PRET_COMITE"}
     /\ k = "deposes"       => statut # "BROUILLON"
     /\ k = "enInstruction" => statut \in EnMain
     /\ k = "approuves"     => DecisionCourante = "APPROUVE"
     /\ k = "rejetes"       => DecisionCourante = "REJETE"}

\* Sums of the same view.
MontantApprouve == IF DecisionCourante = "APPROUVE" THEN Derniere.montant ELSE 0

\* The group of the pipeline it is counted in.
Pipeline == statut

-----------------------------------------------------------------------------
(* dossier_notification_trigger: who is told of a new status.  The key of  *)
(* a notification is the dossier and the status: the second time, ON       *)
(* CONFLICT DO NOTHING.                                                    *)

Destinataires(nouveau) ==
  IF nouveau = "SOUMIS" THEN {"AGENT_FODIP"}
  ELSE IF nouveau = "PRET_COMITE" THEN {"COMITE_FINANCEMENT", "ENTREPRENEUR_PME"}
  ELSE IF nouveau \in Decisions THEN {"ENTREPRENEUR_PME"} ELSE {}

\* ListOwn of the users of a role: the statuses they were told of.
NotificationsDe(role) ==
  {historique[i].nouveau : i \in {j \in DOMAIN historique : role \in Destinataires(historique[j].nouveau)}}

-----------------------------------------------------------------------------
(* The screens: the calls that a page, as freshly loaded, lets its user    *)
(* send.  They are written next to the API's own checks, not from them.    *)

\* agent/dossiers: "Prendre et instruire" or "Ouvrir", which claims nothing.
OpenDossier(user) ==
  {d \in Demandes : d.op = "claim" /\ d.user = user /\ statut = "SOUMIS" /\ agent = Personne}

\* agent/dossiers/[id]: "Prendre en charge".
BoutonClaim(user) == {d \in Demandes : d.op = "claim" /\ d.user = user /\ agent = Personne}

\* canInstruct is Boolean(agentResponsableId): someone is in charge.
CanInstruct == agent # Personne

\* The three options of the form, whatever the status.
FormulaireReview(user) == {d \in Demandes : d.op = "review" /\ d.user = user /\ CanInstruct}

FormulaireScore(user) ==
  {d \in Demandes : /\ d.op = "calculate" /\ d.user = user
                    /\ statut = "EN_INSTRUCTION" /\ CanInstruct}

\* What the page offers once it is loaded, which takes both its requests.
EcranAgent(user) ==
  IF FicheAgent(user) = {} THEN {}
  ELSE BoutonClaim(user) \cup FormulaireReview(user) \cup FormulaireScore(user)

\* comite/dossiers/[id]: what its fields let through.  The terms are not sent
\* with another decision, whose comment has a minLength, counted as it is typed.
ChampsRemplis(decision, a) ==
  IF decision = "APPROUVE"
  THEN a.duree \in DureesAcceptees /\ a.taux \in TauxAcceptes /\ a.differe \in 0 .. a.duree
  ELSE a.longueur >= 3 /\ a.duree = 0 /\ a.taux = 0 /\ a.differe = 0

\* The amount field goes from 1 to montantDemande.
EcranComite ==
  {d \in Demandes : /\ d.op = "decide"
                    /\ statut = "PRET_COMITE"
                    /\ ChampsRemplis(d.decision, d.avis)
                    /\ IF d.decision = "APPROUVE" THEN d.montant \in 1..montant ELSE d.montant = 0}

\* entrepreneur/suivi: "Soumettre".
BoutonSoumettre == statut = "BROUILLON"

-----------------------------------------------------------------------------
(* The schedule written with the financing.                                *)

Plans == {<<m, t, d, s>> : m \in Montants, t \in Taux, d \in Durees, s \in Dates}

PlansCorrects ==
  {p \in Plans : Acceptable(p[1], p[2], p[3]) /\ EcheancierDe(p[1], p[2], p[3], p[4])}

-----------------------------------------------------------------------------
(* Properties.                                                             *)

\* The comments the committee's form sends and the API answers 400: too long, or
\* a reason made of spaces.
CommentaireRefuse(d) ==
  d.avis.longueur > TexteMax \/ (d.decision # "APPROUVE" /\ d.avis.utile < 3)

\* Whose turn it is, by status.
Attendus ==
  IF statut = "SOUMIS" THEN {"AGENT_FODIP"}
  ELSE IF statut = "PRET_COMITE" THEN {"COMITE_FINANCEMENT"}
  ELSE IF statut \in Decisions THEN {"ENTREPRENEUR_PME"} ELSE {}

(* No submitted dossier falls between two worklists.  An open one is on    *)
(* offer to every agent, or in the hands of exactly one, who can open it,  *)
(* or on the agenda of the committee, which can decide it; an approved one *)
(* is either offered for financing or financed; a decided one is in both   *)
(* histories; and whoever it waits for was told of it.                     *)
JamaisPerdu ==
  statut # "BROUILLON" =>
    LET offert   == \A u \in Agents : ListeAgent("A_PRENDRE", u)
        enMains  == {u \in Agents : ListeAgent("MES_DOSSIERS", u)}
        remis    == {u \in Agents : ListeAgent("PRET_COMITE", u)}
        inscrit  == ListeComite("ORDRE_DU_JOUR")
        clos     == statut \in {"APPROUVE", "REJETE"}
    IN  /\ (IF offert THEN 1 ELSE 0) + Cardinality(enMains) + (IF inscrit THEN 1 ELSE 0)
             = (IF clos THEN 0 ELSE 1)
        /\ inscrit => Cardinality(remis) = 1 /\ FicheComite.score # Absent
        /\ statut = "APPROUVE" => (ListEligibleApplications <=> financements = <<>>)
        /\ clos => /\ ListeComite("HISTORIQUE")
                   /\ \E u \in Agents : agent = u /\ ListeAgent("HISTORIQUE", u)
        /\ \A role \in Attendus : statut \in NotificationsDe(role)

(* Every line of an agent's worklist opens, the counters of the tabs count *)
(* what the views list, and nobody is shown a dossier to act on without a  *)
(* button that works: the screen of whoever's turn it is offers a call     *)
(* the API admits and whose statement matches the row; of the calls of the *)
(* committee's form it refuses exactly those whose comment is too long or  *)
(* made of spaces, and every decision can be sent with any terms and       *)
(* comment that its fields let through; no other screen but the agents'    *)
(* forms, open to every reader of a dossier that has its agent, offers a   *)
(* call that must be refused (a super administrator who opens a draft      *)
(* apart).  The wording of an agent's review and the answers of a scoring  *)
(* are not part of the calls.                                              *)
ListeOuvrable ==
  /\ \A u \in Agents, vue \in Vues :
       /\ ListeAgent(vue, u) => FicheAgent(u) # {}
       /\ vue \in SommaireAgent(u) <=> ListeAgent(vue, u)
  /\ \A u \in Agents :
       /\ ListeAgent("A_PRENDRE", u) => OpenDossier(u) \cap BoutonClaim(u) # {}
       /\ \A d \in EcranAgent(u) : d.op = "claim" /\ statut # "BROUILLON" => Admise(d) /\ ClaimWhere(u)
       /\ ListeAgent("MES_DOSSIERS", u) =>
            \E d \in EcranAgent(u) : Admise(d) /\ TransitionWhere(u, statut)
       /\ statut = "EN_INSTRUCTION" /\ agent = u =>
            \A d \in EcranAgent(u) : d.op = "calculate" => Admise(d)
  /\ \A d \in EcranComite : Admise(d) <=> ~CommentaireRefuse(d)
  /\ ListeComite("ORDRE_DU_JOUR") =>
       LET ecran == EcranComite
       IN  \A choix \in Decisions, a \in Avis :
             ChampsRemplis(choix, a) => \E d \in ecran : d.decision = choix /\ d.avis = a
  /\ BoutonSoumettre <=> historique = <<>>

(* The figures agree although some follow the status and some the last     *)
(* decision: a submitted dossier is active, approved or rejected, and one  *)
(* of them only; the committee's count of approvals is the dashboard's;    *)
(* the amount approved is there for the approved ones; and the pipeline    *)
(* groups it likewise.                                                     *)
TableauAccorde ==
  /\ "deposes" \in Kpis <=>
       Cardinality(Kpis \cap {"actifs", "approuves", "rejetes"}) = 1
  /\ Cardinality(Kpis \cap {"actifs", "approuves", "rejetes"}) <= 1
  /\ SommaireComite.approuves = (IF "approuves" \in Kpis THEN 1 ELSE 0)
  /\ SommaireComite.rejetes = (IF "rejetes" \in Kpis THEN 1 ELSE 0)
  /\ SommaireComite.total =
       SommaireComite.approuves + SommaireComite.rejetes + SommaireComite.complements
  /\ MontantApprouve > 0 <=> Pipeline = "APPROUVE"
  /\ "enInstruction" \in Kpis => SommaireComite.aStatuer = 0

(* The schedule inserted with the financing pays back the amount approved  *)
(* to the centime, on dates that exist, whatever the duration, the rate    *)
(* and the first date.                                                     *)
EcheancierExact ==
  \A i \in DOMAIN financements : \A t \in Taux, d \in Durees, s \in Dates :
    <<financements[i], t, d, s>> \in PlansCorrects
=============================================================================
