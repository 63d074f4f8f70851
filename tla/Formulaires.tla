---------------------------- MODULE Formulaires ----------------------------
(***************************************************************************)
(* The money forms of the Direction and partner portals (planDisbursement, *)
(* createRepayment, declareDisbursement, declareRepayment, createEntry) in *)
(* front of IdempotencyService.run: who draws an Idempotency-Key, when it  *)
(* is drawn again, and what the page does with an answer that comes late,  *)
(* twice or never.                                                         *)
(*                                                                         *)
(* A call is <<key, payload, occurrence>>.  An intention is one payment    *)
(* the user pursues until a success is shown; the bounds are the constants *)
(* Cles (keys drawn), MaxEnvois (requests sent) and MaxIntentions.         *)
(***************************************************************************)
EXTENDS Idempotency, FiniteSets

CONSTANTS MaxEnvois, MaxIntentions

ASSUME FormulairesAssumption ==
  /\ Cles \subseteq Nat /\ Cles = 1..Cardinality(Cles)
  /\ MaxEnvois \in Nat /\ MaxIntentions \in Nat \ {0}

VARIABLES
  cle,        \* useState(() => crypto.randomUUID())
  montant,    \* the amount field; Rien when empty
  intention,  \* the payment the user is after
  envois,     \* each call: "neuf", "enVol", "recue", "perdue"
  voulu,      \* the intention a call was sent for
  troublees   \* intentions whose key was drawn again before a success of theirs

pageVars == <<cle, montant, intention, envois, voulu, troublees>>
formVars == <<vars, pageVars>>

Charges == {ChargeDe[c] : c \in Appels}

InitF ==
  /\ Init
  /\ cle = 1 /\ montant = Rien /\ intention = 1
  /\ envois = [c \in Appels |-> "neuf"]
  /\ voulu = [c \in Appels |-> 0]
  /\ troublees = {}

\* setDisbursementAmount / setRepaymentAmount of the input.
Saisir(h) ==
  /\ intention <= MaxIntentions
  /\ montant # h
  /\ montant' = h
  /\ UNCHANGED <<vars, cle, intention, envois, voulu, troublees>>

\* The form is sent with the key and the amount of the last render, whether or
\* not an earlier request is still in flight: a double click sends two.
Soumettre ==
  /\ montant # Rien
  /\ Cardinality({c \in Appels : envois[c] # "neuf"}) < MaxEnvois
  /\ LET libres == {c \in Appels : /\ envois[c] = "neuf"
                                   /\ CleDe[c] = cle
                                   /\ ChargeDe[c] = montant}
     IN  \E c \in libres : /\ \A d \in libres : c[3] <= d[3]
                            /\ envois' = [envois EXCEPT ![c] = "enVol"]
                            /\ voulu' = [voulu EXCEPT ![c] = intention]
  /\ UNCHANGED <<vars, cle, montant, intention, troublees>>

\* Mutant: a success keeps the key.
RenouvelerJamais == UNCHANGED cle

\* setDisbursementKey(crypto.randomUUID()).
Renouveler == cle + 1 \in Cles /\ cle' = cle + 1

\* The state setters after a success: the field is emptied and the key drawn
\* again, whichever submission the answer belongs to.
Reussite(c) ==
  /\ montant' = Rien
  /\ Renouveler
  /\ IF voulu[c] = intention
     THEN intention' = intention + 1 /\ UNCHANGED troublees
     ELSE troublees' = troublees \cup {intention} /\ UNCHANGED intention

\* if (done) { setDisbursementAmount(''); setDisbursementKey(...) }.
RecevoirOk(c) ==
  /\ envois[c] = "enVol" /\ pc[c] = "ok"
  /\ envois' = [envois EXCEPT ![c] = "recue"]
  /\ Reussite(c)
  /\ UNCHANGED <<vars, voulu>>

\* Mutant: a refused attempt draws a new key.
RecevoirEchecRenouvelle(c) ==
  /\ envois[c] = "enVol" /\ pc[c] \in {"conflict", "error"}
  /\ envois' = [envois EXCEPT ![c] = "perdue"]
  /\ Renouveler
  /\ UNCHANGED <<vars, montant, intention, voulu, troublees>>

\* !response.ok: the message is shown, the key and the field are kept.
RecevoirEchec(c) ==
  /\ envois[c] = "enVol" /\ pc[c] \in {"conflict", "error"}
  /\ envois' = [envois EXCEPT ![c] = "perdue"]
  /\ UNCHANGED <<vars, cle, montant, intention, voulu, troublees>>

\* fetch rejects, or the proxy answers for an API that stopped; the request may
\* still be executed, or be executing.
RecevoirPerdu(c) ==
  /\ envois[c] = "enVol"
  /\ envois' = [envois EXCEPT ![c] = "perdue"]
  /\ UNCHANGED <<vars, cle, montant, intention, voulu, troublees>>

\* The page is loaded again: useState draws a new key, no answer comes back.
Recharger ==
  /\ intention <= MaxIntentions
  /\ Renouveler
  /\ montant' = Rien
  /\ envois' = [c \in Appels |-> IF envois[c] = "enVol" THEN "perdue" ELSE envois[c]]
  /\ troublees' = troublees \cup {intention}
  /\ UNCHANGED <<vars, intention, voulu>>

\* The API on a request it received: every statement of run(), and its stop.
Servir(c) ==
  /\ envois[c] # "neuf"
  /\ UNCHANGED pageVars
  /\ \/ Claim(c)
     \/ HandlerOk(c)
     \/ HandlerRejects(c)
     \/ Complete(c)
     \/ Cleanup(c)
     \/ Lookup(c)
     \/ Crash(c)

NextF ==
  \/ \E h \in Charges : Saisir(h)
  \/ Soumettre
  \/ \E c \in Appels : RecevoirOk(c) \/ RecevoirEchec(c) \/ RecevoirPerdu(c) \/ Servir(c)
  \/ Recharger

SpecF == InitF /\ [][NextF]_formVars

\* The statements that may fail once the handler has committed, when Pannes
\* holds them; CleanupFails leaves the key claimed for ever.
ServirEnPanne(c) ==
  /\ envois[c] # "neuf"
  /\ UNCHANGED pageVars
  /\ \/ HandlerFailsAfterCommit(c)
     \/ CompleteFails(c)
     \/ CleanupFails(c)

NextPannes == NextF \/ \E c \in Appels : ServirEnPanne(c)

SpecPannes == InitF /\ [][NextPannes]_formVars

-----------------------------------------------------------------------------
(* Properties.                                                             *)

\* "a double-click or a network retry of the same in-flight request reuses the
\* same key and cannot create a second decaissement/remboursement, while a
\* genuinely new submission gets a fresh one" (the comment above the keys):
\* whatever is clicked twice, refused, lost, edited and sent again, one payment
\* the user meant is written once, as long as its key was not drawn again.
UneFoisParIntention ==
  \A c, d \in commis : voulu[c] = voulu[d] => c = d \/ voulu[c] \in troublees

\* A success on screen is the payment it was clicked for, with the amount that
\* was in the field: never the replay of an earlier payment of the same amount.
SuccesFidele ==
  \A c \in Appels : envois[c] = "recue" =>
    /\ reponse[c] \in commis
    /\ voulu[reponse[c]] = voulu[c]
    /\ ChargeDe[reponse[c]] = ChargeDe[c]
=============================================================================
