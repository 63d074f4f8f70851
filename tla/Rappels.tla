------------------------------ MODULE Rappels ------------------------------
(***************************************************************************)
(* WhatsApp reminders: overlapping runs of the reminder batch (scheduler   *)
(* and administrator, on any instance), the messages they hand to Meta and *)
(* the delivery webhooks that come back in any order.                      *)
(*                                                                         *)
(* Each database call is one statement and one step; a run is interrupted  *)
(* between any two (the process dies, or a query outside the try fails and *)
(* the batch throws).  Meta is external: it accepts a message, then lets   *)
(* it progress and reports each event once, several times or never.        *)
(***************************************************************************)
EXTENDS Naturals, Sequences

CONSTANTS
  Runs,               \* calls of runForDate
  Occurrences,        \* (rule, user, context, date), the unique key of a dispatch
  Utilisateurs,
  UtilisateurDe,      \* the user of each occurrence
  DelaiQuarantaine,   \* 15 minutes
  DelaiRelance,       \* 1 hour
  MaxHorloge,         \* bound on NOW()
  Pannes              \* of {"reseau", "marque", "apresMarque"}, see Send and Marquer

ASSUME RappelsAssumption ==
  /\ UtilisateurDe \in [Occurrences -> Utilisateurs]
  /\ DelaiQuarantaine \in Nat \ {0} /\ DelaiRelance \in Nat \ {0} /\ MaxHorloge \in Nat
  /\ Pannes \subseteq {"reseau", "marque", "apresMarque"}

VARIABLES
  horloge,      \* NOW()
  preference,   \* consent_status of each user; "AUCUNE": no row
  du,           \* what the SELECT of candidates says of each occurrence, consent apart
  dispatches,   \* whatsapp_reminder_dispatches; "ABSENT": no row
  messages,     \* whatsapp_messages, in the order of their INSERTs
  meta,         \* what Meta knows of each: <<>>, or "ACCEPTE" and its events
  pc,           \* the next statement of each run
  todo,         \* candidates each run has still to handle
  courante,     \* the occurrence it claimed last
  message       \* the message it created last

vars == <<horloge, preference, du, dispatches, messages, meta, pc, todo, courante, message>>

Consentements == {"AUCUNE", "OPTED_IN", "OPTED_OUT"}
StatutsDispatch == {"ABSENT", "CLAIMED", "SENT", "FAILED", "REVIEW_REQUIRED"}
StatutsMessage == {"QUEUED", "SENT", "DELIVERED", "READ", "FAILED", "SKIPPED"}
Evenements == {"ACCEPTE", "SENT", "DELIVERED", "READ", "FAILED"}

Dispatch == [statut: StatutsDispatch, depuis: Nat, message: Nat]
Message  == [occ: Occurrences, statut: StatutsMessage, provider: {"NULL", "meta", "unknown"},
             identifie: BOOLEAN, statutLe: Nat]

\* Where a run holds a claim, before and after the call of the provider.
AvantEnvoi == {"preference", "skip", "queue", "send"}
ApresEnvoi == {"accepte", "refuse", "catch", "dispatchSent", "dispatchFailed"}
EnCours    == AvantEnvoi \cup ApresEnvoi
Etapes     == {"quarantine", "list", "claim", "fini", "arrete"} \cup EnCours

TypeOK ==
  /\ horloge \in Nat
  /\ preference \in [Utilisateurs -> Consentements]
  /\ du \in [Occurrences -> BOOLEAN]
  /\ dispatches \in [Occurrences -> Dispatch]
  /\ messages \in Seq(Message)
  /\ meta \in Seq(Seq(Evenements)) /\ Len(meta) = Len(messages)
  /\ pc \in [Runs -> Etapes]
  /\ todo \in [Runs -> SUBSET Occurrences]
  /\ courante \in [Runs -> Occurrences]
  /\ message \in [Runs -> 0 .. Len(messages)]

Init ==
  /\ horloge = 0
  /\ preference \in [Utilisateurs -> Consentements]
  /\ du \in [Occurrences -> BOOLEAN]
  /\ dispatches = [o \in Occurrences |-> [statut |-> "ABSENT", depuis |-> 0, message |-> 0]]
  /\ messages = <<>> /\ meta = <<>>
  /\ pc = [r \in Runs |-> "quarantine"]
  /\ todo = [r \in Runs |-> {}]
  /\ courante \in [Runs -> Occurrences]
  /\ message = [r \in Runs |-> 0]

Va(r, etape) == pc' = [pc EXCEPT ![r] = etape]

-----------------------------------------------------------------------------
(* The world around the batch.                                             *)

Tick ==
  /\ horloge < MaxHorloge
  /\ horloge' = horloge + 1
  /\ UNCHANGED <<preference, du, dispatches, messages, meta, pc, todo, courante, message>>

\* A payment, a verification, midnight: the reminder of o is due, or no longer.
Echoir(o) ==
  /\ du' = [du EXCEPT ![o] = ~ @]
  /\ UNCHANGED <<horloge, preference, dispatches, messages, meta, pc, todo, courante, message>>

OptIn(u) ==
  /\ preference' = [preference EXCEPT ![u] = "OPTED_IN"]
  /\ UNCHANGED <<horloge, du, dispatches, messages, meta, pc, todo, courante, message>>

OptOut(u) ==
  /\ preference[u] # "AUCUNE"
  /\ preference' = [preference EXCEPT ![u] = "OPTED_OUT"]
  /\ UNCHANGED <<horloge, du, dispatches, messages, meta, pc, todo, courante, message>>

\* What may follow an event in the life of a message.
Suites == [ACCEPTE |-> {"SENT", "FAILED"}, SENT |-> {"DELIVERED", "FAILED"},
           DELIVERED |-> {"READ"}, READ |-> {}, FAILED |-> {}]

MetaProgresse(i) ==
  /\ meta[i] # <<>>
  /\ \E e \in Suites[meta[i][Len(meta[i])]] : meta' = [meta EXCEPT ![i] = Append(@, e)]
  /\ UNCHANGED <<horloge, preference, du, dispatches, messages, pc, todo, courante, message>>

-----------------------------------------------------------------------------
(* runForDate.                                                             *)

Quarantine(r) ==
  /\ pc[r] = "quarantine"
  /\ dispatches' = [o \in Occurrences |->
       IF dispatches[o].statut = "CLAIMED" /\ dispatches[o].depuis + DelaiQuarantaine <= horloge
       THEN [dispatches[o] EXCEPT !.statut = "REVIEW_REQUIRED"] ELSE dispatches[o]]
  /\ Va(r, "list")
  /\ UNCHANGED <<horloge, preference, du, messages, meta, todo, courante, message>>

Candidates == {o \in Occurrences : du[o] /\ preference[UtilisateurDe[o]] = "OPTED_IN"}

ListCandidates(r) ==
  /\ pc[r] = "list"
  /\ todo' = [todo EXCEPT ![r] = Candidates]
  /\ Va(r, "claim")
  /\ UNCHANGED <<horloge, preference, du, dispatches, messages, meta, courante, message>>

\* INSERT ... ON CONFLICT DO UPDATE ... WHERE: a new row, or an old failure.
Reclamable(o) ==
  \/ dispatches[o].statut = "ABSENT"
  \/ dispatches[o].statut = "FAILED" /\ dispatches[o].depuis + DelaiRelance <= horloge

Claim(r) ==
  /\ pc[r] = "claim"
  /\ \E o \in todo[r] :
       /\ todo' = [todo EXCEPT ![r] = @ \ {o}]
       /\ \/ /\ Reclamable(o)
             /\ dispatches' = [dispatches EXCEPT ![o] =
                                 [@ EXCEPT !.statut = "CLAIMED", !.depuis = horloge]]
             /\ courante' = [courante EXCEPT ![r] = o]
             /\ Va(r, "preference")
          \/ /\ ~ Reclamable(o)
             /\ UNCHANGED <<dispatches, courante, pc>>
  /\ UNCHANGED <<horloge, preference, du, messages, meta, message>>

Finish(r) ==
  /\ pc[r] = "claim" /\ todo[r] = {}
  /\ Va(r, "fini")
  /\ UNCHANGED <<horloge, preference, du, dispatches, messages, meta, todo, courante, message>>

\* The process dies, or a query outside the try throws.
Interrupt(r) ==
  /\ pc[r] \notin {"fini", "arrete"}
  /\ Va(r, "arrete")
  /\ UNCHANGED <<horloge, preference, du, dispatches, messages, meta, todo, courante, message>>

-----------------------------------------------------------------------------
(* sendTemplateToUser, called for the occurrence claimed.                  *)

GetPreference(r) ==
  /\ pc[r] = "preference"
  /\ Va(r, IF preference[UtilisateurDe[courante[r]]] = "OPTED_IN" THEN "queue" ELSE "skip")
  /\ UNCHANGED <<horloge, preference, du, dispatches, messages, meta, todo, courante, message>>

CreateOutboundAttempt(r) ==
  /\ pc[r] \in {"queue", "skip"}
  /\ messages' = Append(messages,
       [occ |-> courante[r], statut |-> IF pc[r] = "queue" THEN "QUEUED" ELSE "SKIPPED",
        provider |-> "NULL", identifie |-> FALSE, statutLe |-> 0])
  /\ meta' = Append(meta, <<>>)
  /\ message' = [message EXCEPT ![r] = Len(messages) + 1]
  /\ Va(r, IF pc[r] = "queue" THEN "send" ELSE "dispatchFailed")
  /\ UNCHANGED <<horloge, preference, du, dispatches, todo, courante>>

\* provider.sendTemplate: accepted; refused before or by Meta; or accepted and
\* the answer lost (the 10 s timeout), which the provider reports as a refusal.
Send(r) ==
  /\ pc[r] = "send"
  /\ \/ /\ meta' = [meta EXCEPT ![message[r]] = <<"ACCEPTE">>]
        /\ \/ Va(r, "accepte")
           \/ "reseau" \in Pannes /\ Va(r, "refuse")
     \/ Va(r, "refuse") /\ UNCHANGED meta
  /\ UNCHANGED <<horloge, preference, du, dispatches, messages, todo, courante, message>>

\* An UPDATE inside the try: done; or failed ("marque") or done and its answer
\* lost ("apresMarque"), and then the catch is next.
Marquer(r, m, suite) ==
  /\ \/ /\ messages' = [messages EXCEPT ![message[r]] = m]
        /\ \/ Va(r, suite)
           \/ "apresMarque" \in Pannes /\ Va(r, "catch")
     \/ "marque" \in Pannes /\ UNCHANGED messages /\ Va(r, "catch")
  /\ UNCHANGED <<horloge, preference, du, dispatches, meta, todo, courante, message>>

MarkMessageSent(r) ==
  /\ pc[r] = "accepte"
  /\ Marquer(r, [messages[message[r]] EXCEPT !.statut = "SENT", !.provider = "meta",
                                             !.identifie = TRUE], "dispatchSent")

MarkMessageFailed(r) ==
  /\ pc[r] = "refuse"
  /\ Marquer(r, [messages[message[r]] EXCEPT !.statut = "FAILED", !.provider = "meta"],
             "dispatchFailed")

\* Mutant: the catch keeps the provider.
CatchMeta(r) ==
  /\ pc[r] = "catch"
  /\ messages' = [messages EXCEPT ![message[r]] = [@ EXCEPT !.statut = "FAILED"]]
  /\ Va(r, "dispatchFailed")
  /\ UNCHANGED <<horloge, preference, du, dispatches, meta, todo, courante, message>>

Catch(r) ==
  /\ pc[r] = "catch"
  /\ messages' = [messages EXCEPT ![message[r]] =
                    [@ EXCEPT !.statut = "FAILED", !.provider = "unknown"]]
  /\ Va(r, "dispatchFailed")
  /\ UNCHANGED <<horloge, preference, du, dispatches, meta, todo, courante, message>>

\* Mutant: the outcomes of the two tables are crossed.
MarkDispatchSansLien(r) ==
  /\ pc[r] \in {"dispatchSent", "dispatchFailed"}
  /\ dispatches' = [dispatches EXCEPT ![courante[r]] = [@ EXCEPT !.statut = "SENT"]]
  /\ Va(r, "claim")
  /\ UNCHANGED <<horloge, preference, du, messages, meta, todo, courante, message>>

\* reminders.markSent and markFailed: WHERE id, whatever the status has become.
MarkDispatch(r) ==
  /\ pc[r] \in {"dispatchSent", "dispatchFailed"}
  /\ dispatches' = [dispatches EXCEPT ![courante[r]] =
       [@ EXCEPT !.statut = IF pc[r] = "dispatchSent" THEN "SENT" ELSE "FAILED",
                 !.message = message[r]]]
  /\ Va(r, "claim")
  /\ UNCHANGED <<horloge, preference, du, messages, meta, todo, courante, message>>

SendTemplateToUser(r) ==
  \/ GetPreference(r) \/ CreateOutboundAttempt(r) \/ Send(r)
  \/ MarkMessageSent(r) \/ MarkMessageFailed(r) \/ Catch(r)

RunForDate(r) ==
  \/ Quarantine(r) \/ ListCandidates(r) \/ Claim(r) \/ Finish(r)
  \/ SendTemplateToUser(r) \/ MarkDispatch(r)

-----------------------------------------------------------------------------
(* The webhook: applyProviderStatus, for one event Meta has known.         *)

\* Mutant: only an event that repeats the status is ignored.
AccepteStatutAutre(m, e, t) == m.statut # e

\* The WHERE of the UPDATE, on the status of the row and the time of the event.
AccepteStatut(m, e, t) ==
  \/ e = "READ" /\ m.statut # "READ"
  \/ e = "DELIVERED" /\ m.statut \in {"QUEUED", "SENT"}
  \/ e = "SENT" /\ m.statut = "QUEUED"
  \/ e = "FAILED" /\ m.statut \in {"QUEUED", "SENT"} /\ m.statutLe <= t

Webhook(i) ==
  /\ messages[i].identifie /\ messages[i].provider = "meta"
  /\ \E t \in 2 .. Len(meta[i]) :
       /\ AccepteStatut(messages[i], meta[i][t], t)
       /\ messages' = [messages EXCEPT ![i] = [@ EXCEPT !.statut = meta[i][t], !.statutLe = t]]
  /\ UNCHANGED <<horloge, preference, du, dispatches, meta, pc, todo, courante, message>>

Monde ==
  \/ Tick
  \/ \E o \in Occurrences : Echoir(o)
  \/ \E u \in Utilisateurs : OptIn(u) \/ OptOut(u)
  \/ \E i \in DOMAIN messages : MetaProgresse(i) \/ Webhook(i)

Next == Monde \/ \E r \in Runs : RunForDate(r) \/ Interrupt(r)

Spec == Init /\ [][Next]_vars

-----------------------------------------------------------------------------

Travaille(r, o) == pc[r] \in EnCours /\ courante[r] = o

\* At any moment one run at most is sending a given reminder, although claims
\* grow old, are quarantined, fail and are taken over: claim()'s conditional
\* upsert is the only arbiter, nothing is locked while Meta is called.
EnvoiExclusif ==
  \A o \in Occurrences : \A r, s \in Runs : Travaille(r, o) /\ Travaille(s, o) => r = s

\* A reminder is attempted again only if its earlier attempts are recorded, for
\* good, as failed or skipped: no webhook, late mark or quarantine brings a
\* message that was replaced back to life.
RelanceJustifiee ==
  \A i, j \in DOMAIN messages :
    i < j /\ messages[i].occ = messages[j].occ => messages[i].statut \in {"FAILED", "SKIPPED"}

\* The two journals agree: a dispatch SENT points to a message of its own that
\* Meta accepted and that webhooks can find; a dispatch FAILED to one that is
\* recorded as failed or skipped.
DispatchFidele ==
  \A o \in Occurrences :
    LET d == dispatches[o] IN
      /\ d.statut = "SENT" => /\ d.message \in DOMAIN messages
                              /\ messages[d.message].occ = o
                              /\ messages[d.message].identifie
                              /\ meta[d.message] # <<>>
      /\ d.statut = "FAILED" => /\ d.message \in DOMAIN messages
                                /\ messages[d.message].statut \in {"FAILED", "SKIPPED"}

\* SENT is final, and so is the quarantine of a claim nobody works on any more:
\* an occurrence whose outcome is unknown is never replayed by a later run.
QuarantaineDefinitive ==
  [][\A o \in Occurrences :
       \/ dispatches[o].statut = "SENT"
       \/ dispatches[o].statut = "REVIEW_REQUIRED" /\ \A r \in Runs : ~ Travaille(r, o)
       => dispatches'[o] = dispatches[o]]_vars

Rang == [QUEUED |-> 0, SKIPPED |-> 0, SENT |-> 1, FAILED |-> 2, DELIVERED |-> 3, READ |-> 4]

\* Late, repeated or reordered webhooks never downgrade a delivery; only the
\* catch of sendTemplateToUser overwrites a status, when its own UPDATE failed.
JamaisRetrograde ==
  [][\A i \in DOMAIN messages :
       \/ Rang[messages[i].statut] <= Rang[messages'[i].statut]
       \/ \E r \in Runs : pc[r] = "catch" /\ message[r] = i]_vars

\* What the quarantine is there for: Meta never receives the same reminder twice.
UnSeulEnvoi ==
  \A i, j \in DOMAIN messages :
    messages[i].occ = messages[j].occ /\ meta[i] # <<>> /\ meta[j] # <<>> => i = j
=============================================================================
