--------------------------- MODULE RappelsProofs ---------------------------
(***************************************************************************)
(* Proofs about Rappels, for any number of runs, reminders and failures.   *)
(***************************************************************************)
EXTENDS Rappels, SequenceTheorems, TLAPS

\* A message recorded as failed or skipped, and that no webhook can reach.
Ferme(i) ==
  /\ messages[i].statut \in {"FAILED", "SKIPPED"}
  /\ ~ (messages[i].identifie /\ messages[i].provider = "meta")

\* A claim held by a run is CLAIMED, or quarantined under its feet.
Reclames ==
  \A r \in Runs : pc[r] \in EnCours => dispatches[courante[r]].statut \in {"CLAIMED", "REVIEW_REQUIRED"}

\* Every attempt but the last of an occurrence is closed.
Successions ==
  \A i, j \in DOMAIN messages : i < j /\ messages[i].occ = messages[j].occ => Ferme(i)

\* Only Meta gives a message its identifier.
Connus == \A i \in DOMAIN messages : messages[i].identifie => meta[i] # <<>>

\* What a dispatch says of the messages of its occurrence.
Sort(o) ==
  /\ dispatches[o].statut = "ABSENT" => \A i \in DOMAIN messages : messages[i].occ # o
  /\ dispatches[o].statut = "FAILED" =>
       /\ dispatches[o].message \in DOMAIN messages
       /\ messages[dispatches[o].message].occ = o
       /\ \A i \in DOMAIN messages : messages[i].occ = o => Ferme(i)
  /\ dispatches[o].statut = "SENT" =>
       /\ dispatches[o].message \in DOMAIN messages
       /\ messages[dispatches[o].message].occ = o
       /\ messages[dispatches[o].message].identifie

Sorts == \A o \in Occurrences : Sort(o)

AvecMessage == {"send"} \cup ApresEnvoi

\* What a run that holds a claim knows of the messages of its occurrence.
Tient(r) ==
  /\ pc[r] \in {"preference", "skip", "queue"} =>
       \A i \in DOMAIN messages : messages[i].occ = courante[r] => Ferme(i)
  /\ pc[r] \in AvecMessage =>
       /\ message[r] \in DOMAIN messages
       /\ messages[message[r]].occ = courante[r]
       /\ \A i \in DOMAIN messages : messages[i].occ = courante[r] /\ i # message[r] => Ferme(i)
  /\ pc[r] \in {"send", "accepte", "refuse"} =>
       messages[message[r]].statut = "QUEUED" /\ ~ messages[message[r]].identifie
  /\ pc[r] = "accepte" => meta[message[r]] # <<>>
  /\ pc[r] = "dispatchSent" => messages[message[r]].identifie
  /\ pc[r] = "dispatchFailed" => Ferme(message[r])

Tenus == \A r \in Runs : Tient(r)

\* The inductive invariant.
IInv ==
  /\ TypeOK
  /\ EnvoiExclusif
  /\ Reclames
  /\ Successions
  /\ Connus
  /\ Sorts
  /\ Tenus

-----------------------------------------------------------------------------

\* A step of a run.
Etape(r) == RunForDate(r) \/ Interrupt(r)

\* A step leaves the messages and Meta alone, creates a message, writes one,
\* or is Meta's.
LEMMA Ecritures ==
  ASSUME [Next]_vars
  PROVE  \/ UNCHANGED <<messages, meta>>
         \/ \E r \in Runs : CreateOutboundAttempt(r)
         \/ \E r \in Runs : MarkMessageSent(r) \/ MarkMessageFailed(r) \/ Catch(r)
         \/ \E i \in DOMAIN messages : Webhook(i)
         \/ \E r \in Runs : Send(r)
         \/ \E i \in DOMAIN messages : MetaProgresse(i)
<1>1. CASE Monde
  BY <1>1 DEF Monde, Tick, Echoir, OptIn, OptOut, MetaProgresse, Webhook
<1>2. ASSUME NEW r \in Runs, Etape(r)
      PROVE  \/ UNCHANGED <<messages, meta>>
             \/ CreateOutboundAttempt(r)
             \/ MarkMessageSent(r) \/ MarkMessageFailed(r) \/ Catch(r)
             \/ Send(r)
  <2>1. CASE Quarantine(r) \/ ListCandidates(r) \/ Claim(r) \/ Finish(r) \/ MarkDispatch(r) \/ Interrupt(r)
    BY <2>1 DEF Quarantine, ListCandidates, Claim, Finish, MarkDispatch, Interrupt
  <2>2. CASE SendTemplateToUser(r)
    BY <2>2 DEF SendTemplateToUser, GetPreference, Send, MarkMessageSent, MarkMessageFailed, Marquer, Catch
  <2>3. QED  BY <1>2, <2>1, <2>2 DEF Etape, RunForDate
<1>3. CASE UNCHANGED vars  BY <1>3 DEF vars
<1>4. QED  BY <1>1, <1>2, <1>3 DEF Next, Etape

\* One row replaced by another.
LEMMA Remplacement ==
  ASSUME TypeOK, NEW k \in DOMAIN messages, NEW m \in Message,
         messages' = [messages EXCEPT ![k] = m]
  PROVE  /\ messages' \in Seq(Message)
         /\ Len(messages') = Len(messages)
         /\ DOMAIN messages' = DOMAIN messages
         /\ messages'[k] = m
         /\ \A i \in DOMAIN messages : i # k => messages'[i] = messages[i]
BY ExceptSeq DEF TypeOK

\* What becomes of one message: it keeps its occurrence; closed it stays
\* closed, known to Meta it stays known; and its status only moves forward,
\* except by the catch of the run that sends it.
Suit(i) ==
  /\ messages'[i].occ = messages[i].occ
  /\ Ferme(i) => Ferme(i)'
  /\ messages[i].identifie => messages'[i].identifie
  /\ meta[i] # <<>> => meta'[i] # <<>>
  /\ messages'[i].identifie => meta'[i] # <<>>
  /\ \/ Rang[messages[i].statut] <= Rang[messages'[i].statut]
     \/ \E r \in Runs : pc[r] = "catch" /\ message[r] = i
  /\ \/ messages'[i] = messages[i]
     \/ messages[i].identifie
     \/ \E r \in Runs : Etape(r) /\ pc[r] \in AvecMessage /\ message[r] = i

\* The writes of the run that sends.
LEMMA MarqueMessage ==
  ASSUME IInv, NEW r \in Runs, MarkMessageSent(r) \/ MarkMessageFailed(r) \/ Catch(r)
  PROVE  /\ messages' \in Seq(Message)
         /\ Len(messages') = Len(messages)
         /\ \A i \in DOMAIN messages : Suit(i)
         /\ pc'[r] = "dispatchSent" => messages'[message[r]].identifie
         /\ pc'[r] = "dispatchFailed" => Ferme(message[r])'
         /\ pc' = [pc EXCEPT ![r] = pc'[r]] /\ pc'[r] \in {"catch", "dispatchSent", "dispatchFailed"}
<1> DEFINE k == message[r]
<1>1. /\ k \in DOMAIN messages
      /\ messages[k] \in Message
      /\ pc[r] \in AvecMessage
      /\ pc[r] \in Etapes /\ pc \in [Runs -> Etapes]
  BY DEF IInv, TypeOK, Tenus, Tient, AvecMessage, ApresEnvoi, MarkMessageSent, MarkMessageFailed, Catch
<1>2. Etape(r)  BY DEF Etape, RunForDate, SendTemplateToUser
<1>3. UNCHANGED <<meta, message>>  BY DEF MarkMessageSent, MarkMessageFailed, Catch, Marquer
<1>4. CASE UNCHANGED messages /\ pc' = [pc EXCEPT ![r] = "catch"]
  <2>1. ASSUME NEW i \in DOMAIN messages PROVE Suit(i)
    <3>1. messages[i] \in Message  BY DEF IInv, TypeOK
    <3>2. messages[i].statut \in StatutsMessage  BY <3>1 DEF Message
    <3>3. QED  BY <1>3, <1>4, <3>2 DEF Suit, Ferme, IInv, Connus, Rang, StatutsMessage
  <2>2. messages \in Seq(Message) /\ pc'[r] = "catch"  BY <1>1, <1>4 DEF IInv, TypeOK
  <2>3. QED  BY <2>1, <2>2, <1>4
<1>5. CASE pc[r] = "accepte" /\ messages' = [messages EXCEPT ![k] =
              [messages[k] EXCEPT !.statut = "SENT", !.provider = "meta", !.identifie = TRUE]]
           /\ pc' = [pc EXCEPT ![r] = pc'[r]] /\ pc'[r] \in {"catch", "dispatchSent"}
  <2> DEFINE m == [messages[k] EXCEPT !.statut = "SENT", !.provider = "meta", !.identifie = TRUE]
  <2>1. /\ m \in Message
        /\ m.occ = messages[k].occ /\ m.statut = "SENT" /\ m.provider = "meta" /\ m.identifie
    BY <1>1 DEF Message, StatutsMessage
  <2>2. messages[k].statut = "QUEUED" /\ meta[k] # <<>>
    BY <1>5 DEF IInv, Tenus, Tient
  <2>3. messages' = [messages EXCEPT ![k] = m]  BY <1>5
  <2> HIDE DEF m
  <2>4. /\ messages' \in Seq(Message) /\ Len(messages') = Len(messages)
        /\ messages'[k] = m
        /\ \A i \in DOMAIN messages : i # k => messages'[i] = messages[i]
    BY <2>1, <2>3, <1>1, Remplacement DEF IInv
  <2>5. ASSUME NEW i \in DOMAIN messages PROVE Suit(i)
    <3>1. messages[i] \in Message  BY DEF IInv, TypeOK
    <3>2. CASE i = k  BY <3>2, <2>1, <2>2, <2>4, <1>1, <1>2, <1>3 DEF Suit, Ferme, Rang
    <3>3. CASE i # k  BY <3>1, <3>3, <2>4, <1>3 DEF Suit, Ferme, Rang, Message, StatutsMessage, IInv, Connus
    <3>4. QED  BY <3>2, <3>3
  <2>6. QED  BY <2>1, <2>4, <2>5, <1>5
<1>6. CASE /\ pc[r] \in {"refuse", "catch"}
           /\ \E p \in {"meta", "unknown"} :
                /\ messages' = [messages EXCEPT ![k] = [messages[k] EXCEPT !.statut = "FAILED", !.provider = p]]
                /\ pc[r] = "catch" => p = "unknown"
           /\ pc' = [pc EXCEPT ![r] = pc'[r]] /\ pc'[r] \in {"catch", "dispatchFailed"}
  <2>0. PICK p \in {"meta", "unknown"} :
          /\ messages' = [messages EXCEPT ![k] = [messages[k] EXCEPT !.statut = "FAILED", !.provider = p]]
          /\ pc[r] = "catch" => p = "unknown"
    BY <1>6
  <2> DEFINE m == [messages[k] EXCEPT !.statut = "FAILED", !.provider = p]
  <2>1. /\ m \in Message
        /\ m.occ = messages[k].occ /\ m.statut = "FAILED" /\ m.provider = p
        /\ m.identifie = messages[k].identifie
    BY <1>1, <2>0 DEF Message, StatutsMessage
  <2>2. pc[r] = "refuse" => messages[k].statut = "QUEUED" /\ ~ messages[k].identifie
    BY DEF IInv, Tenus, Tient
  <2>3. messages' = [messages EXCEPT ![k] = m]  BY <2>0
  <2>7. p = "unknown" \/ ~ messages[k].identifie  BY <1>6, <2>0, <2>2
  <2>8. pc[r] = "catch" \/ messages[k].statut = "QUEUED"  BY <1>6, <2>2
  <2> HIDE DEF m
  <2>4. /\ messages' \in Seq(Message) /\ Len(messages') = Len(messages)
        /\ messages'[k] = m
        /\ \A i \in DOMAIN messages : i # k => messages'[i] = messages[i]
    BY <2>1, <2>3, <1>1, Remplacement DEF IInv
  <2>9. Ferme(k)'  BY <2>1, <2>4, <2>7, <1>3 DEF Ferme
  <2>5. ASSUME NEW i \in DOMAIN messages PROVE Suit(i)
    <3>1. messages[i] \in Message  BY DEF IInv, TypeOK
    <3>2. CASE i = k
      <4>1. messages[k].identifie => meta[k] # <<>>  BY <1>1 DEF IInv, Connus
      <4>2. QED  BY <4>1, <3>2, <2>1, <2>8, <2>4, <2>9, <1>1, <1>2, <1>3 DEF Suit, Rang
    <3>3. CASE i # k  BY <3>1, <3>3, <2>4, <1>3 DEF Suit, Ferme, Rang, Message, StatutsMessage, IInv, Connus
    <3>4. QED  BY <3>2, <3>3
  <2>6. QED  BY <2>4, <2>5, <2>9, <1>6
<1>7. QED
  BY <1>1, <1>4, <1>5, <1>6 DEF MarkMessageSent, MarkMessageFailed, Catch, Marquer, Va

\* The INSERT of a message.
LEMMA CreeMessage ==
  ASSUME IInv, RappelsAssumption, NEW r \in Runs, CreateOutboundAttempt(r)
  PROVE  /\ messages' \in Seq(Message) /\ meta' \in Seq(Seq(Evenements))
         /\ Len(messages') = Len(messages) + 1 /\ Len(meta') = Len(messages')
         /\ \A i \in DOMAIN messages : Suit(i)
         /\ messages'[Len(messages) + 1] =
              [occ |-> courante[r], statut |-> IF pc[r] = "queue" THEN "QUEUED" ELSE "SKIPPED",
               provider |-> "NULL", identifie |-> FALSE, statutLe |-> 0]
<1> DEFINE m == [occ |-> courante[r], statut |-> IF pc[r] = "queue" THEN "QUEUED" ELSE "SKIPPED",
                 provider |-> "NULL", identifie |-> FALSE, statutLe |-> 0]
<1>1. m \in Message
  BY DEF Message, StatutsMessage, IInv, TypeOK
<1>2. messages' = Append(messages, m) /\ meta' = Append(meta, <<>>)
  BY DEF CreateOutboundAttempt
<1>3. messages \in Seq(Message) /\ meta \in Seq(Seq(Evenements)) /\ Len(meta) = Len(messages)
  BY DEF IInv, TypeOK
<1> HIDE DEF m
<1>4. /\ messages' \in Seq(Message) /\ Len(messages') = Len(messages) + 1
      /\ messages'[Len(messages) + 1] = m
      /\ \A i \in DOMAIN messages : messages'[i] = messages[i]
  BY <1>1, <1>2, <1>3
<1>5. <<>> \in Seq(Evenements)  OBVIOUS
<1>6. /\ meta' \in Seq(Seq(Evenements)) /\ Len(meta') = Len(meta) + 1
      /\ \A i \in DOMAIN messages : meta'[i] = meta[i]
  BY <1>2, <1>3, <1>5
<1>7. ASSUME NEW i \in DOMAIN messages PROVE Suit(i)
  <2>1. messages[i] \in Message  BY <1>3
  <2>2. messages[i].statut \in StatutsMessage  BY <2>1 DEF Message
  <2>3. messages'[i] = messages[i] /\ meta'[i] = meta[i]  BY <1>4, <1>6
  <2>4. messages[i].identifie => meta[i] # <<>>  BY DEF IInv, Connus
  <2>5. QED  BY <2>2, <2>3, <2>4 DEF Suit, Ferme, Rang, StatutsMessage
<1>8. QED  BY <1>3, <1>4, <1>6, <1>7 DEF m

\* A webhook moves one message forward, and never a closed one.
LEMMA WebhookAvance ==
  ASSUME IInv, NEW k \in DOMAIN messages, Webhook(k)
  PROVE  /\ messages' \in Seq(Message) /\ Len(messages') = Len(messages)
         /\ \A i \in DOMAIN messages : Suit(i)
<1>0. messages[k] \in Message /\ UNCHANGED meta  BY DEF IInv, TypeOK, Webhook
<1>1. PICK t \in 2 .. Len(meta[k]) :
        /\ AccepteStatut(messages[k], meta[k][t], t)
        /\ messages' = [messages EXCEPT ![k] = [messages[k] EXCEPT !.statut = meta[k][t], !.statutLe = t]]
  BY DEF Webhook
<1> DEFINE m == [messages[k] EXCEPT !.statut = meta[k][t], !.statutLe = t]
<1>2. meta[k][t] \in {"SENT", "DELIVERED", "READ", "FAILED"}
  BY <1>1 DEF AccepteStatut
<1>3. t \in Nat
  <2>1. meta[k] \in Seq(Evenements)  BY DEF IInv, TypeOK
  <2>2. Len(meta[k]) \in Nat  BY <2>1
  <2>3. QED  BY <2>2
<1>4. /\ m \in Message /\ m.occ = messages[k].occ /\ m.identifie = messages[k].identifie
      /\ m.provider = messages[k].provider /\ m.statut = meta[k][t]
  BY <1>0, <1>2, <1>3 DEF Message, StatutsMessage
<1>5. Rang[messages[k].statut] <= Rang[meta[k][t]]
  <2>1. messages[k].statut \in StatutsMessage  BY <1>0 DEF Message
  <2>2. QED  BY <2>1, <1>1 DEF AccepteStatut, Rang, StatutsMessage
<1>6. messages[k].identifie /\ messages[k].provider = "meta"  BY DEF Webhook
<1>7. messages' = [messages EXCEPT ![k] = m]  BY <1>1
<1> HIDE DEF m
<1>8. /\ messages' \in Seq(Message) /\ Len(messages') = Len(messages)
      /\ messages'[k] = m
      /\ \A i \in DOMAIN messages : i # k => messages'[i] = messages[i]
  BY <1>4, <1>7, Remplacement DEF IInv
<1>9. ASSUME NEW i \in DOMAIN messages PROVE Suit(i)
  <2>1. messages[i] \in Message  BY DEF IInv, TypeOK
  <2>2. messages[i].statut \in StatutsMessage  BY <2>1 DEF Message
  <2>3. messages[i].identifie => meta[i] # <<>>  BY DEF IInv, Connus
  <2>4. CASE i = k  BY <2>3, <2>4, <1>0, <1>4, <1>5, <1>6, <1>8 DEF Suit, Ferme
  <2>5. CASE i # k  BY <2>2, <2>3, <2>5, <1>0, <1>8 DEF Suit, Ferme, Rang, StatutsMessage
  <2>6. QED  BY <2>4, <2>5
<1>10. QED  BY <1>8, <1>9

\* Meta accepts a message or moves one forward.
LEMMA MetaAvance ==
  ASSUME IInv,
         \/ \E r \in Runs : Send(r)
         \/ \E i \in DOMAIN messages : MetaProgresse(i)
  PROVE  /\ UNCHANGED messages
         /\ meta' \in Seq(Seq(Evenements)) /\ Len(meta') = Len(meta)
         /\ \A i \in DOMAIN messages : Suit(i)
<1>1. messages \in Seq(Message) /\ meta \in Seq(Seq(Evenements)) /\ Len(meta) = Len(messages)
  BY DEF IInv, TypeOK
<1>2. UNCHANGED messages  BY DEF Send, MetaProgresse
<1>3. /\ meta' \in Seq(Seq(Evenements)) /\ Len(meta') = Len(meta)
      /\ \A i \in DOMAIN messages : meta[i] # <<>> => meta'[i] # <<>>
  <2>1. CASE UNCHANGED meta  BY <2>1, <1>1
  <2>2. ASSUME NEW k \in DOMAIN messages, NEW h \in Seq(Evenements), h # <<>>,
               meta' = [meta EXCEPT ![k] = h]
        PROVE  /\ meta' \in Seq(Seq(Evenements)) /\ Len(meta') = Len(meta)
               /\ \A i \in DOMAIN messages : meta[i] # <<>> => meta'[i] # <<>>
    <3>1. k \in 1 .. Len(meta) /\ k \in DOMAIN meta  BY <1>1
    <3>2. /\ meta' \in Seq(Seq(Evenements)) /\ Len(meta') = Len(meta)
          /\ meta'[k] = h /\ \A i \in 1 .. Len(meta) : i # k => meta'[i] = meta[i]
      BY <1>1, <2>2, <3>1, ExceptSeq
    <3>3. QED  BY <1>1, <2>2, <3>2
  <2>3. ASSUME NEW r \in Runs, Send(r), ~ UNCHANGED meta
        PROVE  \E k \in DOMAIN messages : meta' = [meta EXCEPT ![k] = <<"ACCEPTE">>]
    <3>1. pc[r] \in AvecMessage  BY <2>3 DEF Send, AvecMessage
    <3>2. message[r] \in DOMAIN messages  BY <3>1 DEF IInv, Tenus, Tient
    <3>3. QED  BY <2>3, <3>2 DEF Send
  <2>4. <<"ACCEPTE">> \in Seq(Evenements) /\ <<"ACCEPTE">> # <<>>  BY DEF Evenements
  <2>5. ASSUME NEW k \in DOMAIN messages, MetaProgresse(k)
        PROVE  \E h \in Seq(Evenements) : h # <<>> /\ meta' = [meta EXCEPT ![k] = h]
    <3>1. meta[k] \in Seq(Evenements)  BY <1>1
    <3>2. PICK e \in Suites[meta[k][Len(meta[k])]] : meta' = [meta EXCEPT ![k] = Append(meta[k], e)]
      BY <2>5 DEF MetaProgresse
    <3>3. meta[k][Len(meta[k])] \in Evenements  BY <3>1, <2>5 DEF MetaProgresse
    <3>4. e \in Evenements  BY <3>2, <3>3 DEF Suites, Evenements
    <3>5. Append(meta[k], e) \in Seq(Evenements) /\ Append(meta[k], e) # <<>>  BY <3>1, <3>4
    <3>6. QED  BY <3>2, <3>5
  <2>6. QED  BY <2>1, <2>2, <2>3, <2>4, <2>5
<1>4. ASSUME NEW i \in DOMAIN messages PROVE Suit(i)
  <2>1. messages[i] \in Message  BY <1>1
  <2>2. messages[i].statut \in StatutsMessage  BY <2>1 DEF Message
  <2>3. messages[i].identifie => meta[i] # <<>>  BY DEF IInv, Connus
  <2>4. QED  BY <1>2, <1>3, <2>2, <2>3 DEF Suit, Ferme, Rang, StatutsMessage
<1>5. QED  BY <1>2, <1>3, <1>4

\* What one step makes of the messages.
LEMMA Croissance ==
  ASSUME IInv, RappelsAssumption, [Next]_vars
  PROVE  /\ messages' \in Seq(Message) /\ meta' \in Seq(Seq(Evenements))
         /\ Len(meta') = Len(messages')
         /\ Len(messages) \in Nat /\ DOMAIN messages = 1 .. Len(messages)
         /\ DOMAIN messages' = 1 .. Len(messages')
         /\ \A i \in DOMAIN messages : Suit(i) /\ i \in DOMAIN messages'
         /\ \/ Len(messages') = Len(messages)
            \/ /\ Len(messages') = Len(messages) + 1
               /\ \E r \in Runs : CreateOutboundAttempt(r)
<1>1. /\ messages \in Seq(Message) /\ meta \in Seq(Seq(Evenements)) /\ Len(meta) = Len(messages)
      /\ Len(messages) \in Nat /\ DOMAIN messages = 1 .. Len(messages)
  BY DEF IInv, TypeOK
<1>2. CASE UNCHANGED <<messages, meta>>
  <2>1. ASSUME NEW i \in DOMAIN messages PROVE Suit(i)
    <3>1. messages[i] \in Message  BY <1>1
    <3>2. messages[i].statut \in StatutsMessage  BY <3>1 DEF Message
    <3>3. messages[i].identifie => meta[i] # <<>>  BY DEF IInv, Connus
    <3>4. QED  BY <1>2, <3>2, <3>3 DEF Suit, Ferme, Rang, StatutsMessage
  <2>2. QED  BY <1>1, <1>2, <2>1
<1>3. ASSUME NEW r \in Runs, CreateOutboundAttempt(r)
      PROVE  /\ messages' \in Seq(Message) /\ meta' \in Seq(Seq(Evenements))
             /\ Len(meta') = Len(messages') /\ Len(messages') = Len(messages) + 1
             /\ \A i \in DOMAIN messages : Suit(i)
  BY <1>3, CreeMessage
<1>4. ASSUME NEW r \in Runs, MarkMessageSent(r) \/ MarkMessageFailed(r) \/ Catch(r)
      PROVE  /\ messages' \in Seq(Message) /\ meta' = meta /\ Len(messages') = Len(messages)
             /\ \A i \in DOMAIN messages : Suit(i)
  <2>1. meta' = meta  BY <1>4 DEF MarkMessageSent, MarkMessageFailed, Marquer, Catch
  <2>2. QED  BY <1>4, <2>1, MarqueMessage
<1>5. ASSUME NEW k \in DOMAIN messages, Webhook(k)
      PROVE  /\ messages' \in Seq(Message) /\ meta' = meta /\ Len(messages') = Len(messages)
             /\ \A i \in DOMAIN messages : Suit(i)
  <2>1. meta' = meta  BY <1>5 DEF Webhook
  <2>2. QED  BY <1>5, <2>1, WebhookAvance
<1>6. CASE \/ \E r \in Runs : Send(r)
           \/ \E i \in DOMAIN messages : MetaProgresse(i)
  BY <1>1, <1>6, MetaAvance
<1>7. QED  BY <1>1, <1>2, <1>3, <1>4, <1>5, <1>6, Ecritures

-----------------------------------------------------------------------------

\* Only the run that steps moves, and a run that has a message moves on.
LEMMA UnSeulBouge ==
  ASSUME TypeOK, NEW r \in Runs, Etape(r)
  PROVE  /\ \A s \in Runs : s # r =>
              pc'[s] = pc[s] /\ courante'[s] = courante[s] /\ message'[s] = message[s]
         /\ pc[r] \in AvecMessage => pc'[r] # pc[r]
<1> USE DEF TypeOK, Va
<1>1. CASE Quarantine(r) \/ ListCandidates(r) \/ Claim(r) \/ Finish(r) \/ Interrupt(r)
  BY <1>1 DEF Quarantine, ListCandidates, Claim, Finish, Interrupt, AvecMessage, ApresEnvoi
<1>2. CASE GetPreference(r) \/ CreateOutboundAttempt(r) \/ Send(r) \/ Catch(r) \/ MarkDispatch(r)
  BY <1>2 DEF GetPreference, CreateOutboundAttempt, Send, Catch, MarkDispatch, AvecMessage, ApresEnvoi
<1>3. CASE MarkMessageSent(r) \/ MarkMessageFailed(r)
  BY <1>3 DEF MarkMessageSent, MarkMessageFailed, Marquer, AvecMessage, ApresEnvoi
<1>4. QED
  BY <1>1, <1>2, <1>3 DEF Etape, RunForDate, SendTemplateToUser

\* One step of a run keeps the types of what it writes beside the messages.
LEMMA TypeRun ==
  ASSUME IInv, RappelsAssumption, NEW r \in Runs, Etape(r)
  PROVE  /\ dispatches' \in [Occurrences -> Dispatch]
         /\ pc' \in [Runs -> Etapes]
         /\ todo' \in [Runs -> SUBSET Occurrences]
         /\ courante' \in [Runs -> Occurrences]
         /\ message' \in [Runs -> 0 .. Len(messages')]
         /\ UNCHANGED <<horloge, preference, du>>
<1> USE DEF IInv, TypeOK, Va, Etapes, EnCours, AvantEnvoi, ApresEnvoi
<1>0. Len(messages) \in Nat  OBVIOUS
<1>1. CASE Quarantine(r)
  <2>1. \A o \in Occurrences : [dispatches[o] EXCEPT !.statut = "REVIEW_REQUIRED"] \in Dispatch
    BY DEF Dispatch, StatutsDispatch
  <2>2. QED  BY <1>1, <2>1 DEF Quarantine
<1>2. CASE ListCandidates(r) \/ Finish(r) \/ Interrupt(r) \/ GetPreference(r) \/ Send(r)
  BY <1>2 DEF ListCandidates, Candidates, Finish, Interrupt, GetPreference, Send
<1>3. CASE Claim(r)
  <2>1. \A o \in Occurrences : [dispatches[o] EXCEPT !.statut = "CLAIMED", !.depuis = horloge] \in Dispatch
    BY DEF Dispatch, StatutsDispatch
  <2>2. PICK o \in todo[r] :
          /\ todo' = [todo EXCEPT ![r] = todo[r] \ {o}]
          /\ \/ /\ dispatches' = [dispatches EXCEPT ![o] =
                                     [dispatches[o] EXCEPT !.statut = "CLAIMED", !.depuis = horloge]]
                /\ courante' = [courante EXCEPT ![r] = o]
                /\ pc' = [pc EXCEPT ![r] = "preference"]
             \/ UNCHANGED <<dispatches, courante, pc>>
    BY <1>3 DEF Claim
  <2>3. o \in Occurrences  OBVIOUS
  <2>4. dispatches' \in [Occurrences -> Dispatch]  BY <2>1, <2>2, <2>3
  <2>5. UNCHANGED <<horloge, preference, du, messages, message>>  BY <1>3 DEF Claim
  <2>6. QED  BY <2>2, <2>3, <2>4, <2>5
<1>4. CASE CreateOutboundAttempt(r)
  <2>1. Len(messages') = Len(messages) + 1  BY <1>4, CreeMessage
  <2>2. QED  BY <1>0, <1>4, <2>1 DEF CreateOutboundAttempt
<1>5. CASE MarkMessageSent(r) \/ MarkMessageFailed(r)
  <2>1. Len(messages') = Len(messages)  BY <1>5, MarqueMessage
  <2>2. QED  BY <1>5, <2>1 DEF MarkMessageSent, MarkMessageFailed, Marquer
<1>6. CASE MarkDispatch(r)
  <2>1. [dispatches[courante[r]] EXCEPT !.statut = IF pc[r] = "dispatchSent" THEN "SENT" ELSE "FAILED",
                                        !.message = message[r]] \in Dispatch
    <3>1. dispatches[courante[r]] \in Dispatch /\ message[r] \in Nat  BY <1>0
    <3>2. QED  BY <3>1 DEF Dispatch, StatutsDispatch
  <2>2. QED  BY <1>6, <2>1 DEF MarkDispatch
<1>7. CASE Catch(r)
  <2>1. Len(messages') = Len(messages)  BY <1>7, MarqueMessage
  <2>2. QED  BY <1>7, <2>1 DEF Catch
<1>8. QED
  BY <1>1, <1>2, <1>3, <1>4, <1>5, <1>6, <1>7 DEF Etape, RunForDate, SendTemplateToUser

\* What the world leaves alone.
LEMMA MondeImmobile ==
  ASSUME Monde
  PROVE  UNCHANGED <<dispatches, pc, todo, courante, message>>
BY DEF Monde, Tick, Echoir, OptIn, OptOut, MetaProgresse, Webhook

\* Every step keeps the types.
LEMMA TypeStep ==
  ASSUME IInv, RappelsAssumption, [Next]_vars
  PROVE  TypeOK'
<1>0. /\ messages' \in Seq(Message) /\ meta' \in Seq(Seq(Evenements)) /\ Len(meta') = Len(messages')
      /\ Len(messages) \in Nat
      /\ Len(messages') = Len(messages) \/ Len(messages') = Len(messages) + 1
  BY Croissance
<1>1. CASE Monde
  <2>1. /\ horloge' \in Nat /\ preference' \in [Utilisateurs -> Consentements]
        /\ du' \in [Occurrences -> BOOLEAN]
    <3>1. /\ horloge \in Nat /\ preference \in [Utilisateurs -> Consentements]
          /\ du \in [Occurrences -> BOOLEAN]
      BY DEF IInv, TypeOK
    <3>2. CASE Tick  BY <3>1, <3>2 DEF Tick
    <3>6. CASE \E i \in DOMAIN messages : MetaProgresse(i) \/ Webhook(i)
      BY <3>1, <3>6 DEF MetaProgresse, Webhook
    <3>3. CASE \E u \in Utilisateurs : OptIn(u) \/ OptOut(u)
      <4>1. PICK u \in Utilisateurs : OptIn(u) \/ OptOut(u)  BY <3>3
      <4>2. UNCHANGED <<horloge, du>>  BY <4>1 DEF OptIn, OptOut
      <4>3. \E c \in Consentements : preference' = [preference EXCEPT ![u] = c]
        BY <4>1 DEF OptIn, OptOut, Consentements
      <4>4. QED  BY <3>1, <4>2, <4>3
    <3>4. CASE \E o \in Occurrences : Echoir(o)
      BY <3>1, <3>4 DEF Echoir
    <3>5. QED  BY <1>1, <3>2, <3>3, <3>4, <3>6 DEF Monde
  <2>2. message' \in [Runs -> 0 .. Len(messages')]
    BY <1>0, <1>1, MondeImmobile DEF IInv, TypeOK
  <2>3. QED  BY <1>0, <1>1, <2>1, <2>2, MondeImmobile DEF IInv, TypeOK
<1>2. ASSUME NEW r \in Runs, Etape(r) PROVE TypeOK'
  BY <1>0, <1>2, TypeRun DEF IInv, TypeOK
<1>3. CASE UNCHANGED vars
  BY <1>3 DEF vars, IInv, TypeOK
<1>4. QED  BY <1>1, <1>2, <1>3 DEF Next, Etape

\* One run moves: it must not meet another one, nor free what another holds.
LEMMA ExclusifSi ==
  ASSUME IInv, NEW r \in Runs,
         \A s \in Runs : s # r => pc'[s] = pc[s] /\ courante'[s] = courante[s],
         pc'[r] \in EnCours => \A s \in Runs : s # r /\ pc[s] \in EnCours => courante[s] # courante'[r],
         pc'[r] \in EnCours => dispatches'[courante'[r]].statut \in {"CLAIMED", "REVIEW_REQUIRED"},
         \A s \in Runs : s # r /\ pc[s] \in EnCours
           => dispatches'[courante[s]].statut \in {"CLAIMED", "REVIEW_REQUIRED"}
  PROVE  EnvoiExclusif' /\ Reclames'
<1>1. ASSUME NEW o \in Occurrences, NEW s \in Runs, NEW t \in Runs, s # t,
             pc'[s] \in EnCours, courante'[s] = o, pc'[t] \in EnCours, courante'[t] = o
      PROVE  FALSE
  <2>1. CASE s # r /\ t # r  BY <1>1, <2>1 DEF IInv, EnvoiExclusif, Travaille
  <2>2. CASE s = r  BY <1>1, <2>2
  <2>3. CASE t = r  BY <1>1, <2>3
  <2>4. QED  BY <2>1, <2>2, <2>3
<1>2. EnvoiExclusif'  BY <1>1 DEF EnvoiExclusif, Travaille
<1>3. ASSUME NEW s \in Runs, pc'[s] \in EnCours
      PROVE  dispatches'[courante'[s]].statut \in {"CLAIMED", "REVIEW_REQUIRED"}
  <2>1. CASE s = r  BY <1>3, <2>1
  <2>2. CASE s # r  BY <1>3, <2>2
  <2>3. QED  BY <2>1, <2>2
<1>4. Reclames'  BY <1>3 DEF Reclames
<1>5. QED  BY <1>2, <1>4

\* A claim is taken only where no run is at work, and left by its owner alone.
LEMMA EtapeExclusif ==
  ASSUME IInv, NEW r \in Runs, Etape(r)
  PROVE  EnvoiExclusif' /\ Reclames'
<1> DEFINE Rien1 == pc'[r] \notin EnCours /\ UNCHANGED <<courante, dispatches>>
<1>0. /\ TypeOK /\ EnvoiExclusif /\ Reclames
      /\ \A s \in Runs : s # r => pc'[s] = pc[s] /\ courante'[s] = courante[s]
  BY UnSeulBouge DEF IInv
<1>1. CASE Quarantine(r)
  <2>1. pc'[r] = "list" /\ UNCHANGED courante  BY <1>0, <1>1 DEF Quarantine, Va, TypeOK
  <2>2. \A o \in Occurrences : dispatches[o].statut \in {"CLAIMED", "REVIEW_REQUIRED"}
           => dispatches'[o].statut \in {"CLAIMED", "REVIEW_REQUIRED"}
    <3>1. TAKE o \in Occurrences
    <3>2. dispatches[o] \in Dispatch  BY <1>0 DEF TypeOK
    <3>3. dispatches'[o].statut = dispatches[o].statut \/ dispatches'[o].statut = "REVIEW_REQUIRED"
      BY <1>1, <3>2 DEF Quarantine, Dispatch
    <3>4. QED  BY <3>3
  <2>3. "list" \notin EnCours  BY DEF EnCours, AvantEnvoi, ApresEnvoi
  <2>4. QED  BY <1>0, <2>1, <2>2, <2>3, ExclusifSi DEF Reclames, TypeOK
<1>2. CASE ListCandidates(r) \/ Finish(r) \/ Interrupt(r)
  <2>1. Rien1
    BY <1>0, <1>2 DEF ListCandidates, Finish, Interrupt, Va, TypeOK, EnCours, AvantEnvoi, ApresEnvoi
  <2>2. QED  BY <1>0, <2>1 DEF EnvoiExclusif, Reclames, Travaille
<1>3. CASE Claim(r)
  <2>1. CASE UNCHANGED <<dispatches, courante, pc>>
    BY <1>0, <2>1 DEF EnvoiExclusif, Reclames, Travaille
  <2>2. ASSUME NEW o \in Occurrences, Reclamable(o),
               dispatches' = [dispatches EXCEPT ![o] =
                                [dispatches[o] EXCEPT !.statut = "CLAIMED", !.depuis = horloge]],
               courante' = [courante EXCEPT ![r] = o]
        PROVE  EnvoiExclusif' /\ Reclames'
    <3>1. \A s \in Runs : pc[s] \in EnCours => courante[s] # o
      BY <1>0, <2>2 DEF Reclames, Reclamable
    <3>2. dispatches[o] \in Dispatch  BY <1>0 DEF TypeOK
    <3>3. dispatches'[o].statut = "CLAIMED"  BY <1>0, <2>2, <3>2 DEF TypeOK, Dispatch
    <3>4. \A x \in Occurrences : x # o => dispatches'[x] = dispatches[x]  BY <1>0, <2>2 DEF TypeOK
    <3>5. courante'[r] = o  BY <1>0, <2>2 DEF TypeOK
    <3>6. \A s \in Runs : s # r /\ pc[s] \in EnCours => dispatches'[courante[s]] = dispatches[courante[s]]
      BY <1>0, <3>1, <3>4 DEF TypeOK
    <3>7. QED  BY <1>0, <3>1, <3>3, <3>5, <3>6, ExclusifSi DEF Reclames
  <2>3. QED  BY <1>0, <1>3, <2>1, <2>2 DEF Claim, TypeOK
<1>4. CASE SendTemplateToUser(r)
  <2>1. pc[r] \in EnCours /\ UNCHANGED <<courante, dispatches>>
    BY <1>4 DEF SendTemplateToUser, GetPreference, CreateOutboundAttempt, Send, MarkMessageSent,
       MarkMessageFailed, Marquer, Catch, EnCours, AvantEnvoi, ApresEnvoi
  <2>2. QED  BY <1>0, <2>1 DEF EnvoiExclusif, Reclames, Travaille
<1>5. CASE MarkDispatch(r)
  <2>1. pc[r] \in EnCours /\ pc'[r] = "claim" /\ UNCHANGED courante
    BY <1>0, <1>5 DEF MarkDispatch, Va, TypeOK, EnCours, ApresEnvoi
  <2>2. "claim" \notin EnCours  BY DEF EnCours, AvantEnvoi, ApresEnvoi
  <2>3. \A x \in Occurrences : x # courante[r] => dispatches'[x] = dispatches[x]
    BY <1>0, <1>5 DEF MarkDispatch, TypeOK
  <2>4. \A s \in Runs : s # r /\ pc[s] \in EnCours => courante[s] # courante[r]
    BY <1>0, <2>1 DEF EnvoiExclusif, Travaille, TypeOK
  <2>5. \A s \in Runs : s # r /\ pc[s] \in EnCours => dispatches'[courante[s]] = dispatches[courante[s]]
    BY <1>0, <2>3, <2>4 DEF TypeOK
  <2>6. QED  BY <1>0, <2>1, <2>2, <2>5, ExclusifSi DEF Reclames
<1>6. QED
  BY <1>1, <1>2, <1>3, <1>4, <1>5 DEF Etape, RunForDate

-----------------------------------------------------------------------------

\* A message created belongs to an occurrence that its run holds.
LEMMA Nouveau ==
  ASSUME IInv, RappelsAssumption, [Next]_vars,
         NEW j \in DOMAIN messages', j \notin DOMAIN messages
  PROVE  \E r \in Runs :
           /\ CreateOutboundAttempt(r)
           /\ j = Len(messages) + 1
           /\ messages'[j].occ = courante[r] /\ ~ messages'[j].identifie
           /\ pc[r] \in {"queue", "skip"}
           /\ dispatches[courante[r]].statut \in {"CLAIMED", "REVIEW_REQUIRED"}
<1>1. /\ Len(messages) \in Nat /\ DOMAIN messages = 1 .. Len(messages)
      /\ DOMAIN messages' = 1 .. Len(messages')
      /\ \/ Len(messages') = Len(messages)
         \/ /\ Len(messages') = Len(messages) + 1
            /\ \E r \in Runs : CreateOutboundAttempt(r)
  BY Croissance
<1>2. j \in 1 .. Len(messages') /\ j \notin 1 .. Len(messages)
  <2>1. j \in DOMAIN messages' /\ j \notin DOMAIN messages  OBVIOUS
  <2>2. QED  BY <1>1, <2>1
<1>3. j = Len(messages) + 1
  <2> DEFINE n == Len(messages)
             p == Len(messages')
  <2>1. n \in Nat /\ (p = n \/ p = n + 1) /\ j \in 1 .. p /\ j \notin 1 .. n  BY <1>1, <1>2
  <2> HIDE DEF n, p
  <2>2. j = n + 1  BY <2>1
  <2>3. QED  BY <2>2 DEF n
<1>4. PICK r \in Runs : CreateOutboundAttempt(r)
  <2>1. Len(messages') # Len(messages)  BY <1>2
  <2>2. QED  BY <1>1, <2>1
<1>5. pc[r] \in {"queue", "skip"}  BY <1>4 DEF CreateOutboundAttempt
<1>6. dispatches[courante[r]].statut \in {"CLAIMED", "REVIEW_REQUIRED"}
  BY <1>5 DEF IInv, Reclames, EnCours, AvantEnvoi
<1>7. messages'[j] = [occ |-> courante[r], statut |-> IF pc[r] = "queue" THEN "QUEUED" ELSE "SKIPPED",
                      provider |-> "NULL", identifie |-> FALSE, statutLe |-> 0]
  BY <1>3, <1>4, CreeMessage
<1>8. messages'[j].occ = courante[r] /\ ~ messages'[j].identifie  BY <1>7
<1>9. QED  BY <1>3, <1>4, <1>5, <1>6, <1>8

\* Attempts that were closed stay so, and a new one follows closed ones only.
LEMMA SuccessionsStep ==
  ASSUME IInv, RappelsAssumption, [Next]_vars
  PROVE  Successions' /\ Connus'
<1>1. /\ \A i \in DOMAIN messages : Suit(i)
      /\ Len(messages) \in Nat /\ DOMAIN messages = 1 .. Len(messages)
  BY Croissance
<1>2. ASSUME NEW i \in DOMAIN messages', NEW j \in DOMAIN messages', i < j,
             messages'[i].occ = messages'[j].occ
      PROVE  Ferme(i)'
  <2>1. CASE j \in DOMAIN messages
    <3>1. i \in DOMAIN messages  BY <1>1, <1>2, <2>1, Croissance
    <3>2. messages[i].occ = messages[j].occ  BY <1>1, <1>2, <2>1, <3>1 DEF Suit
    <3>3. Ferme(i)  BY <1>2, <2>1, <3>1, <3>2 DEF IInv, Successions
    <3>4. QED  BY <1>1, <3>1, <3>3 DEF Suit
  <2>2. CASE j \notin DOMAIN messages
    <3>1. PICK r \in Runs : /\ j = Len(messages) + 1 /\ messages'[j].occ = courante[r]
                            /\ pc[r] \in {"queue", "skip"}
      BY <2>2, Nouveau
    <3>2. i \in DOMAIN messages  BY <1>1, <1>2, <3>1, Croissance
    <3>3. messages[i].occ = courante[r]  BY <1>1, <1>2, <3>1, <3>2 DEF Suit
    <3>4. Ferme(i)  BY <3>1, <3>2, <3>3 DEF IInv, Tenus, Tient
    <3>5. QED  BY <1>1, <3>2, <3>4 DEF Suit
  <2>3. QED  BY <2>1, <2>2
<1>3. ASSUME NEW i \in DOMAIN messages', messages'[i].identifie
      PROVE  meta'[i] # <<>>
  <2>1. i \in DOMAIN messages  BY <1>3, Nouveau
  <2>2. QED  BY <1>1, <1>3, <2>1 DEF Suit
<1>4. QED  BY <1>2, <1>3 DEF Successions, Connus

\* A dispatch nobody writes still says the truth.
LEMMA AutreSort ==
  ASSUME IInv, RappelsAssumption, [Next]_vars, NEW o \in Occurrences,
         dispatches'[o] = dispatches[o]
  PROVE  Sort(o)'
<1>1. \A i \in DOMAIN messages : Suit(i) /\ i \in DOMAIN messages'
  BY Croissance
<1>2. Sort(o)  BY DEF IInv, Sorts
<1>3. ASSUME dispatches[o].statut \in {"ABSENT", "FAILED"}, NEW i \in DOMAIN messages', messages'[i].occ = o
      PROVE  i \in DOMAIN messages /\ messages[i].occ = o
  <2>1. i \in DOMAIN messages  BY <1>3, Nouveau
  <2>2. QED  BY <1>1, <1>3, <2>1 DEF Suit
<1>4. dispatches[o].statut = "ABSENT" => \A i \in DOMAIN messages' : messages'[i].occ # o
  BY <1>2, <1>3 DEF Sort
<1>5. ASSUME dispatches[o].statut = "FAILED"
      PROVE  /\ dispatches[o].message \in DOMAIN messages'
             /\ messages'[dispatches[o].message].occ = o
             /\ \A i \in DOMAIN messages' : messages'[i].occ = o => Ferme(i)'
  <2>1. ASSUME NEW i \in DOMAIN messages', messages'[i].occ = o PROVE Ferme(i)'
    <3>1. i \in DOMAIN messages /\ messages[i].occ = o  BY <1>3, <1>5, <2>1
    <3>2. Ferme(i)  BY <1>2, <1>5, <3>1 DEF Sort
    <3>3. QED  BY <1>1, <3>1, <3>2 DEF Suit
  <2>2. QED  BY <1>1, <1>2, <1>5, <2>1 DEF Sort, Suit
<1>6. dispatches[o].statut = "SENT" =>
       /\ dispatches[o].message \in DOMAIN messages'
       /\ messages'[dispatches[o].message].occ = o
       /\ messages'[dispatches[o].message].identifie
  BY <1>1, <1>2 DEF Sort, Suit
<1>7. QED  BY <1>4, <1>5, <1>6 DEF Sort

\* A run that another step leaves where it was still holds what it held.
LEMMA AutreTient ==
  ASSUME IInv, RappelsAssumption, [Next]_vars, NEW r \in Runs,
         pc'[r] = pc[r], courante'[r] = courante[r], message'[r] = message[r],
         ~ CreateOutboundAttempt(r)
  PROVE  Tient(r)'
<1>0. Tient(r) /\ \A s \in Runs : Tient(s)  BY DEF IInv, Tenus
<1>1. \A i \in DOMAIN messages : Suit(i) /\ i \in DOMAIN messages'
  BY Croissance
<1>2. ASSUME pc[r] \in EnCours, NEW i \in DOMAIN messages', messages'[i].occ = courante[r]
      PROVE  i \in DOMAIN messages /\ messages[i].occ = courante[r]
  <2>1. i \in DOMAIN messages
    <3>1. SUFFICES ASSUME i \notin DOMAIN messages PROVE FALSE  OBVIOUS
    <3>2. PICK s \in Runs : /\ CreateOutboundAttempt(s) /\ messages'[i].occ = courante[s]
                            /\ pc[s] \in {"queue", "skip"}
      BY <3>1, Nouveau
    <3>3. s = r
      BY <1>2, <3>2 DEF IInv, EnvoiExclusif, Travaille, EnCours, AvantEnvoi, TypeOK
    <3>4. QED  BY <3>2, <3>3
  <2>2. QED  BY <1>1, <1>2, <2>1 DEF Suit
<1>3. AvecMessage \subseteq EnCours /\ {"preference", "skip", "queue"} \subseteq EnCours
  BY DEF AvecMessage, EnCours, AvantEnvoi
<1>4. pc[r] \in {"preference", "skip", "queue"} =>
        \A i \in DOMAIN messages' : messages'[i].occ = courante[r] => Ferme(i)'
  BY <1>0, <1>1, <1>2, <1>3 DEF Tient, Suit
<1>5. ASSUME pc[r] \in AvecMessage
      PROVE  /\ message[r] \in DOMAIN messages'
             /\ messages'[message[r]].occ = courante[r]
             /\ \A i \in DOMAIN messages' : messages'[i].occ = courante[r] /\ i # message[r] => Ferme(i)'
  BY <1>0, <1>1, <1>2, <1>3, <1>5 DEF Tient, Suit
<1>6. ASSUME pc[r] \in AvecMessage, ~ messages[message[r]].identifie
      PROVE  messages'[message[r]] = messages[message[r]]
  <2>1. message[r] \in DOMAIN messages /\ messages[message[r]].occ = courante[r]
    BY <1>0, <1>6 DEF Tient
  <2>2. ASSUME NEW s \in Runs, Etape(s), pc[s] \in AvecMessage, message[s] = message[r]
        PROVE  FALSE
    <3>1. messages[message[s]].occ = courante[s]  BY <1>0, <2>2 DEF Tient
    <3>2. s = r
      BY <1>3, <1>6, <2>1, <2>2, <3>1 DEF IInv, EnvoiExclusif, Travaille, TypeOK
    <3>3. QED  BY <2>2, <3>2, UnSeulBouge DEF IInv
  <2>3. QED  BY <1>1, <1>6, <2>1, <2>2 DEF Suit
<1>7. pc[r] \in {"send", "accepte", "refuse"} =>
        messages'[message[r]].statut = "QUEUED" /\ ~ messages'[message[r]].identifie
  BY <1>0, <1>6 DEF Tient, AvecMessage, ApresEnvoi
<1>8. /\ pc[r] = "accepte" => meta'[message[r]] # <<>>
      /\ pc[r] = "dispatchSent" => messages'[message[r]].identifie
  BY <1>0, <1>1 DEF Tient, Suit, AvecMessage, ApresEnvoi
<1>9. ASSUME pc[r] = "dispatchFailed"
      PROVE  /\ messages'[message'[r]].statut \in {"FAILED", "SKIPPED"}
             /\ ~ (messages'[message'[r]].identifie /\ messages'[message'[r]].provider = "meta")
  <2>1. Ferme(message[r]) /\ message[r] \in DOMAIN messages
    BY <1>0, <1>9 DEF Tient, AvecMessage, ApresEnvoi
  <2>2. QED  BY <1>1, <2>1 DEF Suit, Ferme
<1>10. QED  BY <1>4, <1>5, <1>7, <1>8, <1>9 DEF Tient, Ferme

\* A dispatch is marked with the message its run holds; a claim says nothing yet.
LEMMA SortsStep ==
  ASSUME IInv, RappelsAssumption, [Next]_vars
  PROVE  Sorts'
<1>1. ASSUME NEW o \in Occurrences,
             dispatches'[o] = dispatches[o] \/ dispatches'[o].statut \in {"CLAIMED", "REVIEW_REQUIRED"}
      PROVE  Sort(o)'
  <2>1. CASE dispatches'[o] = dispatches[o]  BY <2>1, AutreSort
  <2>2. CASE dispatches'[o].statut \in {"CLAIMED", "REVIEW_REQUIRED"}  BY <2>2 DEF Sort
  <2>3. QED  BY <1>1, <2>1, <2>2
<1>2. TypeOK /\ \A r \in Runs : Tient(r)  BY DEF IInv, Tenus
<1>3. CASE UNCHANGED dispatches  BY <1>1, <1>3 DEF Sorts
<1>4. ASSUME NEW r \in Runs, Quarantine(r)
      PROVE  Sorts'
  <2>1. SUFFICES ASSUME NEW o \in Occurrences PROVE Sort(o)'  BY DEF Sorts
  <2>2. dispatches[o] \in Dispatch  BY <1>2 DEF TypeOK
  <2>3. dispatches'[o] = dispatches[o] \/ dispatches'[o].statut = "REVIEW_REQUIRED"
    BY <1>4, <2>2 DEF Quarantine, Dispatch
  <2>4. QED  BY <1>1, <2>3
<1>5. ASSUME NEW r \in Runs, Claim(r), ~ UNCHANGED dispatches
      PROVE  Sorts'
  <2>1. PICK c \in Occurrences :
          dispatches' = [dispatches EXCEPT ![c] =
                           [dispatches[c] EXCEPT !.statut = "CLAIMED", !.depuis = horloge]]
    BY <1>2, <1>5 DEF Claim, TypeOK
  <2>2. dispatches[c] \in Dispatch  BY <1>2 DEF TypeOK
  <2>3. dispatches'[c].statut = "CLAIMED"  BY <1>2, <2>1, <2>2 DEF TypeOK, Dispatch
  <2>4. \A o \in Occurrences : o # c => dispatches'[o] = dispatches[o]  BY <1>2, <2>1 DEF TypeOK
  <2>5. QED  BY <1>1, <2>3, <2>4 DEF Sorts
<1>6. ASSUME NEW r \in Runs, MarkDispatch(r)
      PROVE  Sorts'
  <2>0. PICK c \in Occurrences : c = courante[r]  BY <1>2 DEF TypeOK
  <2> DEFINE d == [dispatches[c] EXCEPT !.statut = IF pc[r] = "dispatchSent" THEN "SENT" ELSE "FAILED",
                                        !.message = message[r]]
  <2>1. c \in Occurrences /\ dispatches[c] \in Dispatch  BY <1>2 DEF TypeOK
  <2>2. d.statut = (IF pc[r] = "dispatchSent" THEN "SENT" ELSE "FAILED") /\ d.message = message[r]
    BY <2>1 DEF Dispatch
  <2>3. dispatches' = [dispatches EXCEPT ![c] = d] /\ UNCHANGED messages  BY <1>6, <2>0 DEF MarkDispatch
  <2> HIDE DEF d
  <2>4. dispatches'[c] = d /\ \A o \in Occurrences : o # c => dispatches'[o] = dispatches[o]
    BY <1>2, <2>1, <2>3 DEF TypeOK
  <2>5. pc[r] \in {"dispatchSent", "dispatchFailed"} /\ pc[r] \in AvecMessage
    BY <1>6 DEF MarkDispatch, AvecMessage, ApresEnvoi
  <2>6. /\ message[r] \in DOMAIN messages /\ messages[message[r]].occ = c
        /\ \A i \in DOMAIN messages : messages[i].occ = c /\ i # message[r] => Ferme(i)
        /\ pc[r] = "dispatchSent" => messages[message[r]].identifie
        /\ pc[r] = "dispatchFailed" => Ferme(message[r])
    BY <1>2, <2>0, <2>5 DEF Tient
  <2>7. Sort(c)'
    BY <2>2, <2>3, <2>4, <2>5, <2>6 DEF Sort, Ferme
  <2>8. QED  BY <1>1, <2>4, <2>7 DEF Sorts
<1>7. ASSUME NEW r \in Runs,
             ListCandidates(r) \/ Finish(r) \/ SendTemplateToUser(r) \/ Interrupt(r)
      PROVE  UNCHANGED dispatches
  BY <1>7 DEF ListCandidates, Finish, Interrupt, SendTemplateToUser, GetPreference,
     CreateOutboundAttempt, Send, MarkMessageSent, MarkMessageFailed, Marquer, Catch
<1>8. CASE Monde  BY <1>3, <1>8, MondeImmobile
<1>9. CASE UNCHANGED vars  BY <1>3, <1>9 DEF vars
<1>10. QED
  BY <1>3, <1>4, <1>5, <1>6, <1>7, <1>8, <1>9 DEF Next, RunForDate

\* A step of a run keeps what that run holds.
LEMMA TientStep ==
  ASSUME IInv, RappelsAssumption, NEW r \in Runs, Etape(r)
  PROVE  Tient(r)'
<1>1. /\ TypeOK /\ Tient(r) /\ \A o \in Occurrences : Sort(o)
  BY DEF IInv, Tenus, Sorts
<1>2. CASE pc'[r] \notin EnCours
  <2>1. AvecMessage \subseteq EnCours /\ {"preference", "skip", "queue"} \subseteq EnCours
    BY DEF AvecMessage, EnCours, AvantEnvoi
  <2>2. pc'[r] \notin AvecMessage /\ pc'[r] \notin {"preference", "skip", "queue"}  BY <1>2, <2>1
  <2>3. QED  BY <2>2 DEF Tient, AvecMessage, ApresEnvoi
<1>3. CASE Quarantine(r) \/ ListCandidates(r) \/ Finish(r) \/ MarkDispatch(r) \/ Interrupt(r)
  <2>1. pc'[r] \in {"list", "claim", "fini", "arrete"}
    BY <1>1, <1>3 DEF Quarantine, ListCandidates, Finish, MarkDispatch, Interrupt, Va, TypeOK
  <2>2. pc'[r] \notin EnCours  BY <2>1 DEF EnCours, AvantEnvoi, ApresEnvoi
  <2>3. QED  BY <1>2, <2>2
<1>4. CASE Claim(r)
  <2>1. CASE UNCHANGED <<dispatches, courante, pc>>
    <3>1. pc'[r] = "claim"  BY <1>4, <2>1 DEF Claim
    <3>2. QED  BY <1>2, <3>1 DEF EnCours, AvantEnvoi, ApresEnvoi
  <2>2. ASSUME NEW o \in Occurrences, Reclamable(o), courante' = [courante EXCEPT ![r] = o],
               Va(r, "preference")
        PROVE  Tient(r)'
    <3>1. pc'[r] = "preference" /\ courante'[r] = o /\ UNCHANGED messages
      BY <1>1, <1>4, <2>2 DEF Claim, Va, TypeOK
    <3>2. \A i \in DOMAIN messages : messages[i].occ = o => Ferme(i)
      BY <1>1, <2>2 DEF Reclamable, Sort
    <3>3. QED  BY <3>1, <3>2 DEF Tient, Ferme, AvecMessage, ApresEnvoi
  <2>3. QED  BY <1>1, <1>4, <2>1, <2>2 DEF Claim, TypeOK
<1>5. CASE GetPreference(r)
  <2>1. /\ pc[r] = "preference" /\ pc'[r] \in {"queue", "skip"}
        /\ courante'[r] = courante[r] /\ UNCHANGED messages
    BY <1>1, <1>5 DEF GetPreference, Va, TypeOK
  <2>2. QED  BY <1>1, <2>1 DEF Tient, Ferme, AvecMessage, ApresEnvoi
<1>6. CASE CreateOutboundAttempt(r)
  <2> DEFINE n == Len(messages) + 1
  <2>1. /\ pc[r] \in {"queue", "skip"} /\ courante'[r] = courante[r] /\ message'[r] = n
        /\ pc'[r] = IF pc[r] = "queue" THEN "send" ELSE "dispatchFailed"
    BY <1>1, <1>6 DEF CreateOutboundAttempt, Va, TypeOK
  <2>2. /\ messages' \in Seq(Message) /\ Len(messages') = n /\ Len(messages) \in Nat
        /\ \A i \in DOMAIN messages : Suit(i)
        /\ messages'[n] =
             [occ |-> courante[r], statut |-> IF pc[r] = "queue" THEN "QUEUED" ELSE "SKIPPED",
              provider |-> "NULL", identifie |-> FALSE, statutLe |-> 0]
    BY <1>1, <1>6, CreeMessage DEF TypeOK
  <2>3. messages \in Seq(Message)  BY <1>1 DEF TypeOK
  <2>4. n \in DOMAIN messages' /\ \A i \in DOMAIN messages' : i # n => i \in DOMAIN messages
    BY <2>2, <2>3
  <2>5. \A i \in DOMAIN messages' : messages'[i].occ = courante[r] /\ i # n => Ferme(i)'
    BY <1>1, <2>1, <2>2, <2>4 DEF Tient, Suit
  <2>6. messages'[n].occ = courante[r] /\ ~ messages'[n].identifie  BY <2>2
  <2>7. messages'[n].statut = IF pc[r] = "queue" THEN "QUEUED" ELSE "SKIPPED"  BY <2>2
  <2> HIDE DEF n
  <2>8. CASE pc[r] = "queue"
    BY <2>1, <2>4, <2>5, <2>6, <2>7, <2>8 DEF Tient
  <2>9. CASE pc[r] = "skip"
    BY <2>1, <2>4, <2>5, <2>6, <2>7, <2>9 DEF Tient, Ferme
  <2>10. QED  BY <2>1, <2>8, <2>9
<1>7. CASE Send(r)
  <2>1. /\ pc[r] = "send" /\ pc'[r] \in {"accepte", "refuse"}
        /\ courante'[r] = courante[r] /\ message'[r] = message[r] /\ UNCHANGED messages
    BY <1>1, <1>7 DEF Send, Va, TypeOK
  <2>2. message[r] \in DOMAIN messages  BY <1>1, <2>1 DEF Tient, AvecMessage
  <2>3. pc'[r] = "accepte" => meta'[message[r]] # <<>>
    <3>1. Len(meta) = Len(messages) /\ meta \in Seq(Seq(Evenements)) /\ messages \in Seq(Message)
      BY <1>1 DEF TypeOK
    <3>2. message[r] \in DOMAIN meta  BY <2>2, <3>1
    <3>3. pc'[r] = "accepte" => meta' = [meta EXCEPT ![message[r]] = <<"ACCEPTE">>]
      BY <1>1, <1>7 DEF Send, Va, TypeOK
    <3>4. <<"ACCEPTE">> # <<>>  OBVIOUS
    <3>5. ASSUME NEW k \in DOMAIN meta, NEW h, meta' = [meta EXCEPT ![k] = h]
          PROVE  meta'[k] = h
      BY <3>1, <3>5
    <3>6. QED  BY <3>2, <3>3, <3>4, <3>5
  <2>4. QED  BY <1>1, <2>1, <2>3 DEF Tient, Ferme, AvecMessage, ApresEnvoi
<1>8. CASE MarkMessageSent(r) \/ MarkMessageFailed(r) \/ Catch(r)
  <2>1. /\ \A i \in DOMAIN messages : Suit(i)
        /\ messages' \in Seq(Message) /\ Len(messages') = Len(messages)
        /\ pc'[r] = "dispatchSent" => messages'[message[r]].identifie
        /\ pc'[r] = "dispatchFailed" => Ferme(message[r])'
        /\ pc'[r] \in {"catch", "dispatchSent", "dispatchFailed"}
    BY <1>8, MarqueMessage
  <2>2. DOMAIN messages' = DOMAIN messages  BY <1>1, <2>1 DEF TypeOK
  <2>3. pc[r] \in AvecMessage /\ UNCHANGED <<message, courante>>
    BY <1>8 DEF MarkMessageSent, MarkMessageFailed, Marquer, Catch, AvecMessage, ApresEnvoi
  <2>4. /\ message[r] \in DOMAIN messages' /\ messages'[message[r]].occ = courante[r]
        /\ \A i \in DOMAIN messages' : messages'[i].occ = courante[r] /\ i # message[r] => Ferme(i)'
    BY <1>1, <2>1, <2>2, <2>3 DEF Tient, Suit
  <2>5. QED  BY <2>1, <2>3, <2>4 DEF Tient, Ferme
<1>9. QED
  BY <1>3, <1>4, <1>5, <1>6, <1>7, <1>8 DEF Etape, RunForDate, SendTemplateToUser

\* Every step keeps what every run holds.
LEMMA TenusStep ==
  ASSUME IInv, RappelsAssumption, [Next]_vars
  PROVE  Tenus'
<1>1. ASSUME NEW s \in Runs, pc'[s] = pc[s], courante'[s] = courante[s], message'[s] = message[s]
      PROVE  Tient(s)'
  <2>1. ~ CreateOutboundAttempt(s)
    BY <1>1 DEF CreateOutboundAttempt, Va, IInv, TypeOK
  <2>2. QED  BY <1>1, <2>1, AutreTient
<1>2. CASE Monde  BY <1>1, <1>2, MondeImmobile DEF Tenus
<1>3. ASSUME NEW r \in Runs, Etape(r) PROVE Tenus'
  <2>1. Tient(r)'  BY <1>3, TientStep
  <2>2. \A s \in Runs : s # r => Tient(s)'  BY <1>1, <1>3, UnSeulBouge DEF IInv
  <2>3. QED  BY <2>1, <2>2 DEF Tenus
<1>4. CASE UNCHANGED vars  BY <1>1, <1>4 DEF vars, Tenus
<1>5. QED  BY <1>2, <1>3, <1>4 DEF Next, Etape

\* The invariant holds at first.
LEMMA InvInit == ASSUME Init, RappelsAssumption PROVE IInv
<1>1. TypeOK
  <2>1. dispatches \in [Occurrences -> Dispatch]  BY DEF Init, Dispatch, StatutsDispatch
  <2>2. messages \in Seq(Message) /\ meta \in Seq(Seq(Evenements)) /\ Len(meta) = Len(messages)
    BY DEF Init
  <2>3. pc \in [Runs -> Etapes] /\ message \in [Runs -> 0 .. Len(messages)]  BY DEF Init, Etapes
  <2>4. QED  BY <2>1, <2>2, <2>3 DEF Init, TypeOK
<1>2. \A r \in Runs : pc[r] \notin EnCours
  BY DEF Init, EnCours, AvantEnvoi, ApresEnvoi
<1>3. EnvoiExclusif /\ Reclames  BY <1>2 DEF EnvoiExclusif, Reclames, Travaille
<1>4. DOMAIN messages = {}  BY DEF Init
<1>5. Successions /\ Connus  BY <1>4 DEF Successions, Connus
<1>6. Sorts  BY <1>4 DEF Init, Sorts, Sort
<1>7. Tenus  BY DEF Init, Tenus, Tient, AvecMessage, ApresEnvoi
<1>8. QED  BY <1>1, <1>3, <1>5, <1>6, <1>7 DEF IInv

\* The invariant is inductive.
LEMMA InvStep == ASSUME IInv, RappelsAssumption, [Next]_vars PROVE IInv'
<1>1. EnvoiExclusif' /\ Reclames'
  <2>1. Monde \/ (\E r \in Runs : Etape(r)) \/ UNCHANGED vars  BY DEF Next, Etape
  <2>2. CASE \E r \in Runs : Etape(r)  BY <2>2, EtapeExclusif
  <2>3. CASE UNCHANGED <<pc, courante, dispatches>>
    BY <2>3 DEF IInv, EnvoiExclusif, Reclames, Travaille
  <2>4. QED  BY <2>1, <2>2, <2>3, MondeImmobile DEF vars
<1>2. QED
  BY <1>1, TypeStep, SuccessionsStep, SortsStep, TenusStep DEF IInv

LEMMA Invariant == ASSUME RappelsAssumption PROVE Spec => []IInv
<1>1. Init => IInv  BY InvInit
<1>2. IInv /\ [Next]_vars => IInv'  BY InvStep
<1>3. QED  BY <1>1, <1>2, PTL DEF Spec

-----------------------------------------------------------------------------

\* The variables keep their types.
THEOREM TypesCorrects == ASSUME RappelsAssumption PROVE Spec => []TypeOK
<1>1. IInv => TypeOK  BY DEF IInv
<1>2. QED  BY <1>1, Invariant, PTL

\* At most one run sends a given reminder: the conditional upsert is enough.
THEOREM EnvoisExclusifs == ASSUME RappelsAssumption PROVE Spec => []EnvoiExclusif
<1>1. IInv => EnvoiExclusif  BY DEF IInv
<1>2. QED  BY <1>1, Invariant, PTL

\* A reminder is attempted again only over attempts that failed for good.
THEOREM RelancesJustifiees == ASSUME RappelsAssumption PROVE Spec => []RelanceJustifiee
<1>1. IInv => RelanceJustifiee
  <2>1. SUFFICES ASSUME IInv, NEW i \in DOMAIN messages, NEW j \in DOMAIN messages, i < j,
                        messages[i].occ = messages[j].occ
                 PROVE  messages[i].statut \in {"FAILED", "SKIPPED"}
    BY DEF RelanceJustifiee
  <2>2. Ferme(i)  BY <2>1 DEF IInv, Successions
  <2>3. QED  BY <2>2 DEF Ferme
<1>2. QED  BY <1>1, Invariant, PTL

\* The journal of dispatches and the journal of messages agree.
THEOREM DispatchsFideles == ASSUME RappelsAssumption PROVE Spec => []DispatchFidele
<1>1. IInv => DispatchFidele
  <2>1. SUFFICES ASSUME IInv, NEW o \in Occurrences
                 PROVE  LET d == dispatches[o] IN
                   /\ d.statut = "SENT" => /\ d.message \in DOMAIN messages
                                           /\ messages[d.message].occ = o
                                           /\ messages[d.message].identifie
                                           /\ meta[d.message] # <<>>
                   /\ d.statut = "FAILED" => /\ d.message \in DOMAIN messages
                                             /\ messages[d.message].statut \in {"FAILED", "SKIPPED"}
    BY DEF DispatchFidele
  <2>2. Sort(o) /\ Connus  BY <2>1 DEF IInv, Sorts
  <2>3. QED  BY <2>2 DEF Sort, Connus, Ferme
<1>2. QED  BY <1>1, Invariant, PTL

\* No webhook, however late or repeated, downgrades a delivery.
THEOREM StatutsCroissants == ASSUME RappelsAssumption PROVE Spec => JamaisRetrograde
<1> DEFINE A == \A i \in DOMAIN messages :
                  \/ Rang[messages[i].statut] <= Rang[messages'[i].statut]
                  \/ \E r \in Runs : pc[r] = "catch" /\ message[r] = i
<1>1. IInv /\ [Next]_vars => A
  <2>1. SUFFICES ASSUME IInv, [Next]_vars PROVE A  OBVIOUS
  <2>2. \A i \in DOMAIN messages : Suit(i)  BY <2>1, Croissance
  <2>3. QED  BY <2>2 DEF Suit
<1>2. QED  BY <1>1, Invariant, PTL DEF Spec, JamaisRetrograde

\* What was sent, or left in doubt by a run that is gone, is never taken again.
THEOREM QuarantainesDefinitives == ASSUME RappelsAssumption PROVE Spec => QuarantaineDefinitive
<1> DEFINE A == \A o \in Occurrences :
                  \/ dispatches[o].statut = "SENT"
                  \/ dispatches[o].statut = "REVIEW_REQUIRED" /\ \A r \in Runs : ~ Travaille(r, o)
                  => dispatches'[o] = dispatches[o]
<1>1. IInv /\ [Next]_vars => A
  <2>1. SUFFICES ASSUME IInv, [Next]_vars, NEW o \in Occurrences,
                        \/ dispatches[o].statut = "SENT"
                        \/ /\ dispatches[o].statut = "REVIEW_REQUIRED"
                           /\ \A r \in Runs : ~ Travaille(r, o)
                 PROVE  dispatches'[o] = dispatches[o]
    OBVIOUS
  <2>2. TypeOK /\ Reclames  BY <2>1 DEF IInv
  <2>3. CASE UNCHANGED dispatches  BY <2>3
  <2>4. ASSUME NEW r \in Runs, Quarantine(r) PROVE dispatches'[o] = dispatches[o]
    BY <2>1, <2>4 DEF Quarantine
  <2>5. ASSUME NEW r \in Runs, Claim(r), ~ UNCHANGED dispatches PROVE dispatches'[o] = dispatches[o]
    <3>1. PICK c \in Occurrences :
            /\ Reclamable(c)
            /\ dispatches' = [dispatches EXCEPT ![c] =
                                [dispatches[c] EXCEPT !.statut = "CLAIMED", !.depuis = horloge]]
      BY <2>2, <2>5 DEF Claim, TypeOK
    <3>2. c # o  BY <2>1, <3>1 DEF Reclamable
    <3>3. QED  BY <2>2, <3>1, <3>2 DEF TypeOK
  <2>6. ASSUME NEW r \in Runs, MarkDispatch(r) PROVE dispatches'[o] = dispatches[o]
    <3>1. pc[r] \in EnCours  BY <2>6 DEF MarkDispatch, EnCours, ApresEnvoi
    <3>2. courante[r] # o  BY <2>1, <2>2, <3>1 DEF Reclames, Travaille
    <3>3. QED  BY <2>2, <2>6, <3>2 DEF MarkDispatch, TypeOK
  <2>7. ASSUME NEW r \in Runs,
               ListCandidates(r) \/ Finish(r) \/ SendTemplateToUser(r) \/ Interrupt(r)
        PROVE  UNCHANGED dispatches
    BY <2>7 DEF ListCandidates, Finish, Interrupt, SendTemplateToUser, GetPreference,
       CreateOutboundAttempt, Send, MarkMessageSent, MarkMessageFailed, Marquer, Catch
  <2>8. CASE Monde  BY <2>3, <2>8, MondeImmobile
  <2>9. CASE UNCHANGED vars  BY <2>3, <2>9 DEF vars
  <2>10. QED  BY <2>1, <2>3, <2>4, <2>5, <2>6, <2>7, <2>8, <2>9 DEF Next, RunForDate
<1>2. QED  BY <1>1, Invariant, PTL DEF Spec, QuarantaineDefinitive
=============================================================================
