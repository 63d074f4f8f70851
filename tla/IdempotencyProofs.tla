------------------------- MODULE IdempotencyProofs -------------------------
(***************************************************************************)
(* Idempotency for any number of keys, calls and payloads: what holds      *)
(* whatever fails, and what holds as long as nothing fails between the     *)
(* handler's COMMIT and the UPDATE that stores its answer.                 *)
(***************************************************************************)
EXTENDS Formulaires, TLAPS

AuTravail == {"handler", "complete", "cleanup"}

\* The call at work on a key owns its row, which has no answer yet; under the
\* catch it may have one, when the answer to the UPDATE was lost.
Reclame(c) ==
  pc[c] \in AuTravail =>
    /\ cles[CleDe[c]] # Rien
    /\ cles[CleDe[c]].proprietaire = c
    /\ pc[c] # "cleanup" \/ "apresCommit" \notin Pannes => cles[CleDe[c]].corps = Rien

\* Where a call stands says whether it can have written.
Progres(c) ==
  /\ pc[c] = "complete" => c \in commis
  /\ pc[c] \in {"claim", "handler", "lookup"} => c \notin commis

\* A row belongs to its key, and a stored answer is that of a call that wrote.
LigneSaine(k) ==
  cles[k] # Rien =>
    /\ CleDe[cles[k].proprietaire] = k
    /\ cles[k].corps # Rien =>
         cles[k].corps = cles[k].proprietaire /\ cles[k].corps \in commis

Fidele(c) ==
  pc[c] = "ok" => /\ reponse[c] \in commis
                  /\ CleDe[reponse[c]] = CleDe[c]
                  /\ ChargeDe[reponse[c]] = ChargeDe[c]

IInv ==
  /\ TypeOK
  /\ \A c \in Appels : Reclame(c) /\ Progres(c) /\ Fidele(c)
  /\ \A k \in Cles : LigneSaine(k)


\* No attempt has begun: the invariant holds at the start.
LEMMA InvInit == Init => IInv
BY IdempotencyAssumption DEF Init, IInv, TypeOK, Reclame, Progres, LigneSaine,
   Fidele, AuTravail, EnCours

-----------------------------------------------------------------------------
(* The inductive step, one lemma per statement of run().                   *)

\* What a step of c leaves alone of the others.
Autres(c) == \A d \in Appels : d # c => pc'[d] = pc[d] /\ reponse'[d] = reponse[d]

\* The INSERT of a key keeps the invariant: the unique index lets one claim in.
LEMMA EtapeClaim ==
  ASSUME IInv, NEW c \in Appels, Claim(c) PROVE IInv'
<1> DEFINE k == CleDe[c]
           ligne == [proprietaire |-> c, corps |-> Rien]
<1> USE DEF IInv, TypeOK
<1>1. k \in Cles /\ ligne \in Lignes /\ ligne # Rien
  BY IdempotencyAssumption DEF Lignes
<1>2. pc[c] = "claim" /\ UNCHANGED <<commis, reponse>>
  BY DEF Claim
<1>3. CASE cles[k] = Rien
  <2>1. cles' = [cles EXCEPT ![k] = ligne] /\ pc' = [pc EXCEPT ![c] = "handler"]
    BY <1>3 DEF Claim, Va
  <2>2. TypeOK'
    BY <1>1, <1>2, <2>1 DEF EnCours
  <2>3. ASSUME NEW d \in Appels PROVE (Reclame(d) /\ Progres(d) /\ Fidele(d))'
    <3>1. CASE d = c
      BY <1>1, <1>2, <2>1, <3>1 DEF Reclame, Progres, Fidele
    <3>2. CASE d # c
      BY <1>2, <1>3, <2>1, <3>2 DEF Reclame, Progres, Fidele
    <3> QED
      BY <3>1, <3>2
  <2>4. ASSUME NEW x \in Cles PROVE LigneSaine(x)'
    BY <1>2, <2>1 DEF LigneSaine
  <2> QED
    BY <2>2, <2>3, <2>4
<1>4. CASE cles[k] # Rien
  <2>1. cles' = cles /\ pc' = [pc EXCEPT ![c] = "lookup"]
    BY <1>4 DEF Claim, Va
  <2>2. TypeOK'
    BY <1>2, <2>1 DEF EnCours
  <2>3. ASSUME NEW d \in Appels PROVE (Reclame(d) /\ Progres(d) /\ Fidele(d))'
    BY <1>2, <2>1 DEF Reclame, Progres, Fidele, AuTravail
  <2>4. ASSUME NEW x \in Cles PROVE LigneSaine(x)'
    BY <1>2, <2>1 DEF LigneSaine
  <2> QED
    BY <2>2, <2>3, <2>4
<1> QED
  BY <1>3, <1>4

\* The handler's outcomes move the call on and may add its commit.
LEMMA EtapeHandler ==
  ASSUME IInv, NEW c \in Appels,
         HandlerOk(c) \/ HandlerRejects(c) \/ HandlerFailsAfterCommit(c)
  PROVE  IInv'
<1> USE DEF IInv, TypeOK
<1>1. /\ pc[c] = "handler" /\ UNCHANGED <<cles, reponse>>
      /\ \/ pc' = [pc EXCEPT ![c] = "complete"] /\ commis' = commis \cup {c}
         \/ pc' = [pc EXCEPT ![c] = "cleanup"] /\ commis' \in {commis, commis \cup {c}}
  BY DEF HandlerOk, HandlerRejects, HandlerFailsAfterCommit, Va
<1>2. TypeOK'
  BY <1>1 DEF EnCours
<1>3. ASSUME NEW d \in Appels PROVE (Reclame(d) /\ Progres(d) /\ Fidele(d))'
  BY <1>1 DEF Reclame, Progres, Fidele, AuTravail
<1>4. ASSUME NEW x \in Cles PROVE LigneSaine(x)'
  BY <1>1 DEF LigneSaine
<1> QED
  BY <1>2, <1>3, <1>4

\* Storing the answer keeps the invariant, whether its call is told so or not:
\* the row is still its claimer's.
LEMMA EtapeStockee ==
  ASSUME IInv, NEW c \in Appels, pc[c] = "complete", cles' = Stockee(c), commis' = commis,
         \/ reponse' = [reponse EXCEPT ![c] = c] /\ pc' = [pc EXCEPT ![c] = "ok"]
         \/ /\ "apresCommit" \in Pannes
            /\ reponse' = reponse /\ pc' = [pc EXCEPT ![c] = "cleanup"]
  PROVE  IInv'
<1> DEFINE k == CleDe[c]
<1> USE DEF IInv, TypeOK
<1>1. k \in Cles /\ Rien \notin Lignes
  BY IdempotencyAssumption
<1>2. pc[c] = "complete" /\ c \in commis /\ cles[k] # Rien
      /\ cles[k].proprietaire = c /\ cles[k].corps = Rien
  BY DEF Reclame, Progres, AuTravail
<1>3. /\ cles' = [cles EXCEPT ![k].corps = c] /\ commis' = commis
      /\ \/ reponse' = [reponse EXCEPT ![c] = c] /\ pc' = [pc EXCEPT ![c] = "ok"]
         \/ /\ "apresCommit" \in Pannes
            /\ reponse' = reponse /\ pc' = [pc EXCEPT ![c] = "cleanup"]
  BY <1>2 DEF Stockee, Sienne
<1>4. cles[k] \in Lignes
  BY <1>1, <1>2
<1>5. cles'[k] \in Lignes /\ cles'[k] # Rien
      /\ cles'[k].proprietaire = c /\ cles'[k].corps = c
  <2> DEFINE ligne == [cles[k] EXCEPT !.corps = c]
  <2>1. ligne \in Lignes /\ ligne.proprietaire = c /\ ligne.corps = c
    BY <1>2, <1>4 DEF Lignes
  <2>2. cles'[k] = ligne
    BY <1>1, <1>3
  <2> HIDE DEF ligne
  <2> QED
    BY <1>1, <2>1, <2>2
<1>6. \A x \in Cles : x # k => cles'[x] = cles[x]
  BY <1>3
<1>7. TypeOK'
  <2>1. cles' \in [Cles -> Lignes \cup {Rien}]
    BY <1>3, <1>5, <1>6
  <2> QED
    BY <1>3, <2>1 DEF Issues, EnCours
<1>8. ASSUME NEW d \in Appels PROVE (Reclame(d) /\ Progres(d) /\ Fidele(d))'
  <2>1. CASE d = c
    BY <1>1, <1>2, <1>3, <1>5, <2>1 DEF Reclame, Progres, Fidele, AuTravail
  <2>2. CASE d # c
    <3>1. Reclame(d)'
      <4>1. pc[d] \in AuTravail => CleDe[d] # k /\ CleDe[d] \in Cles
        BY <1>2, <2>2, IdempotencyAssumption DEF Reclame
      <4> QED
        BY <1>3, <1>6, <2>2, <4>1 DEF Reclame
    <3>2. Progres(d)' /\ Fidele(d)'
      BY <1>3, <2>2 DEF Progres, Fidele
    <3> QED
      BY <3>1, <3>2
  <2> QED
    BY <2>1, <2>2
<1>9. ASSUME NEW x \in Cles PROVE LigneSaine(x)'
  BY <1>2, <1>3, <1>5, <1>6 DEF LigneSaine
<1> QED
  BY <1>7, <1>8, <1>9

\* Deleting the key after a failure keeps the invariant.
LEMMA EtapeCleanup ==
  ASSUME IInv, NEW c \in Appels, Cleanup(c) PROVE IInv'
<1> DEFINE k == CleDe[c]
<1> USE DEF IInv, TypeOK
<1>1. k \in Cles
  BY IdempotencyAssumption
<1>2. pc[c] = "cleanup" /\ cles[k] # Rien /\ cles[k].proprietaire = c
  BY DEF Cleanup, Reclame, AuTravail
<1>3. /\ cles' = [cles EXCEPT ![k] = Rien] /\ UNCHANGED <<commis, reponse>>
      /\ pc' = [pc EXCEPT ![c] = "error"]
  BY <1>2 DEF Cleanup, Sienne, Va
<1>4. TypeOK'
  BY <1>3 DEF Issues
<1>5. ASSUME NEW d \in Appels PROVE (Reclame(d) /\ Progres(d) /\ Fidele(d))'
  <2>1. CASE d = c
    BY <1>3, <2>1 DEF Reclame, Progres, Fidele, AuTravail
  <2>2. CASE d # c
    <3>1. pc[d] \in AuTravail => CleDe[d] # k
      BY <1>2, <2>2 DEF Reclame
    <3> QED
      BY <1>3, <2>2, <3>1 DEF Reclame, Progres, Fidele
  <2> QED
    BY <2>1, <2>2
<1>6. ASSUME NEW x \in Cles PROVE LigneSaine(x)'
  BY <1>3 DEF LigneSaine
<1> QED
  BY <1>4, <1>5, <1>6

\* Reading another attempt's key keeps the invariant.
LEMMA EtapeLookup ==
  ASSUME IInv, NEW c \in Appels, Lookup(c) PROVE IInv'
<1> DEFINE k == CleDe[c]
<1> USE DEF IInv, TypeOK
<1>1. k \in Cles /\ pc[c] = "lookup" /\ UNCHANGED <<cles, commis>>
  BY IdempotencyAssumption DEF Lookup
<1>2. CASE /\ cles[k] # Rien /\ cles[k].corps # Rien
           /\ ChargeDe[cles[k].proprietaire] = ChargeDe[c]
  <2>1. reponse' = [reponse EXCEPT ![c] = cles[k].corps] /\ pc' = [pc EXCEPT ![c] = "ok"]
    BY <1>2 DEF Lookup, Va
  <2>2. CleDe[cles[k].corps] = k /\ ChargeDe[cles[k].corps] = ChargeDe[c]
        /\ cles[k].corps \in commis
    BY <1>1, <1>2 DEF LigneSaine
  <2>3. TypeOK'
    BY <1>1, <2>1, <2>2 DEF Issues
  <2>4. ASSUME NEW d \in Appels PROVE (Reclame(d) /\ Progres(d) /\ Fidele(d))'
    BY <1>1, <2>1, <2>2 DEF Reclame, Progres, Fidele, AuTravail
  <2>5. ASSUME NEW x \in Cles PROVE LigneSaine(x)'
    BY <1>1 DEF LigneSaine
  <2> QED
    BY <2>3, <2>4, <2>5
<1>3. CASE ~ (/\ cles[k] # Rien /\ cles[k].corps # Rien
              /\ ChargeDe[cles[k].proprietaire] = ChargeDe[c])
  <2>1. UNCHANGED reponse /\ pc' = [pc EXCEPT ![c] = "conflict"]
    BY <1>3 DEF Lookup, Va
  <2>2. TypeOK'
    BY <1>1, <2>1 DEF Issues
  <2>3. ASSUME NEW d \in Appels PROVE (Reclame(d) /\ Progres(d) /\ Fidele(d))'
    BY <1>1, <2>1 DEF Reclame, Progres, Fidele, AuTravail
  <2>4. ASSUME NEW x \in Cles PROVE LigneSaine(x)'
    BY <1>1 DEF LigneSaine
  <2> QED
    BY <2>2, <2>3, <2>4
<1> QED
  BY <1>2, <1>3

\* The call that stored its answer and says so.
LEMMA EtapeComplete ==
  ASSUME IInv, NEW c \in Appels, Complete(c) PROVE IInv'
BY EtapeStockee DEF Complete, Va

\* The failures that change nothing but where the call stands, and the UPDATE
\* that took effect unseen.
LEMMA EtapePanne ==
  ASSUME IInv, NEW c \in Appels, CompleteFails(c) \/ CleanupFails(c) \/ Crash(c)
  PROVE  IInv'
<1>0. CASE CompleteFails(c) /\ cles' = Stockee(c)
  BY <1>0, EtapeStockee DEF CompleteFails, Va
<1> SUFFICES ASSUME ~ (CompleteFails(c) /\ cles' = Stockee(c)) PROVE IInv'
  BY <1>0
<1> USE DEF IInv, TypeOK
<1>1. /\ UNCHANGED <<cles, commis, reponse>>
      /\ \/ pc[c] = "complete" /\ pc' = [pc EXCEPT ![c] = "cleanup"]
         \/ pc' = [pc EXCEPT ![c] = "error"]
         \/ pc' = [pc EXCEPT ![c] = "lost"]
  BY DEF CompleteFails, CleanupFails, Crash, Va
<1>2. TypeOK'
  BY <1>1 DEF EnCours, Issues
<1>3. ASSUME NEW d \in Appels PROVE (Reclame(d) /\ Progres(d) /\ Fidele(d))'
  BY <1>1 DEF Reclame, Progres, Fidele, AuTravail
<1>4. ASSUME NEW x \in Cles PROVE LigneSaine(x)'
  BY <1>1 DEF LigneSaine
<1> QED
  BY <1>2, <1>3, <1>4

\* The invariant is inductive, whatever fails.
LEMMA InvStep == IInv /\ [Next]_vars => IInv'
<1> SUFFICES ASSUME IInv, [Next]_vars PROVE IInv'
  OBVIOUS
<1>1. ASSUME NEW c \in Appels, Run(c) \/ Crash(c) PROVE IInv'
  BY <1>1, EtapeClaim, EtapeHandler, EtapeComplete, EtapeCleanup, EtapeLookup,
     EtapePanne DEF Run
<1>2. CASE UNCHANGED vars
  BY <1>2 DEF vars, IInv, TypeOK, Reclame, Progres, LigneSaine, Fidele
<1> QED
  BY <1>1, <1>2 DEF Next, Finished

\* A step touches at most the row of the call's own key: it claims a free one,
\* completes its own claim or deletes it.
LEMMA EtapeLignes ==
  ASSUME IInv, NEW c \in Appels, Run(c) \/ Crash(c)
  PROVE  \/ cles' = cles
         \/ /\ \A x \in Cles : x # CleDe[c] => cles'[x] = cles[x]
            /\ \/ cles[CleDe[c]] = Rien
               \/ cles[CleDe[c]].corps = Rien
               \/ /\ cles'[CleDe[c]] = Rien
                  /\ cles[CleDe[c]].proprietaire = c
                  /\ pc[c] = "cleanup" /\ "apresCommit" \in Pannes
<1> USE DEF IInv, TypeOK
<1>0. CleDe[c] \in Cles
  BY IdempotencyAssumption
<1>1. CASE Claim(c)
  BY <1>1 DEF Claim
<1>2. CASE Complete(c) \/ CompleteFails(c)
  BY <1>2 DEF Complete, CompleteFails, Stockee, Reclame, AuTravail
<1>3. CASE Cleanup(c)
  BY <1>0, <1>3 DEF Cleanup, Reclame, AuTravail
<1>4. CASE ~ Claim(c) /\ ~ Complete(c) /\ ~ CompleteFails(c) /\ ~ Cleanup(c)
  BY <1>4 DEF Run, HandlerOk, HandlerRejects, HandlerFailsAfterCommit,
     CleanupFails, Lookup, Crash
<1> QED
  BY <1>1, <1>2, <1>3, <1>4

-----------------------------------------------------------------------------
(* Whatever fails.                                                         *)

\* One executor per key: the unique index decides the race for any number of
\* concurrent calls and instances.
THEOREM UnSeulExecutantCorrect == Spec => []UnSeulExecutant
<1>1. IInv => UnSeulExecutant
  BY DEF IInv, Reclame, AuTravail, UnSeulExecutant
<1> QED
  BY <1>1, InvInit, InvStep, PTL DEF Spec

\* A success is always the result of a write made under the same key for the
\* same payload, also when every failure considered can happen.
THEOREM ReponseFideleCorrect == Spec => []ReponseFidele
<1>1. IInv => ReponseFidele
  BY DEF IInv, Fidele, ReponseFidele
<1> QED
  BY <1>1, InvInit, InvStep, PTL DEF Spec

\* A stored answer is never replaced, and only the catch of the very call that
\* stored it, not told that its UPDATE went through, forgets it: a key can run
\* its handler again in no other way.
THEOREM ReponseStableCorrect == Spec => ReponseStable
<1> DEFINE Stable == \A k \in Cles :
             cles[k] # Rien /\ cles[k].corps # Rien =>
               \/ cles'[k] = cles[k]
               \/ /\ cles'[k] = Rien
                  /\ "apresCommit" \in Pannes
                  /\ pc[cles[k].proprietaire] = "cleanup"
<1>1. IInv /\ [Next]_vars => [Stable]_vars
  <2>1. SUFFICES ASSUME IInv, Next PROVE Stable
    OBVIOUS
  <2>2. ASSUME NEW c \in Appels, Run(c) \/ Crash(c) PROVE Stable
    <3>1. \/ cles' = cles
          \/ /\ \A x \in Cles : x # CleDe[c] => cles'[x] = cles[x]
             /\ \/ cles[CleDe[c]] = Rien
                \/ cles[CleDe[c]].corps = Rien
                \/ /\ cles'[CleDe[c]] = Rien
                   /\ cles[CleDe[c]].proprietaire = c
                   /\ pc[c] = "cleanup" /\ "apresCommit" \in Pannes
      BY <2>1, <2>2, EtapeLignes
    <3>2. SUFFICES ASSUME NEW k \in Cles, cles[k] # Rien, cles[k].corps # Rien
                   PROVE  \/ cles'[k] = cles[k]
                          \/ /\ cles'[k] = Rien
                             /\ "apresCommit" \in Pannes
                             /\ pc[cles[k].proprietaire] = "cleanup"
      OBVIOUS
    <3>3. CASE cles' = cles
      BY <3>3
    <3>4. CASE k # CleDe[c]
      BY <3>1, <3>4
    <3>5. CASE k = CleDe[c] /\ cles' # cles
      <4>1. /\ cles'[k] = Rien /\ cles[k].proprietaire = c
            /\ pc[c] = "cleanup" /\ "apresCommit" \in Pannes
        BY <3>1, <3>2, <3>5
      <4> QED
        BY <4>1
    <3> QED
      BY <3>3, <3>4, <3>5
  <2> QED
    BY <2>1, <2>2 DEF Next, Finished, vars
<1> QED
  BY <1>1, InvInit, InvStep, PTL DEF Spec, ReponseStable

-----------------------------------------------------------------------------
(* While nothing fails between the handler's COMMIT and its stored answer. *)

\* A call that wrote keeps its key, and is never told that it failed.
Garde(c) ==
  c \in commis => /\ cles[CleDe[c]] # Rien
                  /\ cles[CleDe[c]].proprietaire = c
                  /\ pc[c] \notin {"cleanup", "error", "conflict"}

GardeTous == \A c \in Appels : Garde(c)

\* When no failure falls after the commit of the money, a committed operation
\* keeps its key: what makes the money at most once.
LEMMA GardeStep ==
  ASSUME "apresCommit" \notin Pannes
  PROVE  IInv /\ GardeTous /\ [Next]_vars => GardeTous'
<1> SUFFICES ASSUME IInv, GardeTous, [Next]_vars PROVE GardeTous'
  OBVIOUS
<1> USE DEF IInv, TypeOK, GardeTous, Garde
<1>1. CASE UNCHANGED vars
  BY <1>1 DEF vars
<1>2. ASSUME NEW c \in Appels, Run(c) \/ Crash(c) PROVE GardeTous'
  <2>1. CASE Claim(c)
    <3>0. c \notin commis
      BY <2>1 DEF Claim, Progres
    <3>1. CASE cles[CleDe[c]] = Rien
      <4>1. /\ \A x \in Cles : x # CleDe[c] => cles'[x] = cles[x]
            /\ commis' = commis /\ pc' = [pc EXCEPT ![c] = "handler"]
        BY <2>1, <3>1 DEF Claim, Va
      <4>2. \A d \in Appels : d \in commis => CleDe[d] # CleDe[c] /\ CleDe[d] \in Cles
        BY <3>1, IdempotencyAssumption
      <4> QED
        BY <3>0, <4>1, <4>2
    <3>2. CASE cles[CleDe[c]] # Rien
      BY <2>1, <3>2 DEF Claim, Va
    <3> QED
      BY <3>1, <3>2
  <2>2. CASE HandlerOk(c)
    BY <2>2 DEF HandlerOk, Va, Reclame, AuTravail
  <2>3. CASE HandlerRejects(c)
    BY <2>3 DEF HandlerRejects, Va, Progres
  <2>4. CASE Complete(c)
    <3>1. \A d \in Appels : d \in commis /\ CleDe[d] = CleDe[c] => d = c
      BY <2>4 DEF Complete, Progres
    <3>0. CleDe[c] \in Cles /\ cles[CleDe[c]] # Rien
          /\ cles[CleDe[c]].proprietaire = c
      BY <2>4, IdempotencyAssumption DEF Complete, Reclame, AuTravail
    <3>2. /\ cles' = [cles EXCEPT ![CleDe[c]].corps = c] /\ commis' = commis
          /\ pc' = [pc EXCEPT ![c] = "ok"] /\ CleDe[c] \in Cles
          /\ cles[CleDe[c]] \in Lignes /\ cles[CleDe[c]].proprietaire = c
      BY <2>4, <3>0 DEF Complete, Stockee, Sienne, Va
    <3> DEFINE ligne == [cles[CleDe[c]] EXCEPT !.corps = c]
    <3>3. ligne \in Lignes /\ ligne.proprietaire = c /\ Rien \notin Lignes
      BY <3>2, IdempotencyAssumption DEF Lignes
    <3>4. cles'[CleDe[c]] = ligne /\ \A k \in Cles : k # CleDe[c] => cles'[k] = cles[k]
      BY <3>2
    <3> HIDE DEF ligne
    <3>5. CleDe \in [Appels -> Cles]
      BY IdempotencyAssumption
    <3> QED
      BY <3>1, <3>2, <3>3, <3>4, <3>5
  <2>5. CASE Cleanup(c)
    <3>1. c \notin commis
      BY <2>5 DEF Cleanup
    <3>2. \A d \in Appels : d \in commis => CleDe[d] # CleDe[c]
      BY <2>5, <3>1 DEF Cleanup, Reclame, AuTravail
    <3>3. /\ \A x \in Cles : x # CleDe[c] => cles'[x] = cles[x]
          /\ commis' = commis /\ pc' = [pc EXCEPT ![c] = "error"]
      BY <2>5 DEF Cleanup, Va
    <3>4. CleDe \in [Appels -> Cles]
      BY IdempotencyAssumption
    <3> QED
      BY <3>1, <3>2, <3>3, <3>4
  <2>6. CASE CleanupFails(c)
    BY <2>6 DEF CleanupFails, Va
  <2>7. CASE Lookup(c)
    BY <2>7 DEF Lookup, Va, Progres
  <2>8. CASE Crash(c)
    BY <2>8 DEF Crash, Va
  <2> QED
    BY <1>2, <2>1, <2>2, <2>3, <2>4, <2>5, <2>6, <2>7, <2>8
       DEF Run, HandlerFailsAfterCommit, CompleteFails
<1> QED
  BY <1>1, <1>2 DEF Next, Finished

\* GardeTous is an invariant under that same assumption on Pannes.
LEMMA GardeCorrect ==
  ASSUME "apresCommit" \notin Pannes
  PROVE  Spec => [](IInv /\ GardeTous)
<1>1. Init => GardeTous
  BY DEF Init, GardeTous, Garde
<1> QED
  BY <1>1, GardeStep, InvInit, InvStep, PTL DEF Spec

\* One key moves money once, and an error means that nothing was written, also
\* through crashes and failed clean-ups.
THEOREM AuPlusUneFoisCorrect ==
  ASSUME "apresCommit" \notin Pannes
  PROVE  Spec => [](AuPlusUneFois /\ ErreurSansEffet)
<1>1. IInv /\ GardeTous => AuPlusUneFois /\ ErreurSansEffet
  BY DEF IInv, TypeOK, GardeTous, Garde, AuPlusUneFois, ErreurSansEffet
<1> QED
  BY <1>1, GardeCorrect, PTL

-----------------------------------------------------------------------------
(* The contract.                                                           *)

\* A call has no answer before it succeeds.
SansReponse == \A c \in Appels : pc[c] # "ok" => reponse[c] = Rien

\* Only a success answers with a body: that is kept by every step.
LEMMA SansReponseStep == IInv /\ SansReponse /\ [Next]_vars => SansReponse'
<1> SUFFICES ASSUME IInv, SansReponse, [Next]_vars PROVE SansReponse'
  OBVIOUS
<1> USE DEF SansReponse, Va
<1>1. ASSUME NEW c \in Appels, Run(c) \/ Crash(c) PROVE SansReponse'
  <2>0. pc \in [Appels -> EnCours \cup Issues] /\ reponse \in [Appels -> Appels \cup {Rien}]
    BY DEF IInv, TypeOK
  <2>1. CASE Claim(c)
    BY <2>0, <2>1 DEF Claim
  <2>2. CASE HandlerOk(c) \/ HandlerRejects(c) \/ HandlerFailsAfterCommit(c)
    BY <2>0, <2>2 DEF HandlerOk, HandlerRejects, HandlerFailsAfterCommit
  <2>3. CASE Complete(c)
    BY <2>0, <2>3 DEF Complete
  <2>4. CASE CompleteFails(c) \/ Cleanup(c) \/ CleanupFails(c)
    BY <2>0, <2>4 DEF CompleteFails, Cleanup, CleanupFails
  <2>5. CASE Lookup(c)
    BY <2>0, <2>5 DEF Lookup
  <2>6. CASE Crash(c)
    BY <2>0, <2>6 DEF Crash, EnCours
  <2> QED
    BY <1>1, <2>1, <2>2, <2>3, <2>4, <2>5, <2>6 DEF Run
<1>2. CASE UNCHANGED vars
  BY <1>2 DEF vars
<1> QED
  BY <1>1, <1>2 DEF Next, Finished

\* Effet is the one call that wrote under a key.
LEMMA EffetUnique ==
  ASSUME AuPlusUneFois, commis \subseteq Appels, NEW c \in commis, CleDe[c] \in Cles
  PROVE  Effet[CleDe[c]] = c
<1>1. \A d \in commis : CleDe[d] = CleDe[c] => d = c
  BY DEF AuPlusUneFois
<1> QED
  BY <1>1 DEF Effet

\* A key none of whose attempts committed had no effect.
LEMMA EffetRien ==
  ASSUME NEW k \in Cles, \A d \in commis : CleDe[d] # k
  PROVE  Effet[k] = Rien
BY DEF Effet

\* One step of an attempt is a step of the contract, or a stutter.
LEMMA EtapeContrat ==
  ASSUME "apresCommit" \notin Pannes, IInv, GardeTous, SansReponse,
         IInv', GardeTous', NEW c \in Appels, Run(c) \/ Crash(c)
  PROVE  [Contract!ContractNext]_(Contract!contractVars)
<1> USE DEF Contract!contractVars, Va
<1>0. /\ AuPlusUneFois /\ commis \subseteq Appels
      /\ AuPlusUneFois' /\ commis' \subseteq Appels
      /\ CleDe[c] \in Cles /\ reponse \in [Appels -> Appels \cup {Rien}]
  <2>1. IInv /\ GardeTous => AuPlusUneFois
    BY DEF IInv, TypeOK, GardeTous, Garde, AuPlusUneFois
  <2>2. (IInv /\ GardeTous => AuPlusUneFois)'
    BY DEF IInv, TypeOK, GardeTous, Garde, AuPlusUneFois
  <2> QED
    BY <2>1, <2>2, IdempotencyAssumption DEF IInv, TypeOK
<1>1. CASE UNCHANGED <<commis, reponse>>
  BY <1>1 DEF Effet
<1>2. CASE HandlerOk(c)
  <2>1. commis' = commis \cup {c} /\ reponse' = reponse /\ c \notin commis
    BY <1>2 DEF HandlerOk, IInv, Progres
  <2>2. \A d \in commis : CleDe[d] # CleDe[c]
    BY <1>2, <2>1 DEF HandlerOk, IInv, TypeOK, Reclame, AuTravail, GardeTous, Garde
  <2>3. Effet[CleDe[c]] = Rien
    BY <1>0, <2>2, EffetRien
  <2>4. Effet'[CleDe[c]] = c
    <3>1. \A d \in commis' : CleDe[d] = CleDe[c] => d = c
      BY <2>1, <2>2
    <3> QED
      BY <1>0, <2>1, <3>1 DEF Effet
  <2>5. \A k \in Cles : k # CleDe[c] => Effet'[k] = Effet[k]
    <3>1. ASSUME NEW k \in Cles, k # CleDe[c]
          PROVE  {d \in commis' : CleDe[d] = k} = {d \in commis : CleDe[d] = k}
      BY <2>1, <3>1
    <3>2. ASSUME NEW k \in Cles, k # CleDe[c]
          PROVE  \A d : (d \in commis' /\ CleDe[d] = k) <=> (d \in commis /\ CleDe[d] = k)
      BY <2>1, <3>2
    <3> QED
      BY <3>2 DEF Effet
  <2>6. Effet' = [Effet EXCEPT ![CleDe[c]] = c]
    <3>1. /\ Effet = [k \in Cles |-> Effet[k]]
          /\ Effet' = [k \in Cles |-> Effet'[k]]
      BY DEF Effet
    <3>2. \A k \in Cles : Effet'[k] = [Effet EXCEPT ![CleDe[c]] = c][k]
      BY <1>0, <2>4, <2>5, <3>1
    <3>3. [Effet EXCEPT ![CleDe[c]] = c] = [k \in Cles |-> [Effet EXCEPT ![CleDe[c]] = c][k]]
      BY <3>1
    <3> QED
      BY <3>1, <3>2, <3>3
  <2>7. Contract!Effectuer(c)
    BY <2>1, <2>3, <2>6 DEF Contract!Effectuer
  <2> QED
    BY <2>7 DEF Contract!ContractNext
<1>3. CASE Complete(c)
  <2>1. c \in commis /\ pc[c] = "complete" /\ commis' = commis
        /\ reponse' = [reponse EXCEPT ![c] = c]
    BY <1>3 DEF Complete, IInv, Progres
  <2>2. Effet[CleDe[c]] = c /\ reponse[c] = Rien /\ c # Rien /\ Effet' = Effet
    BY <1>0, <2>1, EffetUnique, IdempotencyAssumption DEF SansReponse, Effet
  <2>3. Contract!Repondre(c)
    BY <2>1, <2>2 DEF Contract!Repondre
  <2> QED
    BY <2>3 DEF Contract!ContractNext
<1>4. CASE Lookup(c) /\ reponse' # reponse
  <2> DEFINE d == cles[CleDe[c]].corps
  <2>1. /\ cles[CleDe[c]] # Rien /\ cles[CleDe[c]].corps # Rien
        /\ ChargeDe[cles[CleDe[c]].proprietaire] = ChargeDe[c]
        /\ reponse' = [reponse EXCEPT ![c] = d]
        /\ commis' = commis /\ pc[c] = "lookup"
    BY <1>4 DEF Lookup
  <2>2. d \in commis /\ CleDe[d] = CleDe[c] /\ ChargeDe[d] = ChargeDe[c]
    BY <1>0, <2>1 DEF IInv, LigneSaine
  <2>3. Effet[CleDe[c]] = d /\ reponse[c] = Rien /\ d # Rien /\ Effet' = Effet
    <3> HIDE DEF d
    <3> QED
      BY <1>0, <2>1, <2>2, EffetUnique, IdempotencyAssumption DEF SansReponse, Effet
  <2>4. Contract!Repondre(c)
    <3> HIDE DEF d
    <3> QED
      BY <2>1, <2>2, <2>3 DEF Contract!Repondre
  <2> QED
    BY <2>4 DEF Contract!ContractNext
<1>5. CASE Lookup(c) /\ reponse' = reponse
  BY <1>1, <1>5 DEF Lookup
<1> QED
  BY <1>1, <1>2, <1>3, <1>4, <1>5 DEF Run, Claim, HandlerRejects,
     HandlerFailsAfterCommit, CompleteFails, Cleanup, CleanupFails, Crash

\* run() implements the contract of the key: one effect, replayed to whoever
\* asks for the same thing.
THEOREM ContratCorrect ==
  ASSUME "apresCommit" \notin Pannes
  PROVE  Spec => ContractSpec
<1>1. Init => Contract!ContractInit
  BY DEF Init, Contract!ContractInit, Effet
<1>2. Init => SansReponse
  BY DEF Init, SansReponse
<1>3. Spec => [](IInv /\ GardeTous /\ SansReponse)
  BY <1>2, GardeCorrect, SansReponseStep, PTL DEF Spec
<1>4. /\ IInv /\ GardeTous /\ SansReponse
      /\ (IInv /\ GardeTous)'
      /\ [Next]_vars
      => [Contract!ContractNext]_(Contract!contractVars)
  <2>1. SUFFICES ASSUME IInv, GardeTous, SansReponse, IInv', GardeTous', [Next]_vars
                 PROVE  [Contract!ContractNext]_(Contract!contractVars)
    OBVIOUS
  <2>2. CASE UNCHANGED vars
    BY <2>2 DEF vars, Contract!contractVars, Effet
  <2>3. ASSUME NEW c \in Appels, Run(c) \/ Crash(c)
        PROVE  [Contract!ContractNext]_(Contract!contractVars)
    BY <2>1, <2>3, EtapeContrat
  <2> QED
    BY <2>1, <2>2, <2>3 DEF Next, Finished
<1> QED
  BY <1>1, <1>3, <1>4, PTL DEF Spec, ContractSpec, Contract!ContractSpec

-----------------------------------------------------------------------------
(* While the clean-up of a failed attempt succeeds.                        *)

\* A failed attempt leaves no claim behind: the same key can be tried again.
THEOREM EchecRejouableCorrect ==
  ASSUME "nettoyage" \notin Pannes
  PROVE  Spec => []EchecRejouable
<1>1. Init => EchecRejouable
  BY DEF Init, EchecRejouable
<1>2. IInv /\ EchecRejouable /\ [Next]_vars => EchecRejouable'
  <2>1. SUFFICES ASSUME IInv, EchecRejouable, [Next]_vars PROVE EchecRejouable'
    OBVIOUS
  <2>2. ASSUME NEW c \in Appels, Run(c) \/ Crash(c),
               NEW d \in Appels, pc'[d] = "error"
        PROVE  cles'[CleDe[d]] = Rien \/ cles'[CleDe[d]].proprietaire # d
    <3> USE DEF IInv, TypeOK, Va
    <3>0. CleDe[d] \in Cles /\ CleDe[c] \in Cles
      BY IdempotencyAssumption
    <3>1. CASE Cleanup(c) /\ d = c
      BY <2>1, <3>0, <3>1 DEF Cleanup, Sienne, Reclame, AuTravail
    <3>2. CASE pc[d] = "error" /\ d # c
      <4>1. cles[CleDe[d]] = Rien \/ cles[CleDe[d]].proprietaire # d
        BY <2>1, <3>2 DEF EchecRejouable
      <4>2. CASE Claim(c)
        BY <2>1, <3>0, <3>2, <4>1, <4>2 DEF Claim
      <4>3. CASE Complete(c) \/ (CompleteFails(c) /\ cles' = Stockee(c))
        <5>1. cles[CleDe[c]].proprietaire = c /\ cles[CleDe[c]] # Rien
              /\ cles[CleDe[c]] \in Lignes
          BY <2>1, <3>0, <4>3 DEF Complete, CompleteFails, Reclame, AuTravail
        <5>2. cles' = [cles EXCEPT ![CleDe[c]].corps = c]
          BY <4>3, <5>1 DEF Complete, Stockee, Sienne
        <5>3. cles'[CleDe[c]].proprietaire = c
          BY <2>1, <3>0, <5>1, <5>2 DEF Lignes
        <5>4. CleDe[d] # CleDe[c] => cles'[CleDe[d]] = cles[CleDe[d]]
          BY <2>1, <3>0, <5>2
        <5> QED
          BY <3>2, <4>1, <5>3, <5>4
      <4>4. CASE Cleanup(c)
        BY <2>1, <3>0, <4>1, <4>4 DEF Cleanup
      <4>5. CASE cles' = cles
        BY <4>1, <4>5
      <4> QED
        BY <2>2, <4>2, <4>3, <4>4, <4>5 DEF Run, HandlerOk, HandlerRejects,
           HandlerFailsAfterCommit, CompleteFails, CleanupFails, Lookup, Crash
    <3>3. (Cleanup(c) /\ d = c) \/ (pc[d] = "error" /\ d # c)
      BY <2>1, <2>2 DEF Run, Claim, HandlerOk, HandlerRejects,
         HandlerFailsAfterCommit, Complete, CompleteFails, Cleanup, CleanupFails,
         Lookup, Crash, EnCours
    <3> QED
      BY <3>1, <3>2, <3>3
  <2>3. CASE UNCHANGED vars
    BY <2>1, <2>3 DEF vars, EchecRejouable
  <2> QED
    BY <2>1, <2>2, <2>3 DEF Next, Finished, EchecRejouable
<1> QED
  BY <1>1, <1>2, InvInit, InvStep, PTL DEF Spec

-----------------------------------------------------------------------------
(* The forms.                                                              *)

Envoyee(c) == envois[c] # "neuf"

FTypeOK ==
  /\ cle \in Nat /\ intention \in Nat
  /\ envois \in [Appels -> {"neuf", "enVol", "recue", "perdue"}]
  /\ voulu \in [Appels -> Nat]

\* The API works on what was sent, and the page shows a success of the API.
Recues ==
  \A c \in Appels : /\ pc[c] # "claim" => Envoyee(c)
                    /\ envois[c] = "recue" => pc[c] = "ok"

\* The key in the form is the last one drawn, for the intention being pursued.
CleCourante ==
  \A c \in Appels : Envoyee(c) =>
    /\ CleDe[c] <= cle /\ voulu[c] <= intention
    /\ CleDe[c] = cle => voulu[c] = intention

\* A key serves one intention, an intention that was not disturbed has one key.
UneCleParIntention ==
  /\ \A c, d \in Appels : Envoyee(c) /\ Envoyee(d) /\ CleDe[c] = CleDe[d] => voulu[c] = voulu[d]
  /\ \A c, d \in Appels : Envoyee(c) /\ Envoyee(d) /\ voulu[c] = voulu[d] =>
       CleDe[c] = CleDe[d] \/ voulu[c] \in troublees
  /\ \A c \in Appels : Envoyee(c) /\ voulu[c] = intention =>
       CleDe[c] = cle \/ intention \in troublees

FInv == FTypeOK /\ Recues /\ CleCourante /\ UneCleParIntention

\* A page that was just opened.
LEMMA FInit == InitF => FInv
BY DEF InitF, Init, FInv, FTypeOK, Recues, CleCourante, UneCleParIntention, Envoyee

\* Keys are numbers.
LEMMA ClesNat == \A c \in Appels : CleDe[c] \in Nat
BY IdempotencyAssumption, FormulairesAssumption

\* The form is sent with its key, for the intention being pursued.
LEMMA SoumettreInv ==
  ASSUME FInv, Soumettre PROVE FInv'
<1>1. PICK c \in Appels : /\ envois[c] = "neuf" /\ CleDe[c] = cle
                          /\ envois' = [envois EXCEPT ![c] = "enVol"]
                          /\ voulu' = [voulu EXCEPT ![c] = intention]
  BY DEF Soumettre
<1>2. UNCHANGED <<pc, cle, intention, troublees>>
  BY DEF Soumettre, vars
<1>3. FTypeOK' /\ Recues'
  BY <1>1, <1>2 DEF FInv, FTypeOK, Recues, Envoyee
<1>4. /\ Envoyee(c)' /\ voulu'[c] = intention
      /\ \A d \in Appels : d # c => voulu'[d] = voulu[d] /\ Envoyee(d)' = Envoyee(d)
  BY <1>1 DEF FInv, FTypeOK, Envoyee
<1>5. CleCourante'
  BY <1>1, <1>2, <1>4 DEF FInv, FTypeOK, CleCourante
<1>6. UneCleParIntention'
  BY <1>1, <1>2, <1>4 DEF FInv, FTypeOK, CleCourante, UneCleParIntention
<1> QED
  BY <1>3, <1>5, <1>6 DEF FInv

\* A step that sends nothing, and keeps the key and the intention.
LEMMA MemeCle ==
  ASSUME FInv, UNCHANGED <<cle, intention, voulu, troublees>>, FTypeOK', Recues',
         \A c \in Appels : Envoyee(c)' => Envoyee(c)
  PROVE  FInv'
BY DEF FInv, CleCourante, UneCleParIntention

\* A key drawn again: for the next intention, or as a disturbance of this one.
LEMMA NouvelleCle ==
  ASSUME FInv, UNCHANGED voulu, cle' = cle + 1, FTypeOK', Recues',
         \A c \in Appels : Envoyee(c)' => Envoyee(c),
         \/ intention' = intention + 1 /\ troublees' = troublees
         \/ intention' = intention /\ troublees' = troublees \cup {intention}
  PROVE  FInv'
<1>1. \A c \in Appels : CleDe[c] \in Nat /\ voulu[c] \in Nat
  BY ClesNat DEF FInv, FTypeOK
<1>2. cle \in Nat /\ intention \in Nat
  BY DEF FInv, FTypeOK
<1>3. \A c \in Appels : Envoyee(c)' => Envoyee(c) /\ CleDe[c] <= cle /\ voulu[c] <= intention
  BY DEF FInv, CleCourante
<1>4. \A c \in Appels : Envoyee(c)' => CleDe[c] <= cle' /\ CleDe[c] # cle' /\ voulu[c] <= intention'
  BY <1>1, <1>2, <1>3
<1>5. CleCourante'
  BY <1>4 DEF CleCourante
<1>6. \A c \in Appels : Envoyee(c)' /\ voulu[c] = intention' => intention' \in troublees'
  BY <1>1, <1>2, <1>3
<1>7. UneCleParIntention'
  BY <1>3, <1>6 DEF FInv, UneCleParIntention
<1> QED
  BY <1>5, <1>7 DEF FInv

\* What the page does with an answer, with none, and when it is loaded again.
LEMMA PageInv ==
  ASSUME FInv,
         \/ \E h \in Charges : Saisir(h)
         \/ \E c \in Appels : RecevoirOk(c) \/ RecevoirEchec(c) \/ RecevoirPerdu(c)
         \/ Recharger
  PROVE  FInv'
<1>1. CASE \E h \in Charges : Saisir(h)
  <2>1. UNCHANGED <<pc, cle, intention, envois, voulu, troublees>>
    BY <1>1 DEF Saisir, vars
  <2> QED
    BY <2>1, MemeCle DEF FInv, FTypeOK, Recues, Envoyee
<1>2. ASSUME NEW c \in Appels, RecevoirOk(c) PROVE FInv'
  <2>1. /\ envois[c] = "enVol" /\ pc[c] = "ok" /\ envois' = [envois EXCEPT ![c] = "recue"]
        /\ pc' = pc /\ voulu' = voulu /\ cle' = cle + 1
        /\ \/ intention' = intention + 1 /\ troublees' = troublees
           \/ intention' = intention /\ troublees' = troublees \cup {intention}
    BY <1>2 DEF RecevoirOk, Reussite, Renouveler, vars
  <2>2. FTypeOK' /\ Recues' /\ \A d \in Appels : Envoyee(d)' => Envoyee(d)
    BY <2>1 DEF FInv, FTypeOK, Recues, Envoyee
  <2> QED
    BY <2>1, <2>2, NouvelleCle
<1>3. ASSUME NEW c \in Appels, RecevoirEchec(c) \/ RecevoirPerdu(c) PROVE FInv'
  <2>1. /\ envois[c] = "enVol" /\ envois' = [envois EXCEPT ![c] = "perdue"]
        /\ UNCHANGED <<pc, cle, intention, voulu, troublees>>
    BY <1>3 DEF RecevoirEchec, RecevoirPerdu, vars
  <2>2. FTypeOK' /\ Recues' /\ \A d \in Appels : Envoyee(d)' => Envoyee(d)
    BY <2>1 DEF FInv, FTypeOK, Recues, Envoyee
  <2> QED
    BY <2>1, <2>2, MemeCle
<1>4. CASE Recharger
  <2>1. /\ envois' = [c \in Appels |-> IF envois[c] = "enVol" THEN "perdue" ELSE envois[c]]
        /\ pc' = pc /\ voulu' = voulu /\ cle' = cle + 1
        /\ intention' = intention /\ troublees' = troublees \cup {intention}
    BY <1>4 DEF Recharger, Renouveler, vars
  <2>2. FTypeOK' /\ Recues' /\ \A d \in Appels : Envoyee(d)' => Envoyee(d)
    BY <2>1 DEF FInv, FTypeOK, Recues, Envoyee
  <2> QED
    BY <2>1, <2>2, NouvelleCle
<1> QED
  BY <1>1, <1>2, <1>3, <1>4

\* The API only works on what was sent, and a success is final.
LEMMA ServirInv ==
  ASSUME FInv, IInv, NEW c \in Appels, Servir(c)
  PROVE  FInv' /\ (Run(c) \/ Crash(c))
<1>1. Run(c) \/ Crash(c)
  BY DEF Servir, Run
<1>2. /\ Envoyee(c) /\ UNCHANGED <<cle, intention, envois, voulu, troublees>>
      /\ pc[c] \in EnCours /\ \A d \in Appels \ {c} : pc'[d] = pc[d]
  BY DEF Servir, pageVars, Claim, HandlerOk, HandlerRejects, Complete, Cleanup, Lookup, Crash, Va,
         Envoyee, EnCours, IInv, TypeOK
<1>3. FTypeOK' /\ \A d \in Appels : Envoyee(d)' = Envoyee(d)
  BY <1>2 DEF FInv, FTypeOK, Envoyee
<1>4. Recues'
  BY <1>2, <1>3 DEF FInv, Recues, EnCours
<1> QED
  BY <1>1, <1>2, <1>3, <1>4, MemeCle

\* A step of the forms is a step of run(), or leaves the API alone.
LEMMA EtapeF ==
  ASSUME FInv, IInv, [NextF]_formVars PROVE FInv' /\ [Next]_vars
<1>1. CASE UNCHANGED formVars
  <2>1. UNCHANGED <<vars, pc, cle, intention, envois, voulu, troublees>>
    BY <1>1 DEF formVars, pageVars, vars
  <2>2. FTypeOK' /\ Recues' /\ \A d \in Appels : Envoyee(d)' => Envoyee(d)
    BY <2>1 DEF FInv, FTypeOK, Recues, Envoyee
  <2> QED
    BY <2>1, <2>2, MemeCle
<1>2. CASE Soumettre
  BY <1>2, SoumettreInv DEF Soumettre
<1>3. ASSUME NEW c \in Appels, Servir(c) PROVE FInv' /\ [Next]_vars
  BY <1>3, ServirInv DEF Next
<1>4. CASE \/ \E h \in Charges : Saisir(h)
           \/ \E c \in Appels : RecevoirOk(c) \/ RecevoirEchec(c) \/ RecevoirPerdu(c)
           \/ Recharger
  BY <1>4, PageInv DEF Saisir, RecevoirOk, RecevoirEchec, RecevoirPerdu, Recharger
<1> QED
  BY <1>1, <1>2, <1>3, <1>4 DEF NextF

\* The invariants of run() and of the forms, together.
LEMMA FormulairesCorrects ==
  ASSUME "apresCommit" \notin Pannes
  PROVE  SpecF => [](FInv /\ IInv /\ GardeTous)
<1>1. InitF => FInv /\ IInv /\ GardeTous
  BY FInit, InvInit DEF InitF, Init, GardeTous, Garde
<1>2. FInv /\ IInv /\ GardeTous /\ [NextF]_formVars => (FInv /\ IInv /\ GardeTous)'
  BY EtapeF, InvStep, GardeStep
<1> QED
  BY <1>1, <1>2, PTL DEF SpecF

\* One payment the user meant is written once, as long as its key was not drawn
\* again, through double clicks, retries, edits, lost answers and crashes.
THEOREM UneFoisTheorem ==
  ASSUME "apresCommit" \notin Pannes
  PROVE  SpecF => []UneFoisParIntention
<1>1. FInv /\ IInv /\ GardeTous => UneFoisParIntention
  <2>1. SUFFICES ASSUME FInv, IInv, GardeTous, NEW c \in commis, NEW d \in commis, voulu[c] = voulu[d]
                 PROVE  c = d \/ voulu[c] \in troublees
    BY DEF UneFoisParIntention
  <2>2. c \in Appels /\ d \in Appels /\ Envoyee(c) /\ Envoyee(d)
    BY <2>1 DEF IInv, TypeOK, Progres, FInv, Recues
  <2>3. CASE CleDe[c] = CleDe[d]
    BY <2>1, <2>2, <2>3 DEF GardeTous, Garde
  <2> QED
    BY <2>1, <2>2, <2>3 DEF FInv, UneCleParIntention
<1> QED
  BY <1>1, FormulairesCorrects, PTL

\* A success on screen is that of the payment it was clicked for.
THEOREM SuccesFideleTheorem ==
  ASSUME "apresCommit" \notin Pannes
  PROVE  SpecF => []SuccesFidele
<1>1. FInv /\ IInv => SuccesFidele
  <2>1. SUFFICES ASSUME FInv, IInv, NEW c \in Appels, envois[c] = "recue"
                 PROVE  /\ reponse[c] \in commis /\ voulu[reponse[c]] = voulu[c]
                        /\ ChargeDe[reponse[c]] = ChargeDe[c]
    BY DEF SuccesFidele
  <2>2. pc[c] = "ok" /\ Envoyee(c)
    BY <2>1 DEF FInv, Recues, Envoyee
  <2>3. PICK d \in commis : /\ d = reponse[c] /\ CleDe[d] = CleDe[c] /\ ChargeDe[d] = ChargeDe[c]
    BY <2>1, <2>2 DEF IInv, Fidele
  <2>4. d \in Appels /\ Envoyee(d)
    BY <2>1 DEF IInv, TypeOK, Progres, FInv, Recues
  <2> QED
    BY <2>1, <2>2, <2>3, <2>4 DEF FInv, UneCleParIntention
<1> QED
  BY <1>1, FormulairesCorrects, PTL

=============================================================================
