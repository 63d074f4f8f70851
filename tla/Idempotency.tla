---------------------------- MODULE Idempotency ----------------------------
(***************************************************************************)
(* IdempotencyService.run (common/idempotency.service.ts) around the money *)
(* handlers: planDisbursement, createDisbursement and both createRepayment.*)
(* Every SQL statement of run() is its own transaction: the claim, the     *)
(* handler's transaction, the UPDATE that stores the answer, the DELETE    *)
(* that forgets a failed attempt and the lookup of a later call interleave *)
(* with those of every other call, and each of them can fail.              *)
(*                                                                         *)
(* A call is one HTTP request; a retry is another call with the same key.  *)
(***************************************************************************)
EXTENDS Naturals

CONSTANTS
  Cles, Appels, Rien,
  CleDe,      \* (scope, Idempotency-Key) of a call
  ChargeDe,   \* SHA-256 of its payload
  Pannes      \* failures considered: "apresCommit", "nettoyage", "arret"

\* A row: who claimed the key, and the stored answer (NULL until completed).
Lignes == [proprietaire: Appels, corps: Appels \cup {Rien}]

ASSUME IdempotencyAssumption ==
  /\ CleDe \in [Appels -> Cles]
  /\ Rien \notin Appels \cup Lignes
  /\ Pannes \subseteq {"apresCommit", "nettoyage", "arret"}

VARIABLES
  cles,       \* the idempotency_keys row of each key
  pc,         \* the statement each call runs next, or its outcome
  commis,     \* calls whose handler committed its transaction
  reponse     \* the call whose result a successful call was answered with

vars == <<cles, pc, commis, reponse>>

EnCours == {"claim", "handler", "complete", "cleanup", "lookup"}
Issues  == {"ok", "conflict", "error", "lost"}

TypeOK ==
  /\ cles \in [Cles -> Lignes \cup {Rien}]
  /\ pc \in [Appels -> EnCours \cup Issues]
  /\ commis \subseteq Appels
  /\ reponse \in [Appels -> Appels \cup {Rien}]

Init ==
  /\ cles = [k \in Cles |-> Rien]
  /\ pc = [c \in Appels |-> "claim"]
  /\ commis = {}
  /\ reponse = [c \in Appels |-> Rien]

\* The row a claim returned, named by its id in every later statement.
Sienne(c) == cles[CleDe[c]] # Rien /\ cles[CleDe[c]].proprietaire = c

Va(c, etape) == pc' = [pc EXCEPT ![c] = etape]

\* INSERT ... ON CONFLICT (scope, cle) DO NOTHING RETURNING id.
Claim(c) ==
  /\ pc[c] = "claim"
  /\ IF cles[CleDe[c]] = Rien
     THEN /\ cles' = [cles EXCEPT ![CleDe[c]] = [proprietaire |-> c, corps |-> Rien]]
          /\ Va(c, "handler")
     ELSE /\ Va(c, "lookup")
          /\ UNCHANGED cles
  /\ UNCHANGED <<commis, reponse>>

\* await handler(): its transaction commits and the detail read after it works.
HandlerOk(c) ==
  /\ pc[c] = "handler"
  /\ commis' = commis \cup {c}
  /\ Va(c, "complete")
  /\ UNCHANGED <<cles, reponse>>

\* handler() throws and nothing was written: a 400, a 404, a 409, a rollback.
HandlerRejects(c) ==
  /\ pc[c] = "handler"
  /\ Va(c, "cleanup")
  /\ UNCHANGED <<cles, commis, reponse>>

\* handler() throws although its transaction committed: the answer to COMMIT is
\* lost, or this.get(id), run after the transaction, fails.
HandlerFailsAfterCommit(c) ==
  /\ "apresCommit" \in Pannes
  /\ pc[c] = "handler"
  /\ commis' = commis \cup {c}
  /\ Va(c, "cleanup")
  /\ UNCHANGED <<cles, reponse>>

\* UPDATE idempotency_keys SET statut_reponse = 200, corps_reponse WHERE id.
Stockee(c) == IF Sienne(c) THEN [cles EXCEPT ![CleDe[c]].corps = c] ELSE cles

Complete(c) ==
  /\ pc[c] = "complete"
  /\ cles' = Stockee(c)
  /\ reponse' = [reponse EXCEPT ![c] = c]
  /\ Va(c, "ok")
  /\ UNCHANGED commis

\* That UPDATE throws: it did nothing, or it took effect and its answer is lost.
\* It is inside the same try, so the catch deletes the key, stored answer or not.
CompleteFails(c) ==
  /\ "apresCommit" \in Pannes
  /\ pc[c] = "complete"
  /\ cles' \in {cles, Stockee(c)}
  /\ Va(c, "cleanup")
  /\ UNCHANGED <<commis, reponse>>

\* DELETE FROM idempotency_keys; throw error.
Cleanup(c) ==
  /\ pc[c] = "cleanup"
  /\ cles' = IF Sienne(c) THEN [cles EXCEPT ![CleDe[c]] = Rien] ELSE cles
  /\ Va(c, "error")
  /\ UNCHANGED <<commis, reponse>>

\* The DELETE meets the same database outage as the attempt it follows.
CleanupFails(c) ==
  /\ "nettoyage" \in Pannes
  /\ pc[c] = "cleanup"
  /\ Va(c, "error")
  /\ UNCHANGED <<cles, commis, reponse>>

\* Mutant: a claim still in progress is answered with.
LookupEnCours(c) ==
  /\ pc[c] = "lookup"
  /\ IF cles[CleDe[c]] # Rien /\ ChargeDe[cles[CleDe[c]].proprietaire] = ChargeDe[c]
     THEN /\ reponse' = [reponse EXCEPT ![c] = cles[CleDe[c]].proprietaire]
          /\ Va(c, "ok")
     ELSE Va(c, "conflict") /\ UNCHANGED reponse
  /\ UNCHANGED <<cles, commis>>

\* SELECT ... AND statut_reponse IS NOT NULL: still in progress is a 409,
\* another payload is a 409, otherwise the stored answer.
Lookup(c) ==
  /\ pc[c] = "lookup"
  /\ LET ligne == cles[CleDe[c]]
     IN  IF /\ ligne # Rien
            /\ ligne.corps # Rien
            /\ ChargeDe[ligne.proprietaire] = ChargeDe[c]
         THEN /\ reponse' = [reponse EXCEPT ![c] = ligne.corps]
              /\ Va(c, "ok")
         ELSE /\ Va(c, "conflict")
              /\ UNCHANGED reponse
  /\ UNCHANGED <<cles, commis>>

\* The API instance stops, or loses the database before it can claim or read.
Crash(c) ==
  /\ "arret" \in Pannes
  /\ pc[c] \in EnCours
  /\ Va(c, "lost")
  /\ UNCHANGED <<cles, commis, reponse>>

Run(c) ==
  \/ Claim(c)
  \/ HandlerOk(c)
  \/ HandlerRejects(c)
  \/ HandlerFailsAfterCommit(c)
  \/ Complete(c)
  \/ CompleteFails(c)
  \/ Cleanup(c)
  \/ CleanupFails(c)
  \/ Lookup(c)

Finished ==
  /\ \A c \in Appels : pc[c] \in Issues
  /\ UNCHANGED vars

Next == \/ \E c \in Appels : Run(c) \/ Crash(c)
        \/ Finished

Spec == Init /\ [][Next]_vars

-----------------------------------------------------------------------------
(* Properties.                                                             *)

\* Between the claim of a key and its outcome one call at most is at work on
\* it, across every API instance: the unique index alone decides the race.
UnSeulExecutant ==
  \A c, d \in Appels :
    /\ pc[c] \in {"handler", "complete", "cleanup"}
    /\ pc[d] \in {"handler", "complete", "cleanup"}
    /\ CleDe[c] = CleDe[d]
    => c = d

\* "every later request with the same key gets that stored result played back,
\* handler() never runs again" (the comment of IdempotencyService): one key
\* moves money once.
AuPlusUneFois ==
  \A c, d \in commis : CleDe[c] = CleDe[d] => c = d

\* A success is the result of a call that really wrote, under the same key and
\* for the same payload, never the answer to another question.
ReponseFidele ==
  \A c \in Appels : pc[c] = "ok" =>
    /\ reponse[c] \in commis
    /\ CleDe[reponse[c]] = CleDe[c]
    /\ ChargeDe[reponse[c]] = ChargeDe[c]

\* An answer of error says that nothing was written: the caller may send the
\* same payment again.
ErreurSansEffet ==
  \A c \in Appels : pc[c] \in {"error", "conflict"} => c \notin commis

\* "A failed attempt (validation error, conflict, transient DB issue) must stay
\* retryable under the same key": it leaves no claim behind.
EchecRejouable ==
  \A c \in Appels : pc[c] = "error" =>
    cles[CleDe[c]] = Rien \/ cles[CleDe[c]].proprietaire # c

\* A stored answer is never replaced, and is forgotten in one case only: the
\* call that stored it was not told so, and its catch deletes the row.
ReponseStable ==
  [][\A k \in Cles :
       cles[k] # Rien /\ cles[k].corps # Rien =>
         \/ cles'[k] = cles[k]
         \/ /\ cles'[k] = Rien
            /\ "apresCommit" \in Pannes
            /\ pc[cles[k].proprietaire] = "cleanup"]_vars

\* The contract: the effect of a key is the call that committed under it.
Effet ==
  [k \in Cles |-> IF \E c \in commis : CleDe[c] = k
                  THEN CHOOSE c \in commis : CleDe[c] = k ELSE Rien]

Contract == INSTANCE IdempotencyContract WITH effet <- Effet

ContractSpec == Contract!ContractSpec
=============================================================================
