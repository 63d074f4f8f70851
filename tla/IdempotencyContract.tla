------------------------ MODULE IdempotencyContract ------------------------
(***************************************************************************)
(* What an Idempotency-Key promises (database/015): the first call with a  *)
(* key may have its effect, once; a call that is answered with success is  *)
(* answered with that effect, if it asked for the same thing.              *)
(***************************************************************************)
CONSTANTS
  Cles,       \* (scope, key) pairs
  Appels,     \* calls
  Rien,       \* no effect, no answer
  CleDe,      \* the key a call carries
  ChargeDe    \* the payload it carries

VARIABLES
  effet,      \* per key, the call whose write took effect
  reponse     \* per call, the call whose result it was answered with

contractVars == <<effet, reponse>>

ContractInit ==
  /\ effet = [k \in Cles |-> Rien]
  /\ reponse = [c \in Appels |-> Rien]

Effectuer(c) ==
  /\ effet[CleDe[c]] = Rien
  /\ effet' = [effet EXCEPT ![CleDe[c]] = c]
  /\ UNCHANGED reponse

Repondre(c) ==
  /\ reponse[c] = Rien
  /\ effet[CleDe[c]] # Rien
  /\ ChargeDe[effet[CleDe[c]]] = ChargeDe[c]
  /\ reponse' = [reponse EXCEPT ![c] = effet[CleDe[c]]]
  /\ UNCHANGED effet

ContractNext == \E c \in Appels : Effectuer(c) \/ Repondre(c)

ContractSpec == ContractInit /\ [][ContractNext]_contractVars
=============================================================================
