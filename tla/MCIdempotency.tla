--------------------------- MODULE MCIdempotency ---------------------------
(***************************************************************************)
(* Instances of Idempotency and of the forms in front of it: an amount     *)
(* sent at most twice under each key, and under the first key the same     *)
(* form with its amount edited.                                            *)
(***************************************************************************)
EXTENDS Formulaires, TLC

CONSTANTS h1, h2

AppelsF == {<<k, h1, n>> : k \in Cles, n \in 1..2} \cup {<<1, h2, 1>>}
CleDeF == [c \in AppelsF |-> c[1]]
ChargeDeF == [c \in AppelsF |-> c[2]]
=============================================================================
