----------------------------- MODULE MCRappels -----------------------------
(***************************************************************************)
(* Instances of Rappels for TLC: overlapping runs over the reminders of    *)
(* one user.                                                               *)
(***************************************************************************)
EXTENDS Rappels, TLC

CONSTANTS o1, u1, r1, r2, r3

Utilisateur1 == (o1 :> u1)

Symmetry == Permutations(Runs)
=============================================================================
