----------------------------- MODULE MCPrograms -----------------------------
(***************************************************************************)
(* Instances of Programs for TLC.                                          *)
(***************************************************************************)
EXTENDS Catalogue, TLC

CONSTANTS u1, u2, u3, k1, k2, d1, d2

Symmetry == Permutations(Dossiers) \cup Permutations(Regles)
=============================================================================
