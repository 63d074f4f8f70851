---------------------------- MODULE MCDocuments ----------------------------
(***************************************************************************)
(* Instances of Documents for TLC: three uploads of one type.              *)
(***************************************************************************)
EXTENDS Pieces, TLC

CONSTANTS d1, d2, d3, v1, v2, rccm, nif

Types3 == (d1 :> rccm) @@ (d2 :> rccm) @@ (d3 :> rccm)

Symmetry == Permutations({d1, d2, d3}) \cup Permutations(Verifs)
=============================================================================
