---------------------------- MODULE MCLimites ----------------------------
EXTENDS Limites, TLC
CONSTANTS q1,q2,q3,q4
Symetrie == Permutations(Requetes)
=============================================================================
