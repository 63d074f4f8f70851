---------------------------- MODULE MCFinancings ----------------------------
(***************************************************************************)
(* Instances of Financings for TLC.                                        *)
(***************************************************************************)
EXTENDS Portefeuille, TLC

CONSTANTS f1, f2, e1, e2, e3, d1, d2, p1, p2, r1, r2

UneEcheance == (e1 :> f1)

\* Two financings, of 2 and 1, each with its bank; p1 follows both, through the
\* company of f2.  Amounts of 1 and 2 reach the ceilings exactly, fall short of
\* them and overshoot them.  Two instalments of 2 on f1, on different days, so
\* that a payment on the later one hides the other, and one of 1 on f2, the
\* same day as the first.
Accorde21       == (f1 :> 2) @@ (f2 :> 1)
TroisEcheances  == (e1 :> f1) @@ (e2 :> f1) @@ (e3 :> f2)
Du221           == (e1 :> 2) @@ (e2 :> 2) @@ (e3 :> 1)
Dates3          == (e1 :> 1) @@ (e2 :> 2) @@ (e3 :> 1)
DeuxBanques     == (f1 :> p1) @@ (f2 :> p2)
PerimetreDouble == {<<p1, f1>>, <<p1, f2>>, <<p2, f2>>}

\* For SoldeePayee, which TLC refutes on one instalment with amounts of 10 and
\* 70, in centimes: 0.70 + 0.10 is 0.7999999999999999 as a double.
Du80     == [e \in Echeances |-> 80]
Accorde80 == [f \in Financements |-> 80]
Tronquees80 == {<<a, 80 - a>> : a \in {8, 9, 10, 11, 21, 22, 23, 57, 58, 59, 69, 70, 71, 72}}
=============================================================================
