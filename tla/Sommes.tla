------------------------------- MODULE Sommes -------------------------------
(***************************************************************************)
(* SELECT COALESCE(SUM(col), 0): the sum of a column over the rows of a    *)
(* table, the rows in the order they were inserted.                        *)
(***************************************************************************)
EXTENDS Integers, Sequences

\* Partial sums of a sequence of amounts: cumul[i] adds up the first i.
Cumul(w) ==
  LET cumul[i \in 0..Len(w)] == IF i = 0 THEN 0 ELSE cumul[i - 1] + w[i]
  IN  cumul

Somme(w) == Cumul(w)[Len(w)]

\* The same of a column v over the rows of S, in whatever order.
Elu(T) == CHOOSE x \in T : TRUE

SommeSur(v, S) ==
  LET total[T \in SUBSET S] == IF T = {} THEN 0 ELSE v[Elu(T)] + total[T \ {Elu(T)}]
  IN  total[S]

Total(v) == SommeSur(v, DOMAIN v)
=============================================================================
