-------------------------- MODULE FinancingsProofs --------------------------
(***************************************************************************)
(* Five parts.  Sommes: the sum of  a column grows by exactly the amount   *)
(* of an appended row, and depends on nothing but the amounts, in whatever *)
(* order and by whatever groups they are added; the proofs go by induction *)
(* on the number of rows, from the well-foundedness of < over Nat, in a    *)
(* form that speaks about a set and not about a predicate.                 *)
(* Ledger: sums computed from the rows stay under the ceiling, the         *)
(* maker-checker rule, the append-only history.                            *)
(* Financings: the money handlers implement the ledger.  Row locks exclude *)
(* each other, so what a transaction reads under its lock is still true    *)
(* when it writes, so every commit is one operation of Ledger, whose       *)
(* theorems then hold of the handlers.                                     *)
(* Portefeuille: what the pages and the dashboard add up, from the         *)
(* ceilings, the statuses and the rows that each declaration left.         *)
(* Rapprochement: what matchEntry reads under its two locks is still true  *)
(* when it inserts, and the history of the ledger keeps each match true.   *)
(***************************************************************************)
EXTENDS Portefeuille, Rapprochement, FiniteSetTheorems, TLAPS, WellFoundedInduction

\* Every non-empty set of naturals has a least element.
LEMMA LeastNatural ==
  ASSUME NEW T \in SUBSET Nat, T # {}
  PROVE  \E x \in T : \A y \in T : ~ (y < x)
<1> DEFINE R == OpToRel(<, Nat)
<1>1. IsWellFoundedOn(R, Nat)
  BY NatLessThanWellFounded
<1>2. \E x \in T : \A y \in T : ~ (<<y, x>> \in R)
  <2> HIDE DEF R
  <2> QED
    BY <1>1, WFMin
<1>3. ASSUME NEW x \in T, NEW y \in T, y < x
      PROVE  <<y, x>> \in R
  BY <1>3 DEF OpToRel
<1> QED
  BY <1>2, <1>3

\* A set that holds 0 and, with a natural, its successor, holds them all.
LEMMA SetInduction ==
  ASSUME NEW S, 0 \in S, \A n \in Nat : n \in S => n + 1 \in S
  PROVE  Nat \subseteq S
<1> DEFINE T == Nat \ S
<1>1. SUFFICES ASSUME T # {} PROVE FALSE
  OBVIOUS
<1>2. PICK x \in T : \A y \in T : ~ (y < x)
  <2>1. T \in SUBSET Nat
    OBVIOUS
  <2> HIDE DEF T
  <2> QED
    BY <1>1, <2>1, LeastNatural
<1>3. x # 0
  OBVIOUS
<1>4. x - 1 \in Nat /\ x - 1 \notin T
  BY <1>2, <1>3
<1>5. x \in S
  BY <1>4
<1> QED
  BY <1>5

\* A partial-sum function of the first n amounts of w.
Cumule(c, w, n) ==
  c = [i \in 0..n |-> IF i = 0 THEN 0 ELSE c[i - 1] + w[i]]

\* Partial sums exist for every number of rows.
LEMMA CumulExiste ==
  ASSUME NEW w \in Seq(Nat)
  PROVE  \A n \in 0..Len(w) : \E c \in [0..n -> Nat] : Cumule(c, w, n)
<1> DEFINE S == {n \in Nat : n <= Len(w) =>
                   \E c \in [0..n -> Nat] : Cumule(c, w, n)}
<1>1. 0 \in S
  <2> DEFINE c == [i \in 0..0 |-> 0]
  <2>1. c \in [0..0 -> Nat] /\ Cumule(c, w, 0)
    BY DEF Cumule
  <2> QED
    BY <2>1
<1>2. ASSUME NEW n \in Nat, n \in S
      PROVE  n + 1 \in S
  <2>1. SUFFICES ASSUME n + 1 <= Len(w)
                 PROVE  \E c \in [0..(n + 1) -> Nat] : Cumule(c, w, n + 1)
    OBVIOUS
  <2>2. PICK b \in [0..n -> Nat] : Cumule(b, w, n)
    BY <1>2, <2>1
  <2>3. w[n + 1] \in Nat
    BY <2>1
  <2> DEFINE c == [i \in 0..(n + 1) |-> IF i <= n THEN b[i] ELSE b[n] + w[n + 1]]
  <2>4. c \in [0..(n + 1) -> Nat]
    BY <2>3
  <2>5. ASSUME NEW i \in 0..(n + 1)
        PROVE  c[i] = IF i = 0 THEN 0 ELSE c[i - 1] + w[i]
    <3>1. CASE i <= n
      BY <3>1, <2>2 DEF Cumule
    <3>2. CASE i = n + 1
      BY <3>2
    <3> QED
      BY <3>1, <3>2
  <2>6. Cumule(c, w, n + 1)
    BY <2>4, <2>5 DEF Cumule
  <2> QED
    BY <2>4, <2>6
<1>3. Nat \subseteq S
  <2> HIDE DEF S
  <2> QED
    BY <1>1, <1>2, SetInduction
<1> QED
  BY <1>3

\* Two partial-sum functions agree on the rows they share.
LEMMA CumulUnique ==
  ASSUME NEW w, NEW v, NEW m \in Nat, NEW n \in Nat, m <= n,
         NEW b, NEW c, Cumule(b, w, m), Cumule(c, v, n),
         \A i \in 1..m : w[i] = v[i]
  PROVE  \A i \in 0..m : b[i] = c[i]
<1> DEFINE S == {i \in Nat : i <= m => b[i] = c[i]}
<1>1. 0 \in S
  BY DEF Cumule
<1>2. ASSUME NEW i \in Nat, i \in S
      PROVE  i + 1 \in S
  <2>1. SUFFICES ASSUME i + 1 <= m PROVE b[i + 1] = c[i + 1]
    OBVIOUS
  <2>2. b[i + 1] = b[i] + w[i + 1] /\ c[i + 1] = c[i] + v[i + 1]
    BY <2>1 DEF Cumule
  <2> QED
    BY <1>2, <2>1, <2>2
<1>3. Nat \subseteq S
  <2> HIDE DEF S
  <2> QED
    BY <1>1, <1>2, SetInduction
<1> QED
  BY <1>3

\* The recursive definition of Cumul defines the partial sums.
LEMMA CumulCorrect ==
  ASSUME NEW w \in Seq(Nat)
  PROVE  Cumul(w) \in [0..Len(w) -> Nat] /\ Cumule(Cumul(w), w, Len(w))
<1>1. Len(w) \in Nat /\ Len(w) \in 0..Len(w)
  OBVIOUS
<1>2. PICK c \in [0..Len(w) -> Nat] : Cumule(c, w, Len(w))
  BY <1>1, CumulExiste
<1>3. Cumule(Cumul(w), w, Len(w))
  BY <1>2 DEF Cumul, Cumule
<1>4. \A i \in 0..Len(w) : Cumul(w)[i] = c[i]
  BY <1>1, <1>2, <1>3, CumulUnique
<1>5. Cumul(w) = c
  BY <1>3, <1>4, <1>2 DEF Cumule
<1> QED
  BY <1>2, <1>3, <1>5

\* Appended rows leave the earlier partial sums as they were.
LEMMA CumulPrefixe ==
  ASSUME NEW w \in Seq(Nat), NEW v \in Seq(Nat), Len(w) <= Len(v),
         \A i \in 1..Len(w) : w[i] = v[i]
  PROVE  Cumul(w)[Len(w)] = Cumul(v)[Len(w)]
<1> DEFINE S == {i \in Nat : i <= Len(w) => Cumul(w)[i] = Cumul(v)[i]}
<1>1. Cumule(Cumul(w), w, Len(w)) /\ Cumule(Cumul(v), v, Len(v))
  BY CumulCorrect
<1>2. Len(w) \in Nat /\ Len(v) \in Nat
  OBVIOUS
<1>3. 0 \in S
  BY <1>1, <1>2 DEF Cumule
<1>4. ASSUME NEW i \in Nat, i \in S
      PROVE  i + 1 \in S
  <2>1. SUFFICES ASSUME i + 1 <= Len(w)
                 PROVE  Cumul(w)[i + 1] = Cumul(v)[i + 1]
    OBVIOUS
  <2>2. Cumul(w)[i + 1] = Cumul(w)[i] + w[i + 1]
    BY <1>1, <1>2, <2>1 DEF Cumule
  <2>3. Cumul(v)[i + 1] = Cumul(v)[i] + v[i + 1]
    BY <1>1, <1>2, <2>1 DEF Cumule
  <2>4. w[i + 1] = v[i + 1] /\ Cumul(w)[i] = Cumul(v)[i]
    BY <1>2, <1>4, <2>1
  <2> QED
    BY <2>2, <2>3, <2>4
<1>5. Nat \subseteq S
  <2> HIDE DEF S
  <2> QED
    BY <1>3, <1>4, SetInduction
<1> QED
  BY <1>2, <1>5

\* The sum of no rows is 0 (COALESCE) and a sum of amounts is an amount.
THEOREM SommeVide == Somme(<<>>) = 0
<1>1. <<>> \in Seq(Nat) /\ Len(<<>>) = 0
  OBVIOUS
<1>2. Cumule(Cumul(<<>>), <<>>, 0)
  BY <1>1, CumulCorrect
<1>3. Cumul(<<>>)[0] = 0
  BY <1>2 DEF Cumule
<1> QED
  BY <1>1, <1>3 DEF Somme

\* A sum of natural numbers is a natural number.
THEOREM SommeNat ==
  ASSUME NEW w \in Seq(Nat) PROVE Somme(w) \in Nat
<1>1. Len(w) \in 0..Len(w)
  OBVIOUS
<1> QED
  BY <1>1, CumulCorrect DEF Somme

\* Inserting one row adds its amount to the sum, whatever the table holds.
THEOREM SommeAppend ==
  ASSUME NEW w \in Seq(Nat), NEW x \in Nat
  PROVE  Somme(Append(w, x)) = Somme(w) + x
<1> DEFINE v == Append(w, x)
<1>1. v \in Seq(Nat) /\ Len(v) = Len(w) + 1 /\ v[Len(w) + 1] = x
      /\ \A i \in 1..Len(w) : w[i] = v[i]
  OBVIOUS
<1>2. Cumule(Cumul(w), w, Len(w)) /\ Cumule(Cumul(v), v, Len(v))
  BY <1>1, CumulCorrect
<1>3. Len(w) \in Nat /\ Len(v) \in Nat /\ Len(w) <= Len(v)
  BY <1>1
<1>4. Cumul(w)[Len(w)] = Cumul(v)[Len(w)]
  <2> HIDE DEF v
  <2> QED
    BY <1>1, <1>3, CumulPrefixe
<1>5. Cumul(v)[Len(v)] = Cumul(v)[Len(w)] + x
  <2> HIDE DEF v
  <2> QED
    BY <1>1, <1>2, <1>3 DEF Cumule
<1> QED
  BY <1>4, <1>5 DEF Somme

-----------------------------------------------------------------------------
(* Sums over a set of rows, in whatever order.                             *)

\* A family of subsets of a finite set that holds {} and, with a subset, what
\* one more element makes of it, holds the set.
LEMMA InductionFinie ==
  ASSUME NEW S, IsFiniteSet(S), NEW F, {} \in F,
         \A T \in SUBSET S : T \in F => \A x \in S \ T : T \cup {x} \in F
  PROVE  S \in F
<1> DEFINE K == {n \in Nat : \A T \in SUBSET S : Cardinality(T) = n => T \in F}
<1>1. \A T \in SUBSET S : IsFiniteSet(T) /\ Cardinality(T) \in Nat
  BY FS_Subset, FS_CardinalityType
<1>2. 0 \in K
  <2>1. \A T \in SUBSET S : Cardinality(T) = 0 => T = {}
    BY <1>1, FS_EmptySet
  <2>2. QED  BY <2>1
<1>3. ASSUME NEW n \in Nat, n \in K
      PROVE  n + 1 \in K
  <2>1. SUFFICES ASSUME NEW T \in SUBSET S, Cardinality(T) = n + 1
                 PROVE  T \in F
    OBVIOUS
  <2>2. IsFiniteSet(T) /\ T # {}
    BY <1>1, <2>1, FS_EmptySet
  <2>3. PICK x \in T : TRUE
    BY <2>2
  <2>4. Cardinality(T \ {x}) = n
    <3>1. Cardinality(T \ {x}) = Cardinality(T) - 1  BY <2>2, FS_RemoveElement
    <3>2. QED  BY <2>1, <3>1
  <2>5. T \ {x} \in SUBSET S /\ T \ {x} \in F
    BY <1>3, <2>4
  <2>6. x \in S \ (T \ {x}) /\ (T \ {x}) \cup {x} = T
    OBVIOUS
  <2>7. QED  BY <2>5, <2>6
<1>4. Nat \subseteq K
  <2> HIDE DEF K
  <2> QED  BY <1>2, <1>3, SetInduction
<1>5. Cardinality(S) \in K /\ S \in SUBSET S
  BY <1>1, <1>4
<1>6. QED  BY <1>5

\* What t makes of T from one subset less.
Somme1(t, v, T) == IF T = {} THEN 0 ELSE v[Elu(T)] + t[T \ {Elu(T)}]

\* t adds v up over every subset of S.
Totalise(t, v, S) == t = [T \in SUBSET S |-> IF T = {} THEN 0 ELSE v[Elu(T)] + t[T \ {Elu(T)}]]

\* The chosen element is one of the set's.
LEMMA EluDedans ==
  ASSUME NEW T, T # {}
  PROVE  Elu(T) \in T
BY DEF Elu

\* Sums exist over every finite set of rows.
LEMMA TotalExiste ==
  ASSUME NEW S, IsFiniteSet(S), NEW v, \A x \in S : v[x] \in Int
  PROVE  \E t \in [SUBSET S -> Int] : Totalise(t, v, S)
<1> DEFINE Bas(n) == {T \in SUBSET S : Cardinality(T) <= n}
           Bon(t, n) == \A T \in Bas(n) : t[T] = Somme1(t, v, T)
           K == {n \in Nat : \E t \in [Bas(n) -> Int] : Bon(t, n)}
<1>1. \A T \in SUBSET S : IsFiniteSet(T) /\ Cardinality(T) \in Nat
  BY FS_Subset, FS_CardinalityType
<1>2. \A T \in SUBSET S : T # {} => /\ Elu(T) \in T /\ v[Elu(T)] \in Int
                                    /\ T \ {Elu(T)} \in SUBSET S
                                    /\ Cardinality(T \ {Elu(T)}) = Cardinality(T) - 1
  <2>1. SUFFICES ASSUME NEW T \in SUBSET S, T # {}
                 PROVE  /\ Elu(T) \in T /\ v[Elu(T)] \in Int
                        /\ T \ {Elu(T)} \in SUBSET S
                        /\ Cardinality(T \ {Elu(T)}) = Cardinality(T) - 1
    OBVIOUS
  <2>2. Elu(T) \in T  BY <2>1, EluDedans
  <2>3. QED  BY <1>1, <2>2, FS_RemoveElement
<1>3. 0 \in K
  <2> DEFINE t == [T \in Bas(0) |-> 0]
  <2>1. \A T \in Bas(0) : T = {}  BY <1>1, FS_EmptySet
  <2>2. t \in [Bas(0) -> Int] /\ Bon(t, 0)  BY <2>1 DEF Somme1
  <2>3. QED  BY <2>2
<1>4. ASSUME NEW n \in Nat, n \in K
      PROVE  n + 1 \in K
  <2>1. PICK t \in [Bas(n) -> Int] : Bon(t, n)  BY <1>4
  <2> DEFINE u == [T \in Bas(n + 1) |-> IF T \in Bas(n) THEN t[T] ELSE Somme1(t, v, T)]
  <2>2. \A T \in Bas(n + 1) : T # {} => T \ {Elu(T)} \in Bas(n)
    BY <1>1, <1>2
  <2>3. \A T \in Bas(n + 1) : Somme1(t, v, T) \in Int
    BY <1>2, <2>1, <2>2 DEF Somme1
  <2>4. u \in [Bas(n + 1) -> Int]
    BY <2>1, <2>3
  <2>5. \A T \in Bas(n) : T \in Bas(n + 1)  BY <1>1
  <2>6. \A T \in Bas(n) : u[T] = t[T]  BY <2>5
  <2>7. ASSUME NEW T \in Bas(n + 1)
        PROVE  Somme1(u, v, T) = Somme1(t, v, T)
    <3> HIDE DEF u, Bas
    <3>1. CASE T = {}
      BY <3>1 DEF Somme1
    <3>2. CASE T # {}
      <4>1. u[T \ {Elu(T)}] = t[T \ {Elu(T)}]  BY <2>2, <2>6, <3>2
      <4>2. QED  BY <4>1 DEF Somme1
    <3>3. QED  BY <3>1, <3>2
  <2>8. \A T \in Bas(n + 1) : u[T] = Somme1(t, v, T)
    BY <2>1
  <2>9. Bon(u, n + 1)
    BY <2>7, <2>8
  <2>10. \E x \in [Bas(n + 1) -> Int] : Bon(x, n + 1)
    <3> HIDE DEF u, Bas, Bon
    <3> QED  BY <2>4, <2>9
  <2>11. QED
    <3> HIDE DEF u, Bas, Bon
    <3> QED  BY <2>10
<1>5. Nat \subseteq K
  <2> HIDE DEF K
  <2> QED  BY <1>3, <1>4, SetInduction
<1>6. PICK t \in [Bas(Cardinality(S)) -> Int] : Bon(t, Cardinality(S))
  BY <1>1, <1>5
<1>7. Bas(Cardinality(S)) = SUBSET S
  <2>1. \A T \in SUBSET S : Cardinality(T) <= Cardinality(S)
    BY FS_Subset
  <2>2. QED  BY <2>1
<1>8. t \in [SUBSET S -> Int] /\ \A T \in SUBSET S : t[T] = Somme1(t, v, T)
  BY <1>6, <1>7
<1>9. Totalise(t, v, S)
  BY <1>8 DEF Totalise, Somme1
<1>10. QED  BY <1>8, <1>9

\* The sum over a subset does not depend on the set it is taken in, nor on what
\* v says elsewhere.
LEMMA TotalUnique ==
  ASSUME NEW S, NEW R, IsFiniteSet(R), R \subseteq S, NEW v, NEW w,
         \A x \in R : v[x] = w[x],
         NEW t, NEW u, Totalise(t, v, S), Totalise(u, w, R)
  PROVE  \A T \in SUBSET R : t[T] = u[T]
<1> DEFINE K == {n \in Nat : \A T \in SUBSET R : Cardinality(T) = n => t[T] = u[T]}
<1>1. \A T \in SUBSET R : IsFiniteSet(T) /\ Cardinality(T) \in Nat
  BY FS_Subset, FS_CardinalityType
<1>2. \A T \in SUBSET R : /\ t[T] = IF T = {} THEN 0 ELSE v[Elu(T)] + t[T \ {Elu(T)}]
                          /\ u[T] = IF T = {} THEN 0 ELSE w[Elu(T)] + u[T \ {Elu(T)}]
  <2>1. \A T \in SUBSET S : t[T] = IF T = {} THEN 0 ELSE v[Elu(T)] + t[T \ {Elu(T)}]
    BY DEF Totalise
  <2>2. \A T \in SUBSET R : u[T] = IF T = {} THEN 0 ELSE w[Elu(T)] + u[T \ {Elu(T)}]
    BY DEF Totalise
  <2>3. SUBSET R \subseteq SUBSET S  OBVIOUS
  <2>4. QED  BY <2>1, <2>2, <2>3
<1>3. 0 \in K
  <2>1. \A T \in SUBSET R : Cardinality(T) = 0 => T = {}  BY <1>1, FS_EmptySet
  <2>2. QED  BY <1>2, <2>1
<1>4. ASSUME NEW n \in Nat, n \in K
      PROVE  n + 1 \in K
  <2>1. SUFFICES ASSUME NEW T \in SUBSET R, Cardinality(T) = n + 1
                 PROVE  t[T] = u[T]
    OBVIOUS
  <2>2. IsFiniteSet(T) /\ T # {}  BY <1>1, <2>1, FS_EmptySet
  <2>3. Elu(T) \in T  BY <2>2, EluDedans
  <2>4. Cardinality(T \ {Elu(T)}) = n /\ T \ {Elu(T)} \in SUBSET R
    <3>1. Cardinality(T \ {Elu(T)}) = Cardinality(T) - 1  BY <2>2, <2>3, FS_RemoveElement
    <3>2. QED  BY <2>1, <3>1
  <2>5. t[T \ {Elu(T)}] = u[T \ {Elu(T)}]  BY <1>4, <2>4
  <2>6. v[Elu(T)] = w[Elu(T)]  BY <2>3
  <2>7. QED  BY <1>2, <2>2, <2>5, <2>6
<1>5. Nat \subseteq K
  <2> HIDE DEF K
  <2> QED  BY <1>3, <1>4, SetInduction
<1>6. QED  BY <1>1, <1>5

\* SommeSur is that sum.
LEMMA SommeSurTotalise ==
  ASSUME NEW S, IsFiniteSet(S), NEW v, \A x \in S : v[x] \in Int
  PROVE  \E t \in [SUBSET S -> Int] : Totalise(t, v, S) /\ SommeSur(v, S) = t[S]
<1> DEFINE c == CHOOSE t : t = [T \in SUBSET S |-> IF T = {} THEN 0 ELSE v[Elu(T)] + t[T \ {Elu(T)}]]
<1>1. PICK t \in [SUBSET S -> Int] : Totalise(t, v, S)
  BY TotalExiste
<1>2. Totalise(c, v, S)
  BY <1>1 DEF Totalise
<1>3. \A T \in SUBSET S : c[T] = t[T]
  <2> HIDE DEF c
  <2> QED  BY <1>1, <1>2, TotalUnique
<1>4. c = t
  <2> HIDE DEF c
  <2> QED  BY <1>1, <1>2, <1>3 DEF Totalise
<1>5. SommeSur(v, S) = c[S]
  BY DEF SommeSur
<1>6. QED
  <2> HIDE DEF c
  <2> QED  BY <1>1, <1>2, <1>4, <1>5

\* Sums depend on nothing but the amounts.
LEMMA SommeEgale ==
  ASSUME NEW S, IsFiniteSet(S), NEW v, NEW w, \A x \in S : v[x] \in Int /\ v[x] = w[x]
  PROVE  SommeSur(v, S) = SommeSur(w, S)
<1>1. PICK t \in [SUBSET S -> Int] : Totalise(t, v, S) /\ SommeSur(v, S) = t[S]
  BY SommeSurTotalise
<1>2. \A x \in S : w[x] \in Int  OBVIOUS
<1>3. PICK u \in [SUBSET S -> Int] : Totalise(u, w, S) /\ SommeSur(w, S) = u[S]
  BY <1>2, SommeSurTotalise
<1>4. \A T \in SUBSET S : t[T] = u[T]
  BY <1>1, <1>3, TotalUnique
<1>5. QED  BY <1>1, <1>3, <1>4

\* A sum of integers is one, and nothing adds up to 0.
LEMMA SommeEntiere ==
  ASSUME NEW S, IsFiniteSet(S), NEW v, \A x \in S : v[x] \in Int
  PROVE  SommeSur(v, S) \in Int /\ (S = {} => SommeSur(v, S) = 0)
<1>1. PICK t \in [SUBSET S -> Int] : Totalise(t, v, S) /\ SommeSur(v, S) = t[S]
  BY SommeSurTotalise
<1>2. S \in SUBSET S  OBVIOUS
<1>3. t[S] \in Int /\ (S = {} => t[S] = 0)
  BY <1>1, <1>2 DEF Totalise
<1>4. QED  BY <1>1, <1>3

\* The element the definition takes first.
LEMMA SommeElu ==
  ASSUME NEW S, IsFiniteSet(S), S # {}, NEW v, \A x \in S : v[x] \in Int
  PROVE  SommeSur(v, S) = v[Elu(S)] + SommeSur(v, S \ {Elu(S)})
<1> DEFINE R == S \ {Elu(S)}
<1>1. PICK t \in [SUBSET S -> Int] : Totalise(t, v, S) /\ SommeSur(v, S) = t[S]
  BY SommeSurTotalise
<1>2. IsFiniteSet(R) /\ R \subseteq S  BY FS_Subset
<1>3. PICK u \in [SUBSET R -> Int] : Totalise(u, v, R) /\ SommeSur(v, R) = u[R]
  <2> HIDE DEF R
  <2> QED  BY <1>2, SommeSurTotalise
<1>4. t[R] = u[R]
  <2> HIDE DEF R
  <2>1. \A T \in SUBSET R : t[T] = u[T]  BY <1>1, <1>2, <1>3, TotalUnique
  <2>2. QED  BY <2>1
<1>5. t[S] = v[Elu(S)] + t[R]
  BY <1>1 DEF Totalise
<1>6. QED  BY <1>1, <1>3, <1>4, <1>5

\* Any element may be taken first.
LEMMA SommeInsere ==
  ASSUME NEW S, IsFiniteSet(S), NEW v, \A x \in S : v[x] \in Int
  PROVE  \A x \in S : SommeSur(v, S) = v[x] + SommeSur(v, S \ {x})
<1> DEFINE Ok(T) == \A x \in T : SommeSur(v, T) = v[x] + SommeSur(v, T \ {x})
           K == {n \in Nat : \A T \in SUBSET S : Cardinality(T) = n => Ok(T)}
<1>1. \A T \in SUBSET S : IsFiniteSet(T) /\ Cardinality(T) \in Nat /\ \A x \in T : v[x] \in Int
  BY FS_Subset, FS_CardinalityType
<1>2. 0 \in K
  <2>1. \A T \in SUBSET S : Cardinality(T) = 0 => T = {}  BY <1>1, FS_EmptySet
  <2>2. QED  BY <2>1
<1>3. ASSUME NEW n \in Nat, n \in K
      PROVE  n + 1 \in K
  <2>1. SUFFICES ASSUME NEW T \in SUBSET S, Cardinality(T) = n + 1, NEW x \in T
                 PROVE  SommeSur(v, T) = v[x] + SommeSur(v, T \ {x})
    OBVIOUS
  <2> DEFINE e == Elu(T)
  <2>2. e \in T  BY EluDedans
  <2>3. SommeSur(v, T) = v[e] + SommeSur(v, T \ {e})  BY <1>1, SommeElu
  <2>4. CASE x = e  BY <2>3, <2>4
  <2>5. CASE x # e
    <3> HIDE DEF e
    <3>1. \A y \in T : Cardinality(T \ {y}) = n /\ T \ {y} \in SUBSET S
      <4>1. \A y \in T : Cardinality(T \ {y}) = Cardinality(T) - 1  BY <1>1, FS_RemoveElement
      <4>2. QED  BY <2>1, <4>1
    <3>2. Ok(T \ {e}) /\ Ok(T \ {x})  BY <1>3, <2>2, <3>1
    <3>3. x \in T \ {e} /\ e \in T \ {x} /\ (T \ {e}) \ {x} = (T \ {x}) \ {e}
      BY <2>2, <2>5
    <3>4. /\ SommeSur(v, T \ {e}) = v[x] + SommeSur(v, (T \ {x}) \ {e})
          /\ SommeSur(v, T \ {x}) = v[e] + SommeSur(v, (T \ {x}) \ {e})
      BY <3>2, <3>3
    <3>5. v[x] \in Int /\ v[e] \in Int /\ SommeSur(v, (T \ {x}) \ {e}) \in Int
      <4> DEFINE U == (T \ {x}) \ {e}
      <4>1. U \in SUBSET S  OBVIOUS
      <4>2. SommeSur(v, U) \in Int
        <5> HIDE DEF U
        <5> QED  BY <1>1, <4>1, SommeEntiere
      <4>3. QED  BY <1>1, <2>2, <4>2
    <3>6. QED  BY <2>3, <3>4, <3>5
  <2>6. QED  BY <2>4, <2>5
<1>4. Nat \subseteq K
  <2> HIDE DEF K
  <2> QED  BY <1>2, <1>3, SetInduction
<1>5. S \in SUBSET S  OBVIOUS
<1>6. Ok(S)
  <2> HIDE DEF Ok
  <2> QED  BY <1>1, <1>4, <1>5
<1>7. QED  BY <1>6

\* One more row adds its amount.
LEMMA SommeAjoute ==
  ASSUME NEW S, IsFiniteSet(S), NEW x, x \notin S, NEW v, \A y \in S \cup {x} : v[y] \in Int
  PROVE  SommeSur(v, S \cup {x}) = v[x] + SommeSur(v, S)
<1>1. IsFiniteSet(S \cup {x})  BY FS_AddElement
<1>2. (S \cup {x}) \ {x} = S  OBVIOUS
<1>3. SommeSur(v, S \cup {x}) = v[x] + SommeSur(v, (S \cup {x}) \ {x})
  BY <1>1, SommeInsere
<1>4. QED  BY <1>2, <1>3

\* Sums add up column by column.
LEMMA SommePlus ==
  ASSUME NEW S, IsFiniteSet(S), NEW u, NEW v, NEW w,
         \A x \in S : v[x] \in Int /\ w[x] \in Int /\ u[x] = v[x] + w[x]
  PROVE  SommeSur(u, S) = SommeSur(v, S) + SommeSur(w, S)
<1> DEFINE F == {T \in SUBSET S : SommeSur(u, T) = SommeSur(v, T) + SommeSur(w, T)}
<1>1. \A x \in S : u[x] \in Int /\ v[x] \in Int /\ w[x] \in Int  OBVIOUS
<1>2. {} \in F
  <2>1. IsFiniteSet({})  BY FS_EmptySet
  <2>2. SommeSur(u, {}) = 0 /\ SommeSur(v, {}) = 0 /\ SommeSur(w, {}) = 0
    BY <2>1, SommeEntiere
  <2>3. QED  BY <2>2
<1>3. ASSUME NEW T \in SUBSET S, T \in F, NEW x \in S \ T
      PROVE  T \cup {x} \in F
  <2>1. IsFiniteSet(T) /\ T \cup {x} \in SUBSET S /\ x \notin T  BY FS_Subset
  <2>2. /\ SommeSur(u, T \cup {x}) = u[x] + SommeSur(u, T)
        /\ SommeSur(v, T \cup {x}) = v[x] + SommeSur(v, T)
        /\ SommeSur(w, T \cup {x}) = w[x] + SommeSur(w, T)
    BY <1>1, <2>1, SommeAjoute
  <2>3. SommeSur(v, T) \in Int /\ SommeSur(w, T) \in Int
    BY <1>1, <2>1, SommeEntiere
  <2>4. SommeSur(u, T) = SommeSur(v, T) + SommeSur(w, T)  BY <1>3
  <2>5. SommeSur(u, T \cup {x}) = SommeSur(v, T \cup {x}) + SommeSur(w, T \cup {x})
    BY <1>1, <2>2, <2>3, <2>4
  <2>6. QED  BY <2>1, <2>5
<1>4. S \in F
  <2> HIDE DEF F
  <2> QED  BY <1>2, <1>3, InductionFinie
<1>5. QED  BY <1>4

\* A sum of amounts is an amount, no less than any of them, and 0 only when
\* they all are.
LEMMA SommePositive ==
  ASSUME NEW S, IsFiniteSet(S), NEW v, \A x \in S : v[x] \in Nat
  PROVE  /\ SommeSur(v, S) \in Nat
         /\ \A x \in S : v[x] <= SommeSur(v, S)
         /\ (\A x \in S : v[x] = 0) => SommeSur(v, S) = 0
<1> DEFINE F == {T \in SUBSET S : /\ SommeSur(v, T) \in Nat
                                  /\ (\A x \in T : v[x] = 0) => SommeSur(v, T) = 0}
<1>1. \A x \in S : v[x] \in Int  OBVIOUS
<1>2. {} \in F
  <2>1. IsFiniteSet({})  BY FS_EmptySet
  <2>2. SommeSur(v, {}) = 0  BY <2>1, SommeEntiere
  <2>3. QED  BY <2>2
<1>3. ASSUME NEW T \in SUBSET S, T \in F, NEW x \in S \ T
      PROVE  T \cup {x} \in F
  <2>1. IsFiniteSet(T) /\ T \cup {x} \in SUBSET S /\ x \notin T  BY FS_Subset
  <2>2. SommeSur(v, T \cup {x}) = v[x] + SommeSur(v, T)
    BY <1>1, <2>1, SommeAjoute
  <2>3. v[x] \in Nat /\ SommeSur(v, T) \in Nat  BY <1>3
  <2>4. SommeSur(v, T \cup {x}) \in Nat  BY <2>2, <2>3
  <2>5. (\A y \in T \cup {x} : v[y] = 0) => SommeSur(v, T \cup {x}) = 0
    BY <1>3, <2>2
  <2>6. QED  BY <2>1, <2>4, <2>5
<1>4. ASSUME NEW T \in SUBSET S
      PROVE  T \in F
  <2>1. IsFiniteSet(T)  BY FS_Subset
  <2>2. {} \in F /\ \A U \in SUBSET T : U \in F => \A x \in T \ U : U \cup {x} \in F
    BY <1>2, <1>3
  <2>3. QED
    <3> HIDE DEF F
    <3> QED  BY <2>1, <2>2, InductionFinie
<1>5. S \in SUBSET S  OBVIOUS
<1>6. S \in F  BY <1>4, <1>5
<1>7. ASSUME NEW x \in S PROVE v[x] <= SommeSur(v, S)
  <2>1. S \ {x} \in F  BY <1>4
  <2>2. SommeSur(v, S) = v[x] + SommeSur(v, S \ {x})  BY <1>1, SommeInsere
  <2>3. v[x] \in Nat /\ SommeSur(v, S \ {x}) \in Nat  BY <2>1
  <2>4. QED  BY <2>2, <2>3
<1>8. QED  BY <1>6, <1>7

\* Sums grow with the amounts.
LEMMA SommeCroit ==
  ASSUME NEW S, IsFiniteSet(S), NEW v, NEW w,
         \A x \in S : v[x] \in Int /\ w[x] \in Int /\ v[x] <= w[x]
  PROVE  SommeSur(v, S) <= SommeSur(w, S)
<1> DEFINE d == [x \in S |-> w[x] - v[x]]
<1>1. \A x \in S : d[x] \in Nat /\ d[x] \in Int /\ v[x] \in Int /\ w[x] = v[x] + d[x]
  OBVIOUS
<1> HIDE DEF d
<1>2. SommeSur(w, S) = SommeSur(v, S) + SommeSur(d, S)  BY <1>1, SommePlus
<1>3. SommeSur(d, S) \in Nat  BY <1>1, SommePositive
<1>4. SommeSur(v, S) \in Int  BY <1>1, SommeEntiere
<1>5. QED  BY <1>2, <1>3, <1>4

\* Two parts of a table.
LEMMA SommeDisjointe ==
  ASSUME NEW A, NEW B, IsFiniteSet(A), IsFiniteSet(B), A \cap B = {},
         NEW v, \A x \in A \cup B : v[x] \in Int
  PROVE  SommeSur(v, A \cup B) = SommeSur(v, A) + SommeSur(v, B)
<1> DEFINE F == {T \in SUBSET B : SommeSur(v, A \cup T) = SommeSur(v, A) + SommeSur(v, T)}
<1>1. SommeSur(v, A) \in Int /\ \A x \in A : v[x] \in Int  BY SommeEntiere
<1>2. {} \in F
  <2>1. IsFiniteSet({})  BY FS_EmptySet
  <2>2. SommeSur(v, {}) = 0  BY <2>1, SommeEntiere
  <2>3. A \cup {} = A  OBVIOUS
  <2>4. QED  BY <1>1, <2>2, <2>3
<1>3. ASSUME NEW T \in SUBSET B, T \in F, NEW x \in B \ T
      PROVE  T \cup {x} \in F
  <2>1. IsFiniteSet(T) /\ T \cup {x} \in SUBSET B /\ x \notin T  BY FS_Subset
  <2>2. IsFiniteSet(A \cup T) /\ x \notin A \cup T  BY <2>1, FS_Union
  <2>3. SommeSur(v, T \cup {x}) = v[x] + SommeSur(v, T)  BY <2>1, SommeAjoute
  <2>4. SommeSur(v, (A \cup T) \cup {x}) = v[x] + SommeSur(v, A \cup T)
    <3>1. \A y \in (A \cup T) \cup {x} : v[y] \in Int  OBVIOUS
    <3>2. QED  BY <2>2, <3>1, SommeAjoute
  <2>5. (A \cup T) \cup {x} = A \cup (T \cup {x})  OBVIOUS
  <2>6. SommeSur(v, T) \in Int /\ v[x] \in Int  BY <2>1, SommeEntiere
  <2>7. SommeSur(v, A \cup T) = SommeSur(v, A) + SommeSur(v, T)  BY <1>3
  <2>8. SommeSur(v, A \cup (T \cup {x})) = SommeSur(v, A) + SommeSur(v, T \cup {x})
    <3>1. SommeSur(v, A \cup (T \cup {x})) = SommeSur(v, (A \cup T) \cup {x})
      BY <2>5, Zenon
    <3>2. QED  BY <1>1, <2>3, <2>4, <2>6, <2>7, <3>1
  <2>9. QED  BY <2>1, <2>8
<1>4. B \in F
  <2> HIDE DEF F
  <2> QED  BY <1>2, <1>3, InductionFinie
<1>5. QED  BY <1>4

\* Rows that weigh nothing need not be read.
LEMMA SommeRestreint ==
  ASSUME NEW S, IsFiniteSet(S), NEW T, T \subseteq S, NEW v, \A x \in S : v[x] \in Nat,
         \A x \in S \ T : v[x] = 0
  PROVE  SommeSur(v, S) = SommeSur(v, T)
<1>1. IsFiniteSet(T) /\ IsFiniteSet(S \ T)  BY FS_Subset
<1>2. T \cup (S \ T) = S /\ T \cap (S \ T) = {}  OBVIOUS
<1>3. \A x \in T \cup (S \ T) : v[x] \in Int  OBVIOUS
<1>4. SommeSur(v, T \cup (S \ T)) = SommeSur(v, T) + SommeSur(v, S \ T)
  BY <1>1, <1>2, <1>3, SommeDisjointe
<1>5. SommeSur(v, S \ T) = 0  BY <1>1, SommePositive
<1>6. SommeSur(v, T) \in Int  BY <1>1, SommeEntiere
<1>7. SommeSur(v, T \cup (S \ T)) = SommeSur(v, S)  BY <1>2, Zenon
<1>8. QED  BY <1>4, <1>5, <1>6, <1>7

\* Group by g, add each group up, then add the groups up.
LEMMA SommeParGroupe ==
  ASSUME NEW S, IsFiniteSet(S), NEW B, IsFiniteSet(B), NEW g \in [S -> B],
         NEW v, \A x \in S : v[x] \in Int
  PROVE  SommeSur([b \in B |-> SommeSur(v, {x \in S : g[x] = b})], B) = SommeSur(v, S)
<1> DEFINE G(T) == [b \in B |-> SommeSur(v, {x \in T : g[x] = b})]
           F == {T \in SUBSET S : SommeSur(G(T), B) = SommeSur(v, T)}
<1>1. \A T \in SUBSET S : \A b \in B : G(T)[b] \in Int
  <2>1. SUFFICES ASSUME NEW T \in SUBSET S, NEW b \in B
                 PROVE  SommeSur(v, {x \in T : g[x] = b}) \in Int
    OBVIOUS
  <2> DEFINE U == {x \in T : g[x] = b}
  <2>2. IsFiniteSet(U) /\ \A x \in U : v[x] \in Int  BY FS_Subset
  <2>3. SommeSur(v, U) \in Int
    <3> HIDE DEF U
    <3> QED  BY <2>2, SommeEntiere
  <2>4. QED  BY <2>3
<1>2. {} \in F
  <2>1. IsFiniteSet({})  BY FS_EmptySet
  <2>2. SommeSur(v, {}) = 0  BY <2>1, SommeEntiere
  <2>3. \A b \in B : G({})[b] = 0
    <3>1. \A b \in B : {x \in {} : g[x] = b} = {}  OBVIOUS
    <3>2. QED  BY <2>2, <3>1
  <2>4. SommeSur(G({}), B) = 0
    <3> HIDE DEF G
    <3> QED  BY <2>3, SommePositive
  <2>5. QED  BY <2>2, <2>4
<1>3. ASSUME NEW T \in SUBSET S, T \in F, NEW x \in S \ T
      PROVE  T \cup {x} \in F
  <2> DEFINE b == g[x]
             R == T \cup {x}
  <2>1. b \in B /\ R \in SUBSET S  OBVIOUS
  <2>2. \A c \in B \ {b} : G(R)[c] = G(T)[c]
    <3>1. \A c \in B \ {b} : {y \in R : g[y] = c} = {y \in T : g[y] = c}  OBVIOUS
    <3>2. QED  BY <3>1
  <2>3. G(R)[b] = v[x] + G(T)[b]
    <3> DEFINE U == {y \in T : g[y] = b}
    <3>1. {y \in R : g[y] = b} = U \cup {x} /\ x \notin U  OBVIOUS
    <3>2. IsFiniteSet(U) /\ \A y \in U \cup {x} : v[y] \in Int  BY FS_Subset
    <3>3. SommeSur(v, U \cup {x}) = v[x] + SommeSur(v, U)
      <4> HIDE DEF U
      <4> QED  BY <3>1, <3>2, SommeAjoute
    <3>4. QED  BY <2>1, <3>1, <3>3
  <2>4. /\ SommeSur(G(R), B) = G(R)[b] + SommeSur(G(R), B \ {b})
        /\ SommeSur(G(T), B) = G(T)[b] + SommeSur(G(T), B \ {b})
    <3> HIDE DEF G, b, R
    <3> QED  BY <1>1, <2>1, SommeInsere
  <2>5. SommeSur(G(R), B \ {b}) = SommeSur(G(T), B \ {b})
    <3> HIDE DEF G, b, R
    <3>1. IsFiniteSet(B \ {b})  BY FS_Subset
    <3>2. \A c \in B \ {b} : G(R)[c] \in Int /\ G(R)[c] = G(T)[c]
      BY <1>1, <2>1, <2>2
    <3>3. QED  BY <3>1, <3>2, SommeEgale
  <2>6. SommeSur(v, R) = v[x] + SommeSur(v, T)
    <3>1. IsFiniteSet(T) /\ x \notin T /\ \A y \in T \cup {x} : v[y] \in Int  BY FS_Subset
    <3>2. QED  BY <3>1, SommeAjoute
  <2>7. SommeSur(G(T), B \ {b}) \in Int /\ G(T)[b] \in Int /\ v[x] \in Int
    <3> HIDE DEF G, b, R
    <3>1. IsFiniteSet(B \ {b}) /\ \A c \in B \ {b} : G(T)[c] \in Int
      BY <1>1, FS_Subset
    <3>2. QED  BY <1>1, <2>1, <3>1, SommeEntiere
  <2>8. SommeSur(G(T), B) = SommeSur(v, T)  BY <1>3
  <2>9. SommeSur(G(R), B) = SommeSur(v, R)
    <3> HIDE DEF G, b, R
    <3> QED  BY <2>3, <2>4, <2>5, <2>6, <2>7, <2>8
  <2>10. QED  BY <2>1, <2>9
<1>4. S \in F
  <2> HIDE DEF F
  <2> QED  BY <1>2, <1>3, InductionFinie
<1>5. QED  BY <1>4

\* In the order of insertion or not, the sum is the same.
LEMMA SommeSuite ==
  ASSUME NEW w \in Seq(Nat)
  PROVE  Somme(w) = SommeSur(w, 1 .. Len(w))
<1> DEFINE K == {n \in Nat : n <= Len(w) => Cumul(w)[n] = SommeSur(w, 1 .. n)}
<1>1. Len(w) \in Nat /\ Cumule(Cumul(w), w, Len(w)) /\ \A i \in 1 .. Len(w) : w[i] \in Nat
  BY CumulCorrect
<1>2. 0 \in K
  <2>1. 1 .. 0 = {} /\ IsFiniteSet({})  BY FS_EmptySet
  <2>2. SommeSur(w, {}) = 0  BY <2>1, SommeEntiere
  <2>3. Cumul(w)[0] = 0  BY <1>1 DEF Cumule
  <2>4. QED  BY <2>1, <2>2, <2>3
<1>3. ASSUME NEW n \in Nat, n \in K
      PROVE  n + 1 \in K
  <2>1. SUFFICES ASSUME n + 1 <= Len(w)
                 PROVE  Cumul(w)[n + 1] = SommeSur(w, 1 .. (n + 1))
    OBVIOUS
  <2>2. 1 .. (n + 1) = (1 .. n) \cup {n + 1} /\ n + 1 \notin 1 .. n  OBVIOUS
  <2>3. IsFiniteSet(1 .. n)  BY FS_Interval
  <2>4. \A i \in (1 .. n) \cup {n + 1} : w[i] \in Int  BY <1>1, <2>1
  <2>5. SommeSur(w, (1 .. n) \cup {n + 1}) = w[n + 1] + SommeSur(w, 1 .. n)
    BY <2>2, <2>3, <2>4, SommeAjoute
  <2>6. Cumul(w)[n + 1] = Cumul(w)[n] + w[n + 1]
    BY <1>1, <2>1 DEF Cumule
  <2>7. Cumul(w)[n] = SommeSur(w, 1 .. n) /\ SommeSur(w, 1 .. n) \in Int /\ w[n + 1] \in Int
    <3>1. \A i \in 1 .. n : w[i] \in Int  BY <2>4
    <3>2. SommeSur(w, 1 .. n) \in Int  BY <2>3, <3>1, SommeEntiere
    <3>3. QED  BY <1>1, <1>3, <2>1, <3>2
  <2>8. SommeSur(w, (1 .. n) \cup {n + 1}) = SommeSur(w, 1 .. (n + 1))  BY <2>2, Zenon
  <2>9. QED  BY <2>5, <2>6, <2>7, <2>8
<1>4. Nat \subseteq K
  <2> HIDE DEF K
  <2> QED  BY <1>2, <1>3, SetInduction
<1>5. QED  BY <1>1, <1>4 DEF Somme

-----------------------------------------------------------------------------
(* Ledger.                                                                 *)


\* A row weighs its amount, or nothing.
LEMMA PoidsNat ==
  ASSUME NEW row \in Decaissement PROVE Poids(row) \in Nat
<1>1. row.montant \in Nat
  BY DEF Decaissement
<1> QED
  BY <1>1 DEF Poids

\* Every disbursement row weighs a natural number.
LEMMA PoidsLignes ==
  ASSUME NEW rows \in Seq(Decaissement)
  PROVE  \A i \in 1..Len(rows) : Poids(rows[i]) \in Nat
<1>1. \A i \in 1..Len(rows) : rows[i] \in Decaissement
  OBVIOUS
<1> QED
  BY <1>1, PoidsNat

\* The two sums are amounts.
LEMMA SommesNat ==
  ASSUME LedgerTypeOK
  PROVE  /\ \A f \in Financements : Engage(f) \in Nat
         /\ \A e \in Echeances : Paye(e) \in Nat
<1>1. ASSUME NEW f \in Financements PROVE Engage(f) \in Nat
  <2> DEFINE rows == decaissements[f]
             w == [i \in 1..Len(rows) |-> Poids(rows[i])]
  <2>1. rows \in Seq(Decaissement)
    BY DEF LedgerTypeOK
  <2>2. \A i \in 1..Len(rows) : Poids(rows[i]) \in Nat
    BY <2>1, PoidsLignes
  <2>3. w \in Seq(Nat)
    <3> HIDE DEF rows
    <3> QED
      BY <2>1, <2>2
  <2> QED
    BY <2>3, SommeNat DEF Engage, TotalEngage
<1>2. ASSUME NEW e \in Echeances PROVE Paye(e) \in Nat
  BY SommeNat DEF Paye, LedgerTypeOK
<1> QED
  BY <1>1, <1>2

\* A new row adds what it weighs to the total committed.
LEMMA TotalAppend ==
  ASSUME NEW rows \in Seq(Decaissement), NEW row \in Decaissement
  PROVE  TotalEngage(Append(rows, row)) = TotalEngage(rows) + Poids(row)
<1> DEFINE w == [i \in 1..Len(rows) |-> Poids(rows[i])]
           plus == Append(rows, row)
           v == [i \in 1..Len(plus) |-> Poids(plus[i])]
<1>1. Poids(row) \in Nat /\ \A i \in 1..Len(rows) : Poids(rows[i]) \in Nat
  BY PoidsNat, PoidsLignes
<1>2. w \in Seq(Nat) /\ Len(w) = Len(rows)
  BY <1>1
<1>3. Len(plus) = Len(rows) + 1 /\ plus[Len(rows) + 1] = row
      /\ \A i \in 1..Len(rows) : plus[i] = rows[i]
  OBVIOUS
<1>4. v = Append(w, Poids(row))
  <2>1. v \in Seq(Nat) /\ Len(v) = Len(rows) + 1
    <3> HIDE DEF plus
    <3>1. \A i \in 1..Len(plus) : Poids(plus[i]) \in Nat
      BY <1>1, <1>3
    <3>2. Len(rows) \in Nat
      OBVIOUS
    <3> QED
      BY <1>3, <3>1, <3>2
  <2>2. Append(w, Poids(row)) \in Seq(Nat)
        /\ Len(Append(w, Poids(row))) = Len(rows) + 1
    BY <1>1, <1>2
  <2>3. ASSUME NEW i \in 1..(Len(rows) + 1)
        PROVE  v[i] = Append(w, Poids(row))[i]
    <3>1. CASE i = Len(rows) + 1
      BY <3>1, <1>2, <1>3
    <3>2. CASE i \in 1..Len(rows)
      BY <3>2, <1>2, <1>3
    <3> QED
      BY <3>1, <3>2
  <2> HIDE DEF v, w
  <2> QED
    BY <2>1, <2>2, <2>3
<1>5. Somme(v) = Somme(w) + Poids(row)
  <2> HIDE DEF v, w
  <2> QED
    BY <1>1, <1>2, <1>4, SommeAppend
<1> QED
  BY <1>5 DEF TotalEngage

\* The total looks at nothing but the weights of the rows.
LEMMA TotalMemePoids ==
  ASSUME NEW rows, NEW rows2, Len(rows2) = Len(rows),
         \A i \in 1..Len(rows) : Poids(rows2[i]) = Poids(rows[i])
  PROVE  TotalEngage(rows2) = TotalEngage(rows)
BY DEF TotalEngage
-----------------------------------------------------------------------------
(* Types.                                                                  *)

\* Inserting a disbursement row keeps the table well typed.
LEMMA AjouterType ==
  ASSUME LedgerTypeOK, NEW f \in Financements, NEW m \in Montants,
         NEW u \in Utilisateurs, NEW s \in {"PREVU", "EFFECTUE"},
         AjouterDecaissement(f, m, u, s)
  PROVE  LedgerTypeOK'
<1> DEFINE row == [montant |-> m, statut |-> s,
                   createdBy |-> u, executedBy |-> Personne]
<1>1. row \in Decaissement
  BY LedgerAssumption DEF Decaissement
<1>2. Append(decaissements[f], row) \in Seq(Decaissement)
  <2> HIDE DEF row
  <2> QED
    BY <1>1 DEF LedgerTypeOK
<1>3. decaissements' = [decaissements EXCEPT ![f] = Append(@, row)]
      /\ remboursements' = remboursements
  BY DEF AjouterDecaissement
<1> HIDE DEF row
<1> QED
  BY <1>2, <1>3 DEF LedgerTypeOK

\* Executing a row keeps the table well typed and changes that row only.
LEMMA ExecuterType ==
  ASSUME LedgerTypeOK, NEW f \in Financements, NEW u \in Utilisateurs,
         NEW n \in 1..Len(decaissements[f]), Executer(f, n, u)
  PROVE  /\ LedgerTypeOK'
         /\ Len(decaissements'[f]) = Len(decaissements[f])
         /\ \A i \in 1..Len(decaissements[f]) :
              decaissements'[f][i] =
                IF i = n THEN [decaissements[f][n] EXCEPT !.statut = "EFFECTUE",
                                                          !.executedBy = u]
                         ELSE decaissements[f][i]
<1> DEFINE rows == decaissements[f]
           row == [rows[n] EXCEPT !.statut = "EFFECTUE", !.executedBy = u]
           rows2 == [rows EXCEPT ![n] = row]
<1>1. rows \in Seq(Decaissement) /\ rows[n] \in Decaissement
  BY DEF LedgerTypeOK
<1>2. row \in Decaissement
  BY <1>1 DEF Decaissement
<1>3. decaissements' = [decaissements EXCEPT ![f] = rows2]
      /\ remboursements' = remboursements
  BY DEF Executer
<1>4. rows2 \in Seq(Decaissement) /\ Len(rows2) = Len(rows)
      /\ \A i \in 1..Len(rows) : rows2[i] = IF i = n THEN row ELSE rows[i]
  <2> HIDE DEF row
  <2> QED
    BY <1>1, <1>2
<1>5. decaissements'[f] = rows2
  BY <1>3 DEF LedgerTypeOK
<1>6. LedgerTypeOK'
  <2> HIDE DEF rows2
  <2> QED
    BY <1>3, <1>4 DEF LedgerTypeOK
<1> QED
  BY <1>4, <1>5, <1>6

\* One operation of the ledger, in one of three shapes.
LEMMA LedgerNextCas ==
  ASSUME LedgerNext
  PROVE  \/ \E f \in Financements, u \in Utilisateurs, m \in Montants,
               s \in {"PREVU", "EFFECTUE"} : AjouterDecaissement(f, m, u, s)
         \/ \E f \in Financements, u \in Utilisateurs :
               \E n \in 1..Len(decaissements[f]) : Executer(f, n, u)
         \/ \E e \in Echeances, m \in Montants : Rembourser(e, m)
BY DEF LedgerNext, Planifier, Declarer

\* The initial tables are well typed.
LEMMA LedgerTypeInit == LedgerInit => LedgerTypeOK
<1> SUFFICES ASSUME LedgerInit PROVE LedgerTypeOK
  OBVIOUS
<1>1. ASSUME NEW f \in Financements PROVE Reprises(f) \subseteq Seq(Decaissement)
  <2>1. ASSUME NEW m \in Montants
        PROVE  [montant |-> m, statut |-> "PREVU",
                createdBy |-> Personne, executedBy |-> Personne] \in Decaissement
    BY LedgerAssumption DEF Decaissement
  <2>2. ASSUME NEW x \in Reprises(f) PROVE x \in Seq(Decaissement)
    <3>1. CASE x = <<>>
      BY <3>1
    <3>2. ASSUME NEW d \in Decaissement, x = <<d>> PROVE x \in Seq(Decaissement)
      BY <3>2
    <3> QED
      BY <2>1, <3>1, <3>2 DEF Reprises
  <2> QED
    BY <2>2
<1>2. decaissements \in [Financements -> Seq(Decaissement)]
  BY <1>1 DEF LedgerInit
<1>3. remboursements \in [Echeances -> Seq(Nat)]
  BY DEF LedgerInit
<1> QED
  BY <1>2, <1>3 DEF LedgerTypeOK

\* Every operation of the ledger keeps its tables well typed.
LEMMA LedgerTypeStep == LedgerTypeOK /\ [LedgerNext]_ledgerVars => LedgerTypeOK'
<1> SUFFICES ASSUME LedgerTypeOK, [LedgerNext]_ledgerVars PROVE LedgerTypeOK'
  OBVIOUS
<1>1. CASE UNCHANGED ledgerVars
  BY <1>1 DEF ledgerVars, LedgerTypeOK
<1>2. ASSUME NEW e \in Echeances, NEW m \in Montants, Rembourser(e, m)
      PROVE  LedgerTypeOK'
  BY <1>2, LedgerAssumption DEF LedgerTypeOK, Rembourser
<1> QED
  BY <1>1, <1>2, LedgerNextCas, AjouterType, ExecuterType

\* The tables keep their types.
THEOREM LedgerTypeCorrect == LedgerSpec => []LedgerTypeOK
<1> QED
  BY LedgerTypeInit, LedgerTypeStep, PTL DEF LedgerSpec

-----------------------------------------------------------------------------
(* Ceilings.                                                               *)

Plafonds == PlafondRespecte /\ EcheanceNonSurpayee

\* The two ceilings hold of the tables a run starts from.
LEMMA PlafondsInit == LedgerInit => Plafonds
<1> SUFFICES ASSUME LedgerInit PROVE Plafonds
  OBVIOUS
<1>1. ASSUME NEW f \in Financements PROVE Engage(f) <= MontantAccorde[f]
  <2>1. decaissements[f] \in Reprises(f) /\ MontantAccorde[f] \in Nat
    BY LedgerAssumption DEF LedgerInit
  <2>2. CASE decaissements[f] = <<>>
    <3>1. [i \in 1..Len(<<>>) |-> Poids(<<>>[i])] = <<>>
      OBVIOUS
    <3>2. TotalEngage(<<>>) = 0
      BY <3>1, SommeVide DEF TotalEngage
    <3> QED
      BY <2>1, <2>2, <3>2 DEF Engage
  <2>3. ASSUME NEW m \in Montants, m <= MontantAccorde[f],
               decaissements[f] = <<[montant |-> m, statut |-> "PREVU",
                 createdBy |-> Personne, executedBy |-> Personne]>>
        PROVE  Engage(f) <= MontantAccorde[f]
    <3>1. m \in Nat /\ <<>> \in Seq(Nat) /\ <<m>> = Append(<<>>, m)
      BY LedgerAssumption
    <3>2. Somme(Append(<<>>, m)) = 0 + m
      BY <3>1, SommeAppend, SommeVide
    <3>3. [i \in 1..Len(decaissements[f]) |-> Poids(decaissements[f][i])] = <<m>>
      BY <2>3 DEF Poids
    <3> QED
      BY <2>3, <3>1, <3>2, <3>3 DEF Engage, TotalEngage
  <2> QED
    BY <2>1, <2>2, <2>3 DEF Reprises
<1>2. ASSUME NEW e \in Echeances PROVE Paye(e) <= MontantTotalDu[e]
  <2>1. remboursements[e] = <<>> /\ MontantTotalDu[e] \in Nat
    BY LedgerAssumption DEF LedgerInit
  <2> QED
    BY <2>1, SommeVide DEF Paye
<1> QED
  BY <1>1, <1>2 DEF Plafonds, PlafondRespecte, EcheanceNonSurpayee

\* What each operation does to the two sums.
LEMMA AjouterEngage ==
  ASSUME LedgerTypeOK, NEW f \in Financements, NEW m \in Montants,
         NEW u \in Utilisateurs, NEW s \in {"PREVU", "EFFECTUE"},
         AjouterDecaissement(f, m, u, s)
  PROVE  /\ Engage(f)' = Engage(f) + m
         /\ \A g \in Financements : g # f => Engage(g)' = Engage(g)
         /\ \A e \in Echeances : Paye(e)' = Paye(e)
<1> DEFINE row == [montant |-> m, statut |-> s,
                   createdBy |-> u, executedBy |-> Personne]
<1>1. row \in Decaissement
  BY LedgerAssumption DEF Decaissement
<1>2. Poids(row) = m
  BY DEF Poids
<1>3. decaissements' = [decaissements EXCEPT ![f] = Append(@, row)]
      /\ remboursements' = remboursements
  BY DEF AjouterDecaissement
<1> HIDE DEF row
<1>4. decaissements'[f] = Append(decaissements[f], row)
      /\ \A g \in Financements : g # f => decaissements'[g] = decaissements[g]
  BY <1>3 DEF LedgerTypeOK
<1>5. TotalEngage(decaissements'[f]) = TotalEngage(decaissements[f]) + m
  BY <1>1, <1>2, <1>4, TotalAppend DEF LedgerTypeOK
<1> QED
  BY <1>3, <1>4, <1>5 DEF Engage, Paye

\* Executing a planned tranche commits nothing more: EFFECTUE weighs what
\* PREVU did, and the repayments are untouched.
LEMMA ExecuterEngage ==
  ASSUME LedgerTypeOK, NEW f \in Financements, NEW u \in Utilisateurs,
         NEW n \in 1..Len(decaissements[f]), Executer(f, n, u)
  PROVE  /\ \A g \in Financements : Engage(g)' = Engage(g)
         /\ \A e \in Echeances : Paye(e)' = Paye(e)
<1> DEFINE row == [decaissements[f][n] EXCEPT !.statut = "EFFECTUE",
                                              !.executedBy = u]
<1>1. /\ Len(decaissements'[f]) = Len(decaissements[f])
      /\ \A i \in 1..Len(decaissements[f]) :
           decaissements'[f][i] = IF i = n THEN row ELSE decaissements[f][i]
  BY ExecuterType
<1>2. decaissements[f][n] \in Decaissement /\ decaissements[f][n].statut = "PREVU"
  BY DEF LedgerTypeOK, Executer
<1>3. row.statut = "EFFECTUE" /\ row.montant = decaissements[f][n].montant
  BY <1>2 DEF Decaissement
<1>4. Poids(row) = Poids(decaissements[f][n])
  BY <1>2, <1>3 DEF Poids
<1> HIDE DEF row
<1>5. \A i \in 1..Len(decaissements[f]) :
        Poids(decaissements'[f][i]) = Poids(decaissements[f][i])
  BY <1>1, <1>4
<1>6. TotalEngage(decaissements'[f]) = TotalEngage(decaissements[f])
  BY <1>1, <1>5, TotalMemePoids
<1>7. remboursements' = remboursements
      /\ \A g \in Financements : g # f => decaissements'[g] = decaissements[g]
  BY DEF Executer, LedgerTypeOK
<1> QED
  BY <1>6, <1>7 DEF Engage, Paye

\* A repayment of m adds m to what its instalment received, and to no other.
LEMMA RembourserPaye ==
  ASSUME LedgerTypeOK, NEW e \in Echeances, NEW m \in Montants, Rembourser(e, m)
  PROVE  /\ Paye(e)' = Paye(e) + m
         /\ \A x \in Echeances : x # e => Paye(x)' = Paye(x)
         /\ \A g \in Financements : Engage(g)' = Engage(g)
<1>1. m \in Nat /\ remboursements[e] \in Seq(Nat)
  BY LedgerAssumption DEF LedgerTypeOK
<1>2. remboursements'[e] = Append(remboursements[e], m)
      /\ decaissements' = decaissements
      /\ \A x \in Echeances : x # e => remboursements'[x] = remboursements[x]
  BY DEF Rembourser, LedgerTypeOK
<1>3. Somme(remboursements'[e]) = Somme(remboursements[e]) + m
  BY <1>1, <1>2, SommeAppend
<1> QED
  BY <1>2, <1>3 DEF Engage, Paye

\* The ceilings are inductive over the operations of the ledger.
LEMMA PlafondsStep ==
  LedgerTypeOK /\ Plafonds /\ [LedgerNext]_ledgerVars => Plafonds'
<1> SUFFICES ASSUME LedgerTypeOK, Plafonds, [LedgerNext]_ledgerVars PROVE Plafonds'
  OBVIOUS
<1> USE DEF Plafonds, PlafondRespecte, EcheanceNonSurpayee
<1>1. CASE UNCHANGED ledgerVars
  BY <1>1 DEF ledgerVars, Engage, Paye
<1>2. ASSUME NEW f \in Financements, NEW m \in Montants, NEW u \in Utilisateurs,
             NEW s \in {"PREVU", "EFFECTUE"}, AjouterDecaissement(f, m, u, s)
      PROVE  Plafonds'
  <2>1. Engage(f) + m <= MontantAccorde[f]
    BY <1>2 DEF AjouterDecaissement
  <2> QED
    BY <1>2, <2>1, AjouterEngage
<1>3. ASSUME NEW f \in Financements, NEW u \in Utilisateurs,
             NEW n \in 1..Len(decaissements[f]), Executer(f, n, u)
      PROVE  Plafonds'
  BY <1>3, ExecuterEngage
<1>4. ASSUME NEW e \in Echeances, NEW m \in Montants, Rembourser(e, m)
      PROVE  Plafonds'
  <2>1. Paye(e) + m <= MontantTotalDu[e]
    BY <1>4 DEF Rembourser
  <2> QED
    BY <1>4, <2>1, RembourserPaye
<1> QED
  BY <1>1, <1>2, <1>3, <1>4, LedgerNextCas

\* The tranches not cancelled stay within the amount granted, and what an
\* instalment collects stays within what it is due.
THEOREM PlafondsCorrect == LedgerSpec => [](PlafondRespecte /\ EcheanceNonSurpayee)
<1>1. Plafonds => PlafondRespecte /\ EcheanceNonSurpayee
  BY DEF Plafonds
<1> QED
  BY <1>1, PlafondsInit, PlafondsStep, LedgerTypeCorrect, PTL DEF LedgerSpec

-----------------------------------------------------------------------------
(* Steps.                                                                  *)

\* An appended row leaves the others where they are.
LEMMA AjouterLignes ==
  ASSUME LedgerTypeOK, NEW f \in Financements, NEW m \in Montants,
         NEW u \in Utilisateurs, NEW s \in {"PREVU", "EFFECTUE"},
         AjouterDecaissement(f, m, u, s)
  PROVE  /\ remboursements' = remboursements
         /\ \A g \in Financements :
              /\ Len(decaissements[g]) <= Len(decaissements'[g])
              /\ \A n \in 1..Len(decaissements[g]) :
                   decaissements'[g][n] = decaissements[g][n]
<1> DEFINE row == [montant |-> m, statut |-> s,
                   createdBy |-> u, executedBy |-> Personne]
<1>1. decaissements' = [decaissements EXCEPT ![f] = Append(@, row)]
      /\ remboursements' = remboursements
  BY DEF AjouterDecaissement
<1> HIDE DEF row
<1>2. decaissements'[f] = Append(decaissements[f], row)
      /\ \A g \in Financements : g # f => decaissements'[g] = decaissements[g]
  BY <1>1 DEF LedgerTypeOK
<1>3. \A g \in Financements : decaissements[g] \in Seq(Decaissement)
  BY DEF LedgerTypeOK
<1>4. Len(decaissements[f]) <= Len(decaissements'[f])
      /\ \A n \in 1..Len(decaissements[f]) :
           decaissements'[f][n] = decaissements[f][n]
  BY <1>2, <1>3
<1> QED
  BY <1>1, <1>2, <1>3, <1>4

\* No operation of the ledger executes a tranche by the user who planned it.
LEMMA EtapeQuatreYeux == LedgerTypeOK /\ [LedgerNext]_ledgerVars => [QuatreYeux]_ledgerVars
<1> SUFFICES ASSUME LedgerTypeOK, LedgerNext PROVE QuatreYeux
  OBVIOUS
<1>1. ASSUME NEW f \in Financements, NEW m \in Montants, NEW u \in Utilisateurs,
             NEW s \in {"PREVU", "EFFECTUE"}, AjouterDecaissement(f, m, u, s)
      PROVE  QuatreYeux
  BY <1>1, AjouterLignes DEF QuatreYeux
<1>2. ASSUME NEW f \in Financements, NEW u \in Utilisateurs,
             NEW n \in 1..Len(decaissements[f]), Executer(f, n, u)
      PROVE  QuatreYeux
  <2> DEFINE row == [decaissements[f][n] EXCEPT !.statut = "EFFECTUE",
                                                !.executedBy = u]
  <2>0. /\ Len(decaissements'[f]) = Len(decaissements[f])
        /\ \A i \in 1..Len(decaissements[f]) :
             decaissements'[f][i] = IF i = n THEN row ELSE decaissements[f][i]
    BY <1>2, ExecuterType
  <2>1. \A g \in Financements : g # f => decaissements'[g] = decaissements[g]
    BY <1>2 DEF Executer, LedgerTypeOK
  <2>2. u \in Direction /\ decaissements[f][n].createdBy # u
    BY <1>2 DEF Executer
  <2>3. decaissements[f][n] \in Decaissement
    BY DEF LedgerTypeOK
  <2>4. decaissements'[f][n].statut = "EFFECTUE" /\ decaissements'[f][n].executedBy = u
    BY <2>0, <2>3 DEF Decaissement
  <2>5. \A i \in 1..Len(decaissements[f]) :
          i # n => decaissements'[f][i] = decaissements[f][i]
    BY <2>0
  <2> QED
    BY <2>1, <2>2, <2>4, <2>5 DEF QuatreYeux
<1>3. ASSUME NEW e \in Echeances, NEW m \in Montants, Rembourser(e, m)
      PROVE  QuatreYeux
  BY <1>3 DEF Rembourser, QuatreYeux
<1> QED
  BY <1>1, <1>2, <1>3, LedgerNextCas

\* A planned tranche becomes effective only by the hand of another user.
THEOREM MakerCheckerCorrect == LedgerSpec => MakerChecker
<1> QED
  BY LedgerTypeCorrect, EtapeQuatreYeux, PTL DEF LedgerSpec, MakerChecker

\* No operation of the ledger removes or rewrites a row of money.
LEMMA EtapeConserve == LedgerTypeOK /\ [LedgerNext]_ledgerVars => [Conserve]_ledgerVars
<1> SUFFICES ASSUME LedgerTypeOK, LedgerNext PROVE Conserve
  OBVIOUS
<1>1. ASSUME NEW f \in Financements, NEW m \in Montants, NEW u \in Utilisateurs,
             NEW s \in {"PREVU", "EFFECTUE"}, AjouterDecaissement(f, m, u, s)
      PROVE  Conserve
  <2>1. \A e \in Echeances : Len(remboursements[e]) \in Nat
    BY DEF LedgerTypeOK
  <2> QED
    BY <1>1, <2>1, AjouterLignes DEF Conserve
<1>2. ASSUME NEW f \in Financements, NEW u \in Utilisateurs,
             NEW n \in 1..Len(decaissements[f]), Executer(f, n, u)
      PROVE  Conserve
  <2> DEFINE row == [decaissements[f][n] EXCEPT !.statut = "EFFECTUE",
                                                !.executedBy = u]
  <2>0. /\ Len(decaissements'[f]) = Len(decaissements[f])
        /\ \A i \in 1..Len(decaissements[f]) :
             decaissements'[f][i] = IF i = n THEN row ELSE decaissements[f][i]
    BY <1>2, ExecuterType
  <2>1. remboursements' = remboursements
        /\ \A g \in Financements : g # f => decaissements'[g] = decaissements[g]
    BY <1>2 DEF Executer, LedgerTypeOK
  <2>2. decaissements[f][n] \in Decaissement /\ decaissements[f][n].statut = "PREVU"
    BY <1>2 DEF LedgerTypeOK, Executer
  <2>3. decaissements'[f][n].montant = decaissements[f][n].montant
        /\ decaissements'[f][n].createdBy = decaissements[f][n].createdBy
    BY <2>0, <2>2 DEF Decaissement
  <2>4. Len(decaissements'[f]) = Len(decaissements[f])
        /\ \A i \in 1..Len(decaissements[f]) :
             i # n => decaissements'[f][i] = decaissements[f][i]
    BY <2>0
  <2>5. /\ \A g \in Financements : Len(decaissements[g]) \in Nat
        /\ \A e \in Echeances : Len(remboursements[e]) \in Nat
    BY DEF LedgerTypeOK
  <2> QED
    BY <2>1, <2>2, <2>3, <2>4, <2>5 DEF Conserve
<1>3. ASSUME NEW e \in Echeances, NEW m \in Montants, Rembourser(e, m)
      PROVE  Conserve
  <2>1. m \in Nat
    BY LedgerAssumption
  <2>2. decaissements' = decaissements
        /\ remboursements'[e] = Append(remboursements[e], m)
        /\ \A x \in Echeances : x # e => remboursements'[x] = remboursements[x]
    BY <1>3 DEF Rembourser, LedgerTypeOK
  <2>3. /\ \A x \in Echeances : remboursements[x] \in Seq(Nat)
        /\ \A g \in Financements : Len(decaissements[g]) \in Nat
    BY DEF LedgerTypeOK
  <2>4. Len(remboursements[e]) <= Len(remboursements'[e])
        /\ \A n \in 1..Len(remboursements[e]) :
             remboursements'[e][n] = remboursements[e][n]
    BY <2>1, <2>2, <2>3
  <2>5. \A x \in Echeances : /\ Len(remboursements[x]) <= Len(remboursements'[x])
                             /\ \A n \in 1..Len(remboursements[x]) :
                                  remboursements'[x][n] = remboursements[x][n]
    <3>1. SUFFICES ASSUME NEW x \in Echeances
                   PROVE  /\ Len(remboursements[x]) <= Len(remboursements'[x])
                          /\ \A n \in 1..Len(remboursements[x]) :
                               remboursements'[x][n] = remboursements[x][n]
      OBVIOUS
    <3>2. CASE x = e
      BY <2>4, <3>2
    <3>3. CASE x # e
      <4>1. remboursements'[x] = remboursements[x]
        BY <2>2, <3>3
      <4>2. Len(remboursements[x]) \in Nat
        BY <2>3
      <4> QED
        BY <4>1, <4>2
    <3> QED
      BY <3>2, <3>3
  <2>6. \A f \in Financements : decaissements'[f] = decaissements[f]
                               /\ Len(decaissements[f]) \in Nat
    BY <2>2, <2>3
  <2> QED
    BY <2>5, <2>6 DEF Conserve
<1> QED
  BY <1>1, <1>2, <1>3, LedgerNextCas

\* No row is removed, renumbered or rewritten.
THEOREM HistoriqueCorrect == LedgerSpec => HistoriqueConserve
<1> QED
  BY LedgerTypeCorrect, EtapeConserve, PTL DEF LedgerSpec, HistoriqueConserve

------------------------------------------------------------------------------
(* The concurrent handlers.                                                  *)


Ops == {"planDisbursement", "declareDisbursement", "executeDisbursement",
        "createRepayment", "declareRepayment"}

\* What a call carries, by kind.
LEMMA DemandeType ==
  ASSUME TypeOK, NEW r \in Requetes
  PROVE  /\ requete[r].op \in Ops
         /\ requete[r].f \in Financements
         /\ requete[r].op # "executeDisbursement"
              => requete[r].montant \in Montants /\ requete[r].montant \in Nat
         /\ requete[r].op \in {"planDisbursement", "executeDisbursement"}
              => requete[r].user \in Direction
         /\ requete[r].op = "declareDisbursement" => requete[r].user \in Partenaires
         /\ Repayment(r) => requete[r].e \in Echeances
         /\ requete[r].op = "executeDisbursement" => requete[r].n \in Nat \ {0}
<1>1. requete[r] \in Demandes
  BY DEF TypeOK
<1>2. Montants \subseteq Nat /\ Numeros \subseteq Nat \ {0}
  BY LedgerAssumption, FinancingsAssumption
<1> QED
  BY <1>1, <1>2 DEF Demandes, Ops, Repayment

\* The kinds are exclusive.
LEMMA Genres ==
  ASSUME TypeOK, NEW r \in Requetes
  PROVE  /\ Disbursement(r) <=> requete[r].op \in {"planDisbursement", "declareDisbursement"}
         /\ Repayment(r) <=> requete[r].op \in {"createRepayment", "declareRepayment"}
         /\ Disbursement(r) \/ Repayment(r) \/ requete[r].op = "executeDisbursement"
BY DemandeType DEF Disbursement, Repayment, Ops

-----------------------------------------------------------------------------
(* Commits.                                                                *)

\* A disbursement committed, an execution committed, a repayment committed:
\* the three ways a call changes the ledger, as the ledger's own operations.
LEMMA InsertEstAjouter ==
  ASSUME TypeOK, InstantaneAJour, NEW r \in Requetes, InsertDisbursement(r)
  PROVE  AjouterDecaissement(requete[r].f, requete[r].montant, requete[r].user,
                             IF Partner(r) THEN "EFFECTUE" ELSE "PREVU")
<1>1. pc[r] = "write" /\ Disbursement(r) /\ requete[r].op # "executeDisbursement"
  BY DEF InsertDisbursement, Disbursement
<1>2. Cumul0(r) + requete[r].montant <= Plafond(r)
  BY <1>1 DEF InstantaneAJour
<1>3. Engage(requete[r].f) + requete[r].montant <= MontantAccorde[requete[r].f]
  BY <1>1, <1>2 DEF Cumul0, Plafond
<1> QED
  BY <1>3 DEF InsertDisbursement, AjouterDecaissement

\* The INSERT of a repayment is one Rembourser of the ledger: what was read
\* (snapshot) is still the truth, because the instalment is locked.
LEMMA InsertEstRembourser ==
  ASSUME TypeOK, InstantaneAJour, NEW r \in Requetes, InsertRepayment(r)
  PROVE  Rembourser(requete[r].e, requete[r].montant)
<1>1. pc[r] = "write" /\ ~ Disbursement(r) /\ requete[r].op # "executeDisbursement"
  BY DEF InsertRepayment, Disbursement, Repayment
<1>2. Cumul0(r) + requete[r].montant <= Plafond(r)
  BY <1>1 DEF InstantaneAJour
<1> QED
  BY <1>1, <1>2 DEF Cumul0, Plafond, InsertRepayment, Rembourser

\* The UPDATE of an execution is one Executer of the ledger: the row it read
\* is still PREVU, and its maker is still another user.
LEMMA UpdateEstExecuter ==
  ASSUME TypeOK, InstantaneAJour, NEW r \in Requetes, UpdateDisbursement(r)
  PROVE  /\ requete[r].n \in 1..Len(decaissements[requete[r].f])
         /\ Executer(requete[r].f, requete[r].n, requete[r].user)
<1>1. pc[r] = "write" /\ requete[r].op = "executeDisbursement"
  BY DEF UpdateDisbursement
<1>2. /\ requete[r].n <= Len(decaissements[requete[r].f])
      /\ decaissements[requete[r].f][requete[r].n].statut = "PREVU"
  BY <1>1 DEF InstantaneAJour
<1>3. requete[r].n \in Nat \ {0} /\ requete[r].user \in Direction
      /\ requete[r].f \in Financements
  BY <1>1, DemandeType
<1>4. Len(decaissements[requete[r].f]) \in Nat
  BY <1>3 DEF TypeOK, LedgerTypeOK
<1>5. requete[r].n \in 1..Len(decaissements[requete[r].f])
  BY <1>2, <1>3, <1>4
<1> QED
  BY <1>2, <1>3, <1>5 DEF UpdateDisbursement, Executer

-----------------------------------------------------------------------------
(* Steps.                                                                  *)

\* The steps of one call.
Etape(r) == Handler(r) \/ Rollback(r)

\* A step of one call, by the action it takes.
LEMMA EtapeCas ==
  ASSUME NEW r \in Requetes, Etape(r)
  PROVE  \/ ServiceCheck(r) \/ LockFinancing(r) \/ LockInstallment(r)
         \/ Sum(r) \/ InsertDisbursement(r) \/ InsertRepayment(r)
         \/ LockDisbursement(r) \/ UpdateDisbursement(r) \/ Rollback(r)
BY DEF Etape, Handler, DeadlockVictim

\* A step of one call leaves what the others ask, read and wait for alone.
LEMMA EtapeCadre ==
  ASSUME TypeOK, NEW r \in Requetes, Etape(r)
  PROVE  /\ requete' = requete
         /\ pc' \in [Requetes -> {"received"} \cup InTransaction \cup Terminal]
         /\ lu' \in [Requetes -> [total: Nat, numero: Nat]]
         /\ \A q \in Requetes : q # r => pc'[q] = pc[q] /\ lu'[q] = lu[q]
<1> USE DEF TypeOK, InTransaction, Terminal
<1>1. CASE ServiceCheck(r)
  BY <1>1 DEF ServiceCheck, FirstLock
<1>2. CASE LockFinancing(r)
  BY <1>2 DEF LockFinancing
<1>3. CASE LockInstallment(r)
  BY <1>3 DEF LockInstallment
<1>4. CASE Sum(r)
  <2>1. Cumul0(r) \in Nat
    <3>1. (Disbursement(r) \/ Repayment(r)) /\ requete[r].f \in Financements
      BY <1>4, DemandeType DEF Sum, Parcours
    <3>2. CASE Disbursement(r)
      BY <3>1, <3>2, SommesNat DEF Cumul0
    <3>3. CASE Repayment(r)
      BY <3>3, DemandeType, SommesNat DEF Cumul0, Disbursement, Repayment
    <3> QED
      BY <3>1, <3>2, <3>3
  <2>2. Len(decaissements[requete[r].f]) \in Nat
    BY DemandeType DEF LedgerTypeOK
  <2> QED
    BY <1>4, <2>1, <2>2 DEF Sum
<1>5. CASE InsertDisbursement(r)
  BY <1>5 DEF InsertDisbursement
<1>6. CASE InsertRepayment(r)
  BY <1>6 DEF InsertRepayment
<1>7. CASE LockDisbursement(r)
  BY <1>7 DEF LockDisbursement
<1>8. CASE UpdateDisbursement(r)
  BY <1>8 DEF UpdateDisbursement
<1>9. CASE Rollback(r)
  BY <1>9 DEF Rollback
<1> QED
  BY <1>1, <1>2, <1>3, <1>4, <1>5, <1>6, <1>7, <1>8, <1>9, EtapeCas

\* A call goes from one of its own statements to the next.
LEMMA EtapeParcours ==
  ASSUME TypeOK, NEW r \in Requetes, Etape(r)
  PROVE  \A q \in Requetes : Parcours(q)'
<1> USE DEF Parcours, Disbursement, Repayment, Partner, DansPerimetre
<1>1. requete' = requete /\ \A q \in Requetes : q # r => pc'[q] = pc[q]
  BY EtapeCadre
<1>2. \A q \in Requetes : Parcours(q)
  BY DEF TypeOK
<1>3. pc \in [Requetes -> {"received"} \cup InTransaction \cup Terminal]
      /\ requete[r].op \in Ops
  BY DemandeType DEF TypeOK
<1>4. CASE ServiceCheck(r)
  BY <1>1, <1>2, <1>3, <1>4 DEF ServiceCheck, FirstLock, Ops
<1>5. CASE LockFinancing(r)
  BY <1>1, <1>2, <1>3, <1>5 DEF LockFinancing, Ops
<1>6. CASE LockInstallment(r)
  BY <1>1, <1>2, <1>3, <1>6 DEF LockInstallment
<1>7. CASE Sum(r)
  BY <1>1, <1>2, <1>3, <1>7 DEF Sum
<1>8. CASE InsertDisbursement(r)
  BY <1>1, <1>2, <1>3, <1>8 DEF InsertDisbursement
<1>9. CASE InsertRepayment(r)
  BY <1>1, <1>2, <1>3, <1>9 DEF InsertRepayment
<1>10. CASE LockDisbursement(r)
  BY <1>1, <1>2, <1>3, <1>10 DEF LockDisbursement
<1>11. CASE UpdateDisbursement(r)
  BY <1>1, <1>2, <1>3, <1>11 DEF UpdateDisbursement
<1>12. CASE Rollback(r)
  BY <1>1, <1>2, <1>3, <1>12 DEF Rollback
<1> QED
  BY <1>4, <1>5, <1>6, <1>7, <1>8, <1>9, <1>10, <1>11, <1>12, EtapeCas

-----------------------------------------------------------------------------
(* Locks.                                                                  *)

\* A step keeps the locks the call has, drops some, or takes the one it was
\* waiting for once no other call holds it.
LEMMA PriseDeVerrou ==
  ASSUME TypeOK, NEW r \in Requetes, Etape(r)
  PROVE  \/ Verrous(r)' \subseteq Verrous(r)
         \/ Libre(r) /\ Verrous(r)' \subseteq Verrous(r) \cup Demande(r)
<1> USE DEF Verrous, VerrouFinancement, VerrouEcheance, VerrouDecaissement
<1>1. requete' = requete /\ requete[r].op \in Ops
  BY EtapeCadre, DemandeType
<1>2. pc \in [Requetes -> {"received"} \cup InTransaction \cup Terminal] /\ Parcours(r)
  BY DEF TypeOK
<1>3. CASE ServiceCheck(r)
  <2>1. \/ pc'[r] \in {"lockFinancing", "lockDisbursement", "refused"}
        \/ pc'[r] = "lockInstallment" /\ requete[r].op = "createRepayment"
    BY <1>2, <1>3 DEF ServiceCheck, FirstLock
  <2> QED
    BY <1>1, <2>1 DEF Disbursement
<1>4. CASE LockFinancing(r)
  <2>1. pc[r] = "lockFinancing" /\ Libre(r)
        /\ Demande(r) = {VerrouFinancement(r)}
    BY <1>4 DEF LockFinancing, Demande
  <2>2. \/ pc'[r] = "refused"
        \/ pc'[r] = "sum" /\ Disbursement(r)
        \/ pc'[r] = "lockInstallment" /\ requete[r].op = "declareRepayment"
    BY <1>2, <1>4 DEF LockFinancing, Parcours
  <2> QED
    BY <1>1, <2>1, <2>2 DEF Disbursement
<1>5. CASE LockInstallment(r)
  <2>1. pc[r] = "lockInstallment" /\ Libre(r) /\ Repayment(r)
        /\ Demande(r) = {VerrouEcheance(r)}
    BY <1>2, <1>5 DEF LockInstallment, Demande, Parcours
  <2>2. pc'[r] \in {"refused", "sum"}
    BY <1>2, <1>5 DEF LockInstallment
  <2> QED
    BY <1>1, <2>1, <2>2 DEF Disbursement, Repayment
<1>6. CASE Sum(r)
  <2>1. pc[r] = "sum" /\ pc'[r] \in {"write", "refused"}
        /\ requete[r].op # "executeDisbursement"
    BY <1>2, <1>6 DEF Sum, Parcours, Disbursement, Repayment
  <2> QED
    BY <1>1, <2>1 DEF Disbursement
<1>7. CASE LockDisbursement(r)
  <2>1. pc[r] = "lockDisbursement" /\ Libre(r)
        /\ requete[r].op = "executeDisbursement"
        /\ Demande(r) = {VerrouDecaissement(r)}
    BY <1>2, <1>7 DEF LockDisbursement, Demande, Parcours
  <2>2. pc'[r] \in {"write", "refused"}
    BY <1>2, <1>7 DEF LockDisbursement
  <2> QED
    BY <1>1, <2>1, <2>2 DEF Disbursement
<1>8. CASE InsertDisbursement(r) \/ InsertRepayment(r) \/ UpdateDisbursement(r)
           \/ Rollback(r)
  <2>1. pc'[r] \in {"done", "failed"}
    BY <1>2, <1>8 DEF InsertDisbursement, InsertRepayment, UpdateDisbursement, Rollback
  <2> QED
    BY <1>1, <2>1 DEF Disbursement
<1> QED
  BY <1>3, <1>4, <1>5, <1>6, <1>7, <1>8, EtapeCas

\* No two calls hold the same row.
LEMMA EtapeExclusion ==
  ASSUME TypeOK, ExclusionMutuelle, NEW r \in Requetes, Etape(r)
  PROVE  ExclusionMutuelle'
<1>1. ASSUME NEW q \in Requetes, q # r PROVE Verrous(q)' = Verrous(q)
  <2>1. requete' = requete /\ pc'[q] = pc[q]
    BY <1>1, EtapeCadre
  <2> QED
    BY <2>1 DEF Verrous, VerrouFinancement, VerrouEcheance, VerrouDecaissement,
                Disbursement
<1>2. ASSUME NEW q \in Requetes, q # r PROVE Verrous(r)' \cap Verrous(q)' = {}
  <2>1. Verrous(r) \cap Verrous(q) = {}
    BY <1>2 DEF ExclusionMutuelle
  <2>2. CASE Verrous(r)' \subseteq Verrous(r)
    BY <1>1, <1>2, <2>1, <2>2
  <2>3. CASE Libre(r) /\ Verrous(r)' \subseteq Verrous(r) \cup Demande(r)
    <3>1. Demande(r) \cap Verrous(q) = {}
      BY <1>2, <2>3 DEF Libre, Attend
    <3> QED
      BY <1>1, <1>2, <2>1, <2>3, <3>1
  <2> QED
    BY <2>2, <2>3, PriseDeVerrou
<1> QED
  BY <1>1, <1>2 DEF ExclusionMutuelle

-----------------------------------------------------------------------------
(* What was read under the lock stays true.                                *)

\* InstantaneAJour for one call.
AJour(r) ==
  pc[r] = "write" =>
    IF requete[r].op = "executeDisbursement"
    THEN /\ requete[r].n <= Len(decaissements[requete[r].f])
         /\ decaissements[requete[r].f][requete[r].n].statut = "PREVU"
         /\ decaissements[requete[r].f][requete[r].n].createdBy # requete[r].user
    ELSE /\ lu[r].total = Cumul0(r)
         /\ Cumul0(r) + requete[r].montant <= Plafond(r)
         /\ Disbursement(r) => lu[r].numero = Len(decaissements[requete[r].f]) + 1

\* InstantaneAJour, restated per request for the case splits below.
LEMMA AJourTous == InstantaneAJour <=> \A r \in Requetes : AJour(r)
BY DEF InstantaneAJour, AJour

\* A call that reaches its write has just read what it relies on.
LEMMA AJourLecteur ==
  ASSUME TypeOK, NEW r \in Requetes, Etape(r)
  PROVE  AJour(r)'
<1>1. pc \in [Requetes -> {"received"} \cup InTransaction \cup Terminal]
      /\ lu \in [Requetes -> [total: Nat, numero: Nat]]
      /\ Parcours(r) /\ requete' = requete
  BY EtapeCadre DEF TypeOK
<1>2. CASE Sum(r)
  <2>1. UNCHANGED <<decaissements, remboursements>>
    BY <1>2 DEF Sum, ledgerVars
  <2>2. Cumul0(r)' = Cumul0(r) /\ Plafond(r)' = Plafond(r)
        /\ Disbursement(r)' = Disbursement(r)
    BY <1>1, <2>1 DEF Cumul0, Plafond, Disbursement, Engage, Paye
  <2>3. lu'[r].total = Cumul0(r)
        /\ (Disbursement(r) => lu'[r].numero = Len(decaissements[requete[r].f]) + 1)
    BY <1>1, <1>2 DEF Sum
  <2>4. pc'[r] = "write" => Cumul0(r) + requete[r].montant <= Plafond(r)
    BY <1>1, <1>2 DEF Sum
  <2>5. requete[r].op # "executeDisbursement"
    BY <1>1, <1>2 DEF Sum, Parcours, Disbursement, Repayment
  <2> QED
    BY <1>1, <2>1, <2>2, <2>3, <2>4, <2>5 DEF AJour
<1>3. CASE LockDisbursement(r)
  <2>1. UNCHANGED <<decaissements, remboursements>>
        /\ requete[r].op = "executeDisbursement"
    BY <1>1, <1>3 DEF LockDisbursement, ledgerVars, Parcours
  <2>2. pc'[r] = "write" =>
          /\ requete[r].n <= Len(decaissements[requete[r].f])
          /\ decaissements[requete[r].f][requete[r].n].statut = "PREVU"
          /\ decaissements[requete[r].f][requete[r].n].createdBy # requete[r].user
    BY <1>1, <1>3 DEF LockDisbursement
  <2> QED
    BY <1>1, <2>1, <2>2 DEF AJour
<1>4. ASSUME ~ Sum(r), ~ LockDisbursement(r)
      PROVE  pc'[r] # "write"
  <2>1. CASE ServiceCheck(r)
    BY <1>1, <2>1 DEF ServiceCheck, FirstLock
  <2>2. CASE LockFinancing(r) \/ LockInstallment(r)
    BY <1>1, <2>2 DEF LockFinancing, LockInstallment
  <2>3. CASE InsertDisbursement(r) \/ InsertRepayment(r) \/ UpdateDisbursement(r)
             \/ Rollback(r)
    BY <1>1, <2>3 DEF InsertDisbursement, InsertRepayment, UpdateDisbursement, Rollback
  <2> QED
    BY <1>4, <2>1, <2>2, <2>3, EtapeCas
<1> QED
  BY <1>2, <1>3, <1>4 DEF AJour

\* The rows a writer owns, by kind.
LEMMA VerrousEcriture ==
  ASSUME TypeOK, NEW r \in Requetes, pc[r] = "write"
  PROVE  /\ Disbursement(r) => VerrouFinancement(r) \in Verrous(r)
         /\ Repayment(r) => VerrouEcheance(r) \in Verrous(r)
         /\ requete[r].op = "executeDisbursement" => VerrouDecaissement(r) \in Verrous(r)
BY DEF Verrous, Disbursement, Repayment

\* No other call changes what a writer relies on.
LEMMA AJourAutres ==
  ASSUME TypeOK, ExclusionMutuelle, InstantaneAJour,
         NEW r \in Requetes, Etape(r), NEW q \in Requetes, q # r
  PROVE  AJour(q)'
<1>1. SUFFICES ASSUME pc[q] = "write" PROVE AJour(q)'
  BY EtapeCadre DEF AJour
<1>2. requete' = requete /\ pc'[q] = pc[q] /\ lu'[q] = lu[q]
  BY EtapeCadre
<1>3. AJour(q)
  BY AJourTous
<1>4. LedgerTypeOK /\ requete[q].f \in Financements /\ requete[r].f \in Financements
  BY DemandeType DEF TypeOK
<1>5. Verrous(r) \cap Verrous(q) = {}
  BY DEF ExclusionMutuelle
<1>6. Disbursement(q)' = Disbursement(q) /\ Plafond(q)' = Plafond(q)
  BY <1>2 DEF Disbursement, Plafond
<1>7. CASE UNCHANGED <<decaissements, remboursements>>
  <2>1. Cumul0(q)' = Cumul0(q)
    BY <1>2, <1>7 DEF Cumul0, Disbursement, Engage, Paye
  <2> QED
    BY <1>2, <1>3, <1>6, <1>7, <2>1 DEF AJour
<1>8. CASE InsertDisbursement(r)
  <2> DEFINE f == requete[r].f
             m == requete[r].montant
             u == requete[r].user
             s == IF Partner(r) THEN "EFFECTUE" ELSE "PREVU"
  <2>1. pc[r] = "write" /\ Disbursement(r) /\ requete[r].op # "executeDisbursement"
    BY <1>8 DEF InsertDisbursement, Disbursement
  <2>2. f \in Financements /\ m \in Montants /\ u \in Utilisateurs
        /\ s \in {"PREVU", "EFFECTUE"}
    BY <2>1, DemandeType DEF Disbursement, Utilisateurs
  <2>3. AjouterDecaissement(f, m, u, s)
    BY <1>8, InsertEstAjouter
  <2> HIDE DEF f, m, u, s
  <2>4. /\ remboursements' = remboursements
        /\ \A g \in Financements :
             \A n \in 1..Len(decaissements[g]) : decaissements'[g][n] = decaissements[g][n]
        /\ \A g \in Financements : Len(decaissements[g]) <= Len(decaissements'[g])
    BY <1>4, <2>2, <2>3, AjouterLignes
  <2>5. \A g \in Financements : g # f => Engage(g)' = Engage(g)
                                         /\ decaissements'[g] = decaissements[g]
    BY <1>4, <2>2, <2>3, AjouterEngage DEF AjouterDecaissement, LedgerTypeOK
  <2>6. CASE requete[q].op = "executeDisbursement"
    <3>1. requete[q].n \in Nat \ {0} /\ requete[q].n <= Len(decaissements[requete[q].f])
      BY <1>1, <1>3, <2>6, DemandeType DEF AJour
    <3>2. Len(decaissements[requete[q].f]) \in Nat
          /\ Len(decaissements'[requete[q].f]) \in Nat
      <4>1. LedgerTypeOK'
        BY <1>4, <2>2, <2>3, AjouterType
      <4> QED
        BY <1>4, <4>1 DEF LedgerTypeOK
    <3>3. decaissements'[requete[q].f][requete[q].n] = decaissements[requete[q].f][requete[q].n]
      BY <1>4, <2>4, <3>1, <3>2
    <3>4. requete[q].n <= Len(decaissements'[requete[q].f])
      BY <1>4, <2>4, <3>1, <3>2
    <3> QED
      BY <1>1, <1>2, <1>3, <2>6, <3>3, <3>4 DEF AJour
  <2>7. CASE Disbursement(q)
    <3>1. requete[q].f # f
      BY <1>1, <1>5, <2>1, <2>7, VerrousEcriture DEF f, VerrouFinancement
    <3>2. Cumul0(q)' = Cumul0(q) /\ decaissements'[requete[q].f] = decaissements[requete[q].f]
      BY <1>2, <1>4, <1>6, <2>5, <2>7, <3>1 DEF Cumul0
    <3> QED
      BY <1>2, <1>3, <1>6, <2>7, <3>2 DEF AJour, Disbursement
  <2>8. CASE Repayment(q)
    <3>1. ~ Disbursement(q) /\ requete[q].op # "executeDisbursement"
      BY <2>8 DEF Disbursement, Repayment
    <3>2. Cumul0(q)' = Cumul0(q)
      BY <1>2, <1>6, <2>4, <3>1 DEF Cumul0, Paye
    <3> QED
      BY <1>2, <1>3, <1>6, <3>1, <3>2 DEF AJour
  <2> QED
    BY <2>6, <2>7, <2>8, Genres
<1>9. CASE InsertRepayment(r)
  <2>1. pc[r] = "write" /\ Repayment(r) /\ requete[r].op # "executeDisbursement"
    BY <1>9 DEF InsertRepayment, Repayment
  <2>2. requete[r].e \in Echeances /\ requete[r].montant \in Montants
    BY <2>1, DemandeType
  <2>3. Rembourser(requete[r].e, requete[r].montant)
    BY <1>9, InsertEstRembourser
  <2>4. /\ \A x \in Echeances : x # requete[r].e => Paye(x)' = Paye(x)
        /\ \A g \in Financements : Engage(g)' = Engage(g)
        /\ decaissements' = decaissements
    BY <1>4, <2>2, <2>3, RembourserPaye DEF Rembourser
  <2>5. CASE requete[q].op = "executeDisbursement"
    BY <1>2, <1>3, <2>4, <2>5 DEF AJour
  <2>6. CASE Disbursement(q)
    <3>1. Cumul0(q)' = Cumul0(q)
      BY <1>2, <1>4, <1>6, <2>4, <2>6 DEF Cumul0
    <3> QED
      BY <1>2, <1>3, <1>6, <2>4, <2>6, <3>1 DEF AJour, Disbursement
  <2>7. CASE Repayment(q)
    <3>1. ~ Disbursement(q) /\ requete[q].op # "executeDisbursement"
          /\ requete[q].e \in Echeances
      BY <2>7, DemandeType DEF Disbursement, Repayment
    <3>2. requete[q].e # requete[r].e
      BY <1>1, <1>5, <2>1, <2>7, VerrousEcriture DEF VerrouEcheance
    <3>3. Cumul0(q)' = Cumul0(q)
      BY <1>2, <1>6, <2>4, <3>1, <3>2 DEF Cumul0
    <3> QED
      BY <1>2, <1>3, <1>6, <3>1, <3>3 DEF AJour
  <2> QED
    BY <2>5, <2>6, <2>7, Genres
<1>10. CASE UpdateDisbursement(r)
  <2> DEFINE f == requete[r].f
             n == requete[r].n
             u == requete[r].user
  <2>1. pc[r] = "write" /\ requete[r].op = "executeDisbursement"
    BY <1>10 DEF UpdateDisbursement
  <2>2. f \in Financements /\ u \in Utilisateurs
    BY <2>1, DemandeType DEF Utilisateurs
  <2>3. n \in 1..Len(decaissements[f]) /\ Executer(f, n, u)
    BY <1>10, UpdateEstExecuter
  <2> DEFINE row == [decaissements[f][n] EXCEPT !.statut = "EFFECTUE",
                                                !.executedBy = u]
  <2>4. /\ Len(decaissements'[f]) = Len(decaissements[f])
        /\ \A i \in 1..Len(decaissements[f]) :
             decaissements'[f][i] = IF i = n THEN row ELSE decaissements[f][i]
    <3> HIDE DEF f, n, u
    <3> QED
      BY <1>4, <2>2, <2>3, ExecuterType
  <2>5. /\ \A g \in Financements : Engage(g)' = Engage(g)
        /\ remboursements' = remboursements
    <3> HIDE DEF f, n, u
    <3> QED
      BY <1>4, <2>2, <2>3, ExecuterEngage DEF Executer
  <2>6. \A g \in Financements : g # f => decaissements'[g] = decaissements[g]
    <3> HIDE DEF f, n, u
    <3> QED
      BY <1>4, <2>2, <2>3 DEF Executer, LedgerTypeOK
  <2>7. CASE requete[q].op = "executeDisbursement"
    <3>1. <<requete[q].f, requete[q].n>> # <<f, n>>
      BY <1>1, <1>5, <2>1, <2>7, VerrousEcriture DEF VerrouDecaissement
    <3>2. requete[q].n \in Nat \ {0} /\ requete[q].n <= Len(decaissements[requete[q].f])
      BY <1>1, <1>3, <2>7, DemandeType DEF AJour
    <3>3. Len(decaissements[requete[q].f]) \in Nat
      BY <1>4 DEF LedgerTypeOK
    <3> HIDE DEF f, n, u, row
    <3>4. Len(decaissements'[requete[q].f]) = Len(decaissements[requete[q].f])
          /\ decaissements'[requete[q].f][requete[q].n]
               = decaissements[requete[q].f][requete[q].n]
      <4>1. CASE requete[q].f # f
        BY <1>4, <2>6, <4>1
      <4>2. CASE requete[q].f = f
        BY <2>4, <3>1, <3>2, <3>3, <4>2
      <4> QED
        BY <4>1, <4>2
    <3> QED
      BY <1>1, <1>2, <1>3, <2>7, <3>4 DEF AJour
  <2>8. CASE Disbursement(q)
    <3> HIDE DEF f, n, u, row
    <3>1. Cumul0(q)' = Cumul0(q)
      BY <1>2, <1>4, <1>6, <2>5, <2>8 DEF Cumul0
    <3>2. Len(decaissements'[requete[q].f]) = Len(decaissements[requete[q].f])
      BY <1>4, <2>4, <2>6
    <3> QED
      BY <1>2, <1>3, <1>6, <2>8, <3>1, <3>2 DEF AJour, Disbursement
  <2>9. CASE Repayment(q)
    <3>1. ~ Disbursement(q) /\ requete[q].op # "executeDisbursement"
      BY <2>9 DEF Disbursement, Repayment
    <3>2. Cumul0(q)' = Cumul0(q)
      BY <1>2, <1>6, <2>5, <3>1 DEF Cumul0, Paye
    <3> QED
      BY <1>2, <1>3, <1>6, <3>1, <3>2 DEF AJour
  <2> QED
    BY <2>7, <2>8, <2>9, Genres
<1>11. ASSUME ~ InsertDisbursement(r), ~ InsertRepayment(r), ~ UpdateDisbursement(r)
       PROVE  UNCHANGED <<decaissements, remboursements>>
  BY <1>11, EtapeCas DEF ServiceCheck, LockFinancing, LockInstallment, Sum,
                         LockDisbursement, Rollback, ledgerVars
<1> QED
  BY <1>7, <1>8, <1>9, <1>10, <1>11

-----------------------------------------------------------------------------
(* The inductive invariant and the refinement.                             *)

IInv == TypeOK /\ ExclusionMutuelle /\ InstantaneAJour

\* No request runs and nothing is locked: the invariant holds at the start.
LEMMA InvInit == Init => IInv
<1> SUFFICES ASSUME Init PROVE IInv
  OBVIOUS
<1> USE DEF Init
<1>1. TypeOK
  BY LedgerTypeInit DEF TypeOK, Parcours
<1>2. \A r \in Requetes : Verrous(r) = {}
  BY DEF Verrous
<1>3. ExclusionMutuelle
  BY <1>2 DEF ExclusionMutuelle
<1>4. InstantaneAJour
  BY DEF InstantaneAJour
<1> QED
  BY <1>1, <1>3, <1>4 DEF IInv

\* One statement of one call is one operation of the ledger, or none.
LEMMA EtapeLedger ==
  ASSUME IInv, NEW r \in Requetes, Etape(r)
  PROVE  [LedgerNext]_ledgerVars
<1> USE DEF IInv
<1>1. CASE InsertDisbursement(r)
  <2> DEFINE f == requete[r].f
             m == requete[r].montant
             u == requete[r].user
  <2>1. Disbursement(r) /\ requete[r].op # "executeDisbursement"
        /\ pc[r] = "write"
    BY <1>1 DEF InsertDisbursement, Disbursement
  <2>2. f \in Financements /\ m \in Montants /\ u \in Utilisateurs
    BY <2>1, DemandeType DEF Disbursement, Utilisateurs
  <2>3. AjouterDecaissement(f, m, u, IF Partner(r) THEN "EFFECTUE" ELSE "PREVU")
    BY <1>1, InsertEstAjouter
  <2>4. CASE ~ Partner(r)
    <3>1. u \in Direction
      BY <2>1, <2>4, DemandeType DEF Disbursement, Partner
    <3>2. Planifier(f, u, m)
      BY <2>3, <2>4, <3>1 DEF Planifier
    <3> QED
      BY <2>2, <3>2 DEF LedgerNext
  <2>5. CASE Partner(r)
    <3>1. <<u, f>> \in Perimetre
      BY <2>1, <2>5 DEF TypeOK, Parcours, DansPerimetre
    <3>2. Declarer(f, u, m)
      BY <2>3, <2>5, <3>1 DEF Declarer
    <3> QED
      BY <2>2, <3>2 DEF LedgerNext
  <2> QED
    BY <2>4, <2>5
<1>2. CASE InsertRepayment(r)
  <2>1. Repayment(r) /\ requete[r].op # "executeDisbursement"
    BY <1>2 DEF InsertRepayment, Repayment
  <2>2. requete[r].e \in Echeances /\ requete[r].montant \in Montants
    BY <2>1, DemandeType
  <2>3. Rembourser(requete[r].e, requete[r].montant)
    BY <1>2, InsertEstRembourser
  <2> QED
    BY <2>2, <2>3 DEF LedgerNext
<1>3. CASE UpdateDisbursement(r)
  <2>1. requete[r].op = "executeDisbursement"
    BY <1>3 DEF UpdateDisbursement
  <2>2. requete[r].f \in Financements /\ requete[r].user \in Utilisateurs
    BY <2>1, DemandeType DEF Utilisateurs
  <2>3. /\ requete[r].n \in 1..Len(decaissements[requete[r].f])
        /\ Executer(requete[r].f, requete[r].n, requete[r].user)
    BY <1>3, UpdateEstExecuter
  <2> QED
    BY <2>2, <2>3 DEF LedgerNext
<1>4. ASSUME ~ InsertDisbursement(r), ~ InsertRepayment(r), ~ UpdateDisbursement(r)
      PROVE  UNCHANGED ledgerVars
  BY <1>4, EtapeCas DEF ServiceCheck, LockFinancing, LockInstallment, Sum,
                        LockDisbursement, Rollback, ledgerVars
<1> QED
  BY <1>1, <1>2, <1>3, <1>4

\* One step of one request keeps the types.
LEMMA EtapeType ==
  ASSUME IInv, NEW r \in Requetes, Etape(r)
  PROVE  TypeOK'
<1> USE DEF IInv
<1>1. LedgerTypeOK'
  BY EtapeLedger, LedgerTypeStep DEF TypeOK
<1>2. statutEcheance' \in [Echeances -> {"A_VENIR", "PARTIELLEMENT_PAYEE", "PAYEE"}]
  <2>1. CASE InsertRepayment(r)
    BY <2>1 DEF InsertRepayment, TypeOK
  <2>2. CASE ~ InsertRepayment(r)
    BY <2>2, EtapeCas DEF ServiceCheck, LockFinancing, LockInstallment, Sum,
       InsertDisbursement, LockDisbursement, UpdateDisbursement, Rollback, TypeOK
  <2> QED
    BY <2>1, <2>2
<1> QED
  BY <1>1, <1>2, EtapeCadre, EtapeParcours DEF TypeOK

\* The invariant is inductive: one case per statement of a handler.
LEMMA InvStep == IInv /\ [Next]_vars => IInv'
<1> SUFFICES ASSUME IInv, [Next]_vars PROVE IInv'
  OBVIOUS
<1>1. ASSUME NEW r \in Requetes, Etape(r) PROVE IInv'
  <2> USE DEF IInv
  <2>1. \A q \in Requetes : AJour(q)'
    BY <1>1, AJourLecteur, AJourAutres
  <2>2. InstantaneAJour'
    BY <2>1 DEF InstantaneAJour, AJour
  <2> QED
    BY <1>1, <2>2, EtapeType, EtapeExclusion
<1>2. CASE UNCHANGED vars
  BY <1>2 DEF vars, IInv, TypeOK, LedgerTypeOK, Parcours, ExclusionMutuelle,
     InstantaneAJour, Verrous, VerrouFinancement, VerrouEcheance,
     VerrouDecaissement, Disbursement, Repayment, Partner, DansPerimetre, Cumul0,
     Plafond, Engage, Paye
<1> QED
  BY <1>1, <1>2 DEF Next, Etape, Finished

\* Types, mutual exclusion of the row locks, and the truth under a lock of what
\* was read there, for any set of concurrent calls.
THEOREM VerrousCorrects == Spec => [](TypeOK /\ ExclusionMutuelle /\ InstantaneAJour)
<1>1. IInv => TypeOK /\ ExclusionMutuelle /\ InstantaneAJour
  BY DEF IInv
<1> QED
  BY <1>1, InvInit, InvStep, PTL DEF Spec

\* The concurrent handlers of both portals implement the ledger.
THEOREM ImplementeLedger == Spec => LedgerSpec
<1>1. Init => LedgerInit
  BY DEF Init
<1>2. IInv /\ [Next]_vars => [LedgerNext]_ledgerVars
  <2>1. SUFFICES ASSUME IInv, [Next]_vars PROVE [LedgerNext]_ledgerVars
    OBVIOUS
  <2>2. CASE UNCHANGED vars
    BY <2>2 DEF vars, ledgerVars
  <2>3. ASSUME NEW r \in Requetes, Etape(r) PROVE [LedgerNext]_ledgerVars
    BY <2>1, <2>3, EtapeLedger
  <2> QED
    BY <2>1, <2>2, <2>3 DEF Next, Etape, Finished
<1> QED
  BY <1>1, <1>2, InvInit, InvStep, PTL DEF Spec, LedgerSpec

\* No interleaving of planDisbursement, createDisbursement and createRepayment
\* commits more than was granted or collects more than is due.
THEOREM PlafondsRespectes == Spec => [](PlafondRespecte /\ EcheanceNonSurpayee)
<1> QED
  BY ImplementeLedger, PlafondsCorrect, PTL

\* A planned tranche is executed by another user, whatever else runs.
THEOREM QuatreYeuxRespectes == Spec => MakerChecker
<1> QED
  BY ImplementeLedger, MakerCheckerCorrect, PTL

\* No handler rewrites history.
THEOREM HistoriqueRespecte == Spec => HistoriqueConserve
<1> QED
  BY ImplementeLedger, HistoriqueCorrect, PTL

-----------------------------------------------------------------------------
(* The status of an instalment.                                            *)

\* An instalment nobody paid has its initial status.
LEMMA StatutInit == Init => StatutSuitPaiements
BY DEF Init, LedgerInit, StatutSuitPaiements

\* The status of an instalment keeps following its payments: the handler that
\* writes one writes the other in the same transaction.
LEMMA EtapeStatut ==
  ASSUME IInv, StatutSuitPaiements, NEW r \in Requetes, Etape(r)
  PROVE  StatutSuitPaiements'
<1> USE DEF IInv
<1>1. CASE InsertRepayment(r)
  <2>1. /\ Repayment(r) /\ ~ Disbursement(r) /\ pc[r] = "write"
        /\ requete[r].op # "executeDisbursement"
    BY <1>1 DEF InsertRepayment, Repayment, Disbursement
  <2>2. PICK e \in Echeances, m \in Montants : e = requete[r].e /\ m = requete[r].montant
    BY <2>1, DemandeType
  <2>3. Rembourser(e, m) /\ m \in Nat
    BY <1>1, <2>2, InsertEstRembourser, LedgerAssumption
  <2>4. Paye(e)' = Paye(e) + m /\ \A x \in Echeances : x # e => Paye(x)' = Paye(x)
    BY <2>2, <2>3, RembourserPaye DEF TypeOK
  <2>5. lu[r].total = Paye(e) /\ Paye(e) + m <= MontantTotalDu[e]
    BY <2>1, <2>2 DEF InstantaneAJour, Cumul0, Plafond
  <2>6. Paye(e) \in Nat /\ MontantTotalDu[e] \in Nat
    BY <2>2, SommesNat, LedgerAssumption DEF TypeOK
  <2>7. statutEcheance' = [statutEcheance EXCEPT ![e] =
                            IF Solde(r) THEN "PAYEE" ELSE "PARTIELLEMENT_PAYEE"]
        /\ remboursements' = [remboursements EXCEPT ![e] = Append(@, m)]
    BY <1>1, <2>2 DEF InsertRepayment
  <2>8. Solde(r) => Paye(e)' = MontantTotalDu[e]
    <3>1. Solde(r) => lu[r].total + m >= MontantTotalDu[e]
      BY <2>2 DEF Solde
    <3> QED
      BY <2>2, <2>3, <2>4, <2>5, <2>6, <3>1
  <2>9. remboursements'[e] # <<>> /\ statutEcheance'[e] # "A_VENIR"
        /\ (statutEcheance'[e] = "PAYEE" => Paye(e)' = MontantTotalDu[e])
    <3>1. remboursements[e] \in Seq(Nat) /\ remboursements'[e] = Append(remboursements[e], m)
      BY <2>7 DEF TypeOK, LedgerTypeOK
    <3>2. remboursements'[e] # <<>>
      <4> DEFINE w == remboursements[e]
      <4>1. w \in Seq(Nat) => Len(Append(w, m)) = Len(w) + 1 /\ Len(w) \in Nat
        BY <2>3
      <4>2. Len(<<>>) = 0
        OBVIOUS
      <4> HIDE DEF w
      <4>3. w \in Seq(Nat) => Append(w, m) # <<>>
        BY <4>1, <4>2
      <4> QED
        BY <3>1, <4>3 DEF w
    <3>3. statutEcheance'[e] = IF Solde(r) THEN "PAYEE" ELSE "PARTIELLEMENT_PAYEE"
      BY <2>7 DEF TypeOK
    <3> QED
      BY <2>8, <3>2, <3>3
  <2>10. \A x \in Echeances : x # e =>
           statutEcheance'[x] = statutEcheance[x] /\ remboursements'[x] = remboursements[x]
    BY <2>7 DEF TypeOK, LedgerTypeOK
  <2> QED
    BY <2>2, <2>4, <2>9, <2>10 DEF StatutSuitPaiements
<1>2. CASE ~ InsertRepayment(r)
  <2>1. statutEcheance' = statutEcheance /\ remboursements' = remboursements
    BY <1>2, EtapeCas DEF ServiceCheck, LockFinancing, LockInstallment, Sum,
       InsertDisbursement, LockDisbursement, UpdateDisbursement, Rollback, ledgerVars
  <2> QED
    BY <2>1 DEF StatutSuitPaiements, Paye
<1> QED
  BY <1>1, <1>2

\* An instalment is to come exactly while nothing is paid on it, and is never
\* marked settled before it is, whatever the doubles lose.
THEOREM StatutCorrect == Spec => []StatutSuitPaiements
<1>1. IInv /\ StatutSuitPaiements /\ [Next]_vars => StatutSuitPaiements'
  <2>1. SUFFICES ASSUME IInv, StatutSuitPaiements, [Next]_vars
                 PROVE  StatutSuitPaiements'
    OBVIOUS
  <2>2. CASE UNCHANGED vars
    BY <2>1, <2>2 DEF vars, StatutSuitPaiements, Paye
  <2>3. ASSUME NEW r \in Requetes, Etape(r) PROVE StatutSuitPaiements'
    BY <2>1, <2>3, EtapeStatut
  <2> QED
    BY <2>1, <2>2, <2>3 DEF Next, Etape, Finished
<1> QED
  BY <1>1, StatutInit, InvInit, InvStep, PTL DEF Spec

-----------------------------------------------------------------------------
(* Portefeuille.                                                           *)

\* Total adds up a column given as a function.
LEMMA TotalDe ==
  ASSUME NEW S, IsFiniteSet(S), NEW v, NEW w, w = [x \in S |-> v[x]], \A x \in S : v[x] \in Int
  PROVE  Total(w) = SommeSur(v, S)
<1>1. DOMAIN w = S /\ \A x \in S : w[x] \in Int /\ w[x] = v[x]  OBVIOUS
<1>2. SommeSur(w, S) = SommeSur(v, S)  BY <1>1, SommeEgale
<1>3. QED  BY <1>1, <1>2 DEF Total

\* Every column the portfolio adds up is one of amounts.
LEMMA Colonnes ==
  ASSUME TypeOK, NEW f \in Financements
  PROVE  /\ IsFiniteSet(EcheancesDe(f)) /\ EcheancesDe(f) \subseteq Echeances
         /\ \A e \in Echeances : MontantTotalDu[e] \in Nat /\ Paye(e) \in Nat
         /\ MontantAccorde[f] \in Nat
<1>1. EcheancesDe(f) \subseteq Echeances  BY DEF EcheancesDe
<1>2. LedgerTypeOK  BY DEF TypeOK
<1>3. QED
  BY <1>1, <1>2, SommesNat, PortefeuilleAssumption, LedgerAssumption, FS_Subset

\* What is due, paid and late, as numbers.
LEMMA Nombres ==
  ASSUME TypeOK, NEW f \in Financements, NEW passees \in SUBSET Echeances
  PROVE  /\ MontantDu(f, passees) \in Nat
         /\ MontantRembourse(f) \in Nat
         /\ Impaye(f, passees) \in Nat
<1>1. IsFiniteSet(EcheancesDe(f)) /\ IsFiniteSet(EcheancesDe(f) \cap passees)
  BY Colonnes, FS_Subset
<1>2. MontantDu(f, passees) \in Nat
  <2> DEFINE P == EcheancesDe(f) \cap passees
  <2>1. IsFiniteSet(P) /\ \A e \in P : MontantTotalDu[e] \in Nat  BY <1>1, Colonnes
  <2>2. SommeSur(MontantTotalDu, P) \in Nat
    <3> HIDE DEF P
    <3> QED  BY <2>1, SommePositive
  <2>3. QED  BY <2>2 DEF MontantDu
<1>3. MontantRembourse(f) \in Nat
  <2> DEFINE S == EcheancesDe(f)
             w == [e \in S |-> Paye(e)]
  <2>1. IsFiniteSet(S) /\ DOMAIN w = S /\ \A e \in S : w[e] \in Nat  BY <1>1, Colonnes
  <2>2. SommeSur(w, S) \in Nat
    <3> HIDE DEF w, S
    <3> QED  BY <2>1, SommePositive
  <2>3. QED  BY <2>1, <2>2 DEF MontantRembourse, Total
<1>4. QED  BY <1>2, <1>3 DEF Impaye, Reste

\* What the financing collects, on past instalments and on later ones.
LEMMA RembourseEnDeux ==
  ASSUME TypeOK, EcheanceNonSurpayee, NEW f \in Financements, NEW passees \in SUBSET Echeances
  PROVE  \E pris \in Nat, avance \in Nat, du \in Nat :
           /\ MontantDu(f, passees) = du
           /\ MontantRembourse(f) = pris + avance
           /\ RetardReel(f, passees) = du - pris
           /\ pris <= du
           /\ avance > 0 => \E e \in EcheancesDe(f) \ passees : Paye(e) > 0
           /\ du - pris > 0 => \E e \in EcheancesDe(f) \cap passees : Paye(e) < MontantTotalDu[e]
<1> DEFINE S == EcheancesDe(f)
           P == S \cap passees
           Q == S \ passees
           paye == [e \in S |-> Paye(e)]
           manque == [e \in P |-> MontantTotalDu[e] - Paye(e)]
<1>1. /\ IsFiniteSet(S) /\ IsFiniteSet(P) /\ IsFiniteSet(Q)
      /\ P \cup Q = S /\ P \cap Q = {}
      /\ \A e \in S : MontantTotalDu[e] \in Nat /\ paye[e] \in Nat /\ paye[e] = Paye(e)
      /\ \A e \in S : paye[e] <= MontantTotalDu[e]
      /\ \A e \in P : manque[e] = MontantTotalDu[e] - paye[e]
      /\ DOMAIN paye = S /\ DOMAIN manque = P
  <2>1. IsFiniteSet(S) /\ S \subseteq Echeances
        /\ \A e \in S : MontantTotalDu[e] \in Nat /\ Paye(e) \in Nat
    BY Colonnes
  <2>2. IsFiniteSet(P) /\ IsFiniteSet(Q)  BY <2>1, FS_Subset
  <2>3. \A e \in S : Paye(e) <= MontantTotalDu[e]
    BY <2>1 DEF EcheanceNonSurpayee
  <2> HIDE DEF S
  <2>4. QED  BY <2>1, <2>2, <2>3
<1>2. /\ MontantDu(f, passees) = SommeSur(MontantTotalDu, P)
      /\ MontantRembourse(f) = SommeSur(paye, S)
      /\ RetardReel(f, passees) = SommeSur(manque, P)
  BY <1>1 DEF MontantDu, MontantRembourse, RetardReel, Total
<1>3. /\ Q \subseteq S /\ P \subseteq S
      /\ Q = EcheancesDe(f) \ passees /\ P = EcheancesDe(f) \cap passees
  OBVIOUS
<1> HIDE DEF S, P, Q, paye, manque
<1>4. SommeSur(paye, S) = SommeSur(paye, P) + SommeSur(paye, Q)
  <2>1. \A e \in P \cup Q : paye[e] \in Int  BY <1>1
  <2>2. SommeSur(paye, P \cup Q) = SommeSur(paye, P) + SommeSur(paye, Q)
    BY <1>1, <2>1, SommeDisjointe
  <2>3. SommeSur(paye, P \cup Q) = SommeSur(paye, S)  BY <1>1, Zenon
  <2>4. QED  BY <2>2, <2>3
<1>5. \A e \in P : MontantTotalDu[e] \in Nat /\ paye[e] \in Nat /\ manque[e] \in Nat
                   /\ MontantTotalDu[e] = paye[e] + manque[e]
  BY <1>1, <1>3
<1>6. SommeSur(MontantTotalDu, P) = SommeSur(paye, P) + SommeSur(manque, P)
  <2>1. \A e \in P : paye[e] \in Int /\ manque[e] \in Int
                     /\ MontantTotalDu[e] = paye[e] + manque[e]
    BY <1>5
  <2>2. QED  BY <1>1, <2>1, SommePlus
<1>7. /\ SommeSur(paye, P) \in Nat /\ SommeSur(manque, P) \in Nat
      /\ (\A e \in P : manque[e] = 0) => SommeSur(manque, P) = 0
  BY <1>1, <1>5, SommePositive
<1>8. /\ SommeSur(paye, Q) \in Nat
      /\ (\A e \in Q : paye[e] = 0) => SommeSur(paye, Q) = 0
  <2>1. \A e \in Q : paye[e] \in Nat  BY <1>1, <1>3
  <2>2. QED  BY <1>1, <2>1, SommePositive
<1>9. SommeSur(MontantTotalDu, P) \in Nat  BY <1>6, <1>7
<1>10. SommeSur(paye, Q) > 0 => \E e \in Q : Paye(e) > 0
  <2>1. SUFFICES ASSUME SommeSur(paye, Q) > 0 PROVE \E e \in Q : Paye(e) > 0
    OBVIOUS
  <2>2. PICK e \in Q : paye[e] # 0  BY <1>8, <2>1
  <2>3. e \in S /\ paye[e] \in Nat /\ paye[e] = Paye(e)  BY <1>1, <1>3
  <2>4. QED  BY <2>2, <2>3
<1>11. SommeSur(manque, P) > 0 => \E e \in P : Paye(e) < MontantTotalDu[e]
  <2>1. SUFFICES ASSUME SommeSur(manque, P) > 0 PROVE \E e \in P : Paye(e) < MontantTotalDu[e]
    OBVIOUS
  <2>2. PICK e \in P : manque[e] # 0  BY <1>7, <2>1
  <2>3. e \in S /\ paye[e] = Paye(e)  BY <1>1, <1>3
  <2>4. QED  BY <1>5, <2>2, <2>3
<1> USE <1>7, <1>8, <1>9
<1>12. WITNESS SommeSur(paye, P) \in Nat, SommeSur(paye, Q) \in Nat, SommeSur(MontantTotalDu, P) \in Nat
<1>13. QED  BY <1>2, <1>3, <1>4, <1>6, <1>7, <1>8, <1>9, <1>10, <1>11

\* The arrears of one financing against what its past instalments lack.
ImpayeVrai(f, passees) ==
  /\ Impaye(f, passees) <= RetardReel(f, passees)
  /\ ~ (\E e \in EcheancesDe(f) \ passees : Paye(e) > 0)
       => Impaye(f, passees) = RetardReel(f, passees)
  /\ Impaye(f, passees) > 0
       => \E e \in EcheancesDe(f) \cap passees : LigneEcheance(e).reste > 0

\* It understates nothing: it is what is due less all that was paid.
LEMMA ImpayeParFinancement ==
  ASSUME TypeOK, EcheanceNonSurpayee, NEW f \in Financements, NEW passees \in SUBSET Echeances
  PROVE  ImpayeVrai(f, passees)
<1>1. PICK pris \in Nat, avance \in Nat, du \in Nat :
           /\ MontantDu(f, passees) = du
           /\ MontantRembourse(f) = pris + avance
           /\ RetardReel(f, passees) = du - pris
           /\ pris <= du
           /\ avance > 0 => \E e \in EcheancesDe(f) \ passees : Paye(e) > 0
           /\ du - pris > 0 => \E e \in EcheancesDe(f) \cap passees : Paye(e) < MontantTotalDu[e]
  BY RembourseEnDeux
<1>2. Impaye(f, passees) = IF du > pris + avance THEN du - (pris + avance) ELSE 0
  BY <1>1 DEF Impaye, Reste
<1>3. \A e \in EcheancesDe(f) : Paye(e) < MontantTotalDu[e] => LigneEcheance(e).reste > 0
  <2>1. SUFFICES ASSUME NEW e \in EcheancesDe(f), Paye(e) < MontantTotalDu[e]
                 PROVE  LigneEcheance(e).reste > 0
    OBVIOUS
  <2>2. Paye(e) \in Nat /\ MontantTotalDu[e] \in Nat  BY Colonnes
  <2>3. LigneEcheance(e).reste = Reste(MontantTotalDu[e], Paye(e))  BY DEF LigneEcheance
  <2>4. QED  BY <2>1, <2>2, <2>3 DEF Reste
<1>4. Impaye(f, passees) <= RetardReel(f, passees)  BY <1>1, <1>2
<1>5. ASSUME ~ (\E e \in EcheancesDe(f) \ passees : Paye(e) > 0)
      PROVE  Impaye(f, passees) = RetardReel(f, passees)
  <2>1. ~ (avance > 0)  BY <1>1, <1>5
  <2>2. avance = 0  BY <2>1
  <2>3. QED  BY <1>1, <1>2, <2>2
<1>6. ASSUME Impaye(f, passees) > 0
      PROVE  \E e \in EcheancesDe(f) \cap passees : LigneEcheance(e).reste > 0
  <2>1. du - pris > 0  BY <1>2, <1>6
  <2>2. PICK e \in EcheancesDe(f) \cap passees : Paye(e) < MontantTotalDu[e]  BY <1>1, <2>1
  <2>3. QED  BY <1>3, <2>2
<1>7. QED  BY <1>4, <1>5, <1>6 DEF ImpayeVrai

\* The totals of a column of the view, and its breakdown by bank.
LEMMA TotauxPerformance ==
  ASSUME TypeOK, NEW passees \in SUBSET Echeances
  PROVE  /\ FinancingTotals(passees, "impaye")
              = SommeSur([f \in Financements |-> Impaye(f, passees)], Financements)
         /\ FinancingTotals(passees, "du")
              = SommeSur([f \in Financements |-> MontantDu(f, passees)], Financements)
         /\ FinancingTotals(passees, "rembourse")
              = SommeSur([f \in Financements |-> MontantRembourse(f)], Financements)
<1>1. /\ \A f \in Financements : Performance(f, passees, "impaye") = Impaye(f, passees)
      /\ \A f \in Financements : Performance(f, passees, "du") = MontantDu(f, passees)
      /\ \A f \in Financements : Performance(f, passees, "rembourse") = MontantRembourse(f)
  BY DEF Performance
<1>2. /\ [f \in Financements |-> Performance(f, passees, "impaye")] = [f \in Financements |-> Impaye(f, passees)]
      /\ [f \in Financements |-> Performance(f, passees, "du")] = [f \in Financements |-> MontantDu(f, passees)]
      /\ [f \in Financements |-> Performance(f, passees, "rembourse")] = [f \in Financements |-> MontantRembourse(f)]
  BY <1>1
<1>3. QED  BY <1>2 DEF FinancingTotals, Total

\* The part of a bank.
LEMMA PartDeBanque ==
  ASSUME TypeOK, NEW passees \in SUBSET Echeances, NEW b
  PROVE  BankBreakdown(b, passees, "impaye")
           = SommeSur([f \in Financements |-> Impaye(f, passees)],
                      {f \in Financements : BanqueSuivie(f) = b})
<1> DEFINE S == {x \in Financements : BanqueSuivie(x) = b}
           v == [f \in Financements |-> Impaye(f, passees)]
           w == [f \in S |-> Performance(f, passees, "impaye")]
<1>1. BankBreakdown(b, passees, "impaye") = Total(w)  BY DEF BankBreakdown
<1>2. IsFiniteSet(S) /\ \A f \in S : v[f] \in Int
  BY Nombres, FS_Subset, PortefeuilleAssumption
<1>3. w = [f \in S |-> v[f]]
  BY DEF Performance
<1>4. Total(w) = SommeSur(v, S)
  <2> HIDE DEF S, v, w
  <2> QED  BY <1>2, <1>3, TotalDe
<1>5. QED  BY <1>1, <1>4

\* The alert on overdue instalments adds up what the totals do.
LEMMA MontantEnRetard ==
  ASSUME TypeOK, NEW passees \in SUBSET Echeances
  PROVE  /\ OverdueInstallments(passees).montant = FinancingTotals(passees, "impaye")
         /\ OverdueInstallments(passees).dossiers = {f \in Financements : Impaye(f, passees) > 0}
         /\ OverdueInstallments(passees).montant \in Nat
         /\ OverdueInstallments(passees).montant > 0
              <=> OverdueInstallments(passees).dossiers # {}
<1> DEFINE v == [f \in Financements |-> Impaye(f, passees)]
           T == {f \in Financements : Impaye(f, passees) > 0}
           w == [f \in T |-> Impaye(f, passees)]
<1>1. /\ OverdueInstallments(passees).montant = Total(w)
      /\ OverdueInstallments(passees).dossiers = T
  BY DEF OverdueInstallments
<1>2. /\ IsFiniteSet(Financements) /\ IsFiniteSet(T) /\ T \subseteq Financements
      /\ \A f \in Financements : v[f] \in Nat
      /\ \A f \in Financements : f \in T <=> v[f] > 0
      /\ \A f \in Financements \ T : v[f] = 0
      /\ w = [f \in T |-> v[f]]
      /\ \A f \in T : v[f] \in Int
  BY Nombres, FS_Subset, PortefeuilleAssumption
<1>3. FinancingTotals(passees, "impaye") = SommeSur(v, Financements)  BY TotauxPerformance
<1>0. T = {f \in Financements : Impaye(f, passees) > 0}  OBVIOUS
<1> HIDE DEF v, T, w
<1>4. Total(w) = SommeSur(v, T)  BY <1>2, TotalDe
<1>5. SommeSur(v, Financements) = SommeSur(v, T)  BY <1>2, SommeRestreint
<1>6. /\ SommeSur(v, Financements) \in Nat
      /\ \A f \in Financements : v[f] <= SommeSur(v, Financements)
      /\ (\A f \in Financements : v[f] = 0) => SommeSur(v, Financements) = 0
  BY <1>2, SommePositive
<1>7. SommeSur(v, Financements) > 0 <=> T # {}
  <2>1. ASSUME NEW f \in T PROVE SommeSur(v, Financements) > 0
    <3>1. f \in Financements /\ v[f] > 0 /\ v[f] \in Nat /\ v[f] <= SommeSur(v, Financements)
      BY <1>2, <1>6
    <3>2. QED  BY <1>6, <3>1
  <2>2. ASSUME T = {} PROVE SommeSur(v, Financements) = 0
    <3>1. \A f \in Financements : v[f] = 0  BY <1>2, <2>2
    <3>2. QED  BY <1>6, <3>1
  <2>3. QED  BY <2>1, <2>2
<1>8. QED  BY <1>0, <1>1, <1>3, <1>4, <1>5, <1>6, <1>7

\* Bank by bank: the parts add up to the whole, and the banks the alerts name
\* are those with something late.
RetardParBanque(passees) ==
  /\ OverdueInstallments(passees).montant
       = Total([b \in BanquesSuivies |-> BankBreakdown(b, passees, "impaye")])
  /\ \A b \in BanquesSuivies :
       <<"banque-retard", b>> \in BuildAlerts(passees)
         <=> BankBreakdown(b, passees, "impaye") > 0
  /\ <<"echeances-retard">> \in BuildAlerts(passees)
         <=> OverdueInstallments(passees).dossiers # {}

\* The banks of the portfolio are finitely many.
LEMMA BanquesFinies ==
  /\ IsFiniteSet(BanquesSuivies)
  /\ [f \in Financements |-> BanqueSuivie(f)] \in [Financements -> BanquesSuivies]
<1>1. BanquesSuivies = {BanqueSuivie(f) : f \in Financements}  BY DEF BanquesSuivies
<1>2. IsFiniteSet(BanquesSuivies)
  <2> DEFINE g == [f \in Financements |-> BanqueSuivie(f)]
  <2>1. BanquesSuivies = {g[f] : f \in Financements}  BY <1>1
  <2>2. g \in [Financements -> BanquesSuivies]
        /\ \A b \in BanquesSuivies : \E f \in Financements : g[f] = b  BY <1>1
  <2>3. g \in Surjection(Financements, BanquesSuivies)  BY <2>2 DEF Surjection
  <2>4. QED  BY <2>3, FS_Surjection, PortefeuilleAssumption
<1>3. QED  BY <1>1, <1>2

\* The breakdown and the alerts say the same of each bank.
LEMMA RetardBanques ==
  ASSUME TypeOK, NEW passees \in SUBSET Echeances
  PROVE  RetardParBanque(passees)
<1> DEFINE v == [f \in Financements |-> Impaye(f, passees)]
           g == [f \in Financements |-> BanqueSuivie(f)]
           Part(b) == SommeSur(v, {f \in Financements : g[f] = b})
           G == [b \in BanquesSuivies |-> Part(b)]
           enRetard == {f \in Financements : Impaye(f, passees) > 0}
<1>1. /\ IsFiniteSet(Financements) /\ \A f \in Financements : v[f] \in Nat /\ v[f] \in Int
      /\ IsFiniteSet(BanquesSuivies) /\ g \in [Financements -> BanquesSuivies]
  BY Nombres, BanquesFinies, PortefeuilleAssumption
<1>2. \A b : BankBreakdown(b, passees, "impaye") = Part(b)
  <2>1. \A b : {f \in Financements : BanqueSuivie(f) = b} = {f \in Financements : g[f] = b}
    OBVIOUS
  <2>2. QED  BY <2>1, PartDeBanque
<1>3. Total([b \in BanquesSuivies |-> BankBreakdown(b, passees, "impaye")]) = SommeSur(G, BanquesSuivies)
  <2>1. [b \in BanquesSuivies |-> BankBreakdown(b, passees, "impaye")] = G
    <3> HIDE DEF Part
    <3> QED  BY <1>2
  <2>2. DOMAIN G = BanquesSuivies  OBVIOUS
  <2> HIDE DEF G
  <2>3. QED  BY <2>1, <2>2 DEF Total
<1>4. SommeSur(G, BanquesSuivies) = SommeSur(v, Financements)
  <2> HIDE DEF g, v
  <2>1. QED  BY <1>1, SommeParGroupe
<1>5. OverdueInstallments(passees).montant = SommeSur(v, Financements)
  BY MontantEnRetard, TotauxPerformance
<1>6. \A b : Part(b) > 0 <=> \E f \in enRetard : BanqueSuivie(f) = b
  <2>1. SUFFICES ASSUME NEW b PROVE Part(b) > 0 <=> \E f \in enRetard : BanqueSuivie(f) = b
    OBVIOUS
  <2> DEFINE S == {f \in Financements : g[f] = b}
  <2>2. /\ IsFiniteSet(S) /\ \A f \in S : v[f] \in Nat
        /\ \A f \in S : v[f] > 0 <=> f \in enRetard
        /\ \A f \in enRetard : f \in S <=> BanqueSuivie(f) = b
        /\ \A f \in S : BanqueSuivie(f) = b
        /\ Part(b) = SommeSur(v, S)
    BY <1>1, FS_Subset
  <2> HIDE DEF S, Part, enRetard, v, g
  <2>3. /\ SommeSur(v, S) \in Nat
        /\ \A f \in S : v[f] <= SommeSur(v, S)
        /\ (\A f \in S : v[f] = 0) => SommeSur(v, S) = 0
    BY <2>2, SommePositive
  <2>4. ASSUME NEW f \in enRetard, BanqueSuivie(f) = b PROVE Part(b) > 0
    <3>1. f \in S  BY <2>2, <2>4
    <3>2. v[f] > 0 /\ v[f] \in Nat /\ v[f] <= SommeSur(v, S)  BY <2>2, <2>3, <3>1
    <3>3. QED  BY <2>2, <2>3, <3>2
  <2>5. ASSUME Part(b) > 0 PROVE \E f \in enRetard : BanqueSuivie(f) = b
    <3>1. PICK f \in S : v[f] # 0  BY <2>2, <2>3, <2>5
    <3>2. v[f] > 0  BY <2>2, <3>1
    <3>3. QED  BY <2>2, <3>2
  <2>6. QED  BY <2>4, <2>5
<1>7. ASSUME NEW b \in BanquesSuivies
      PROVE  <<"banque-retard", b>> \in BuildAlerts(passees)
               <=> BankBreakdown(b, passees, "impaye") > 0
  <2> DEFINE E == {x \in OverdueByBank(passees) : x[2] > 0}
             A1 == IF OverdueInstallments(passees).dossiers # {} THEN {<<"echeances-retard">>} ELSE {}
             A2 == IF OverdueDisbursements # {} THEN {<<"decaissements-retard">>} ELSE {}
             A3 == {<<"banque-retard", x[1]>> : x \in E}
  <2>1. BuildAlerts(passees) = (A1 \cup A2) \cup A3  BY DEF BuildAlerts
  <2>2. <<"banque-retard", b>> \notin A1 \cup A2
    <3>1. <<"banque-retard", b>>[1] = "banque-retard"  OBVIOUS
    <3>2. \A x \in A1 \cup A2 : x[1] # "banque-retard"  OBVIOUS
    <3>3. QED  BY <3>1, <3>2
  <2>3. OverdueByBank(passees)
          = {<<c, BankBreakdown(c, passees, "impaye")>> : c \in {BanqueSuivie(f) : f \in enRetard}}
    BY DEF OverdueByBank
  <2>4. ASSUME <<"banque-retard", b>> \in A3
        PROVE  BankBreakdown(b, passees, "impaye") > 0
    <3>1. PICK x \in E : <<"banque-retard", b>> = <<"banque-retard", x[1]>>  BY <2>4
    <3>2. x[1] = b /\ x[2] > 0 /\ x \in OverdueByBank(passees)  BY <3>1
    <3>3. PICK c \in {BanqueSuivie(f) : f \in enRetard} : x = <<c, BankBreakdown(c, passees, "impaye")>>
      BY <2>3, <3>2
    <3>4. c = b /\ x[2] = BankBreakdown(c, passees, "impaye")  BY <3>2, <3>3
    <3>5. QED  BY <3>2, <3>4
  <2>5. ASSUME BankBreakdown(b, passees, "impaye") > 0
        PROVE  <<"banque-retard", b>> \in A3
    <3> DEFINE x == <<b, BankBreakdown(b, passees, "impaye")>>
    <3>1. \E f \in enRetard : BanqueSuivie(f) = b
      <4> HIDE DEF Part, enRetard
      <4> QED  BY <1>2, <1>6, <2>5
    <3>2. b \in {BanqueSuivie(f) : f \in enRetard}
      <4> HIDE DEF enRetard
      <4> QED  BY <3>1
    <3>3. x \in OverdueByBank(passees)
      <4> HIDE DEF enRetard
      <4> QED  BY <2>3, <3>2
    <3>4. x[1] = b /\ x[2] = BankBreakdown(b, passees, "impaye")  OBVIOUS
    <3> HIDE DEF x
    <3>5. x \in E  BY <2>5, <3>3, <3>4
    <3>6. QED
      <4> HIDE DEF E
      <4> QED  BY <3>4, <3>5
  <2> HIDE DEF A1, A2, A3, E
  <2>6. QED  BY <2>1, <2>2, <2>4, <2>5
<1>8. <<"echeances-retard">> \in BuildAlerts(passees)
         <=> OverdueInstallments(passees).dossiers # {}
  <2> DEFINE A1 == IF OverdueInstallments(passees).dossiers # {} THEN {<<"echeances-retard">>} ELSE {}
             A2 == IF OverdueDisbursements # {} THEN {<<"decaissements-retard">>} ELSE {}
             A3 == {<<"banque-retard", x[1]>> : x \in {y \in OverdueByBank(passees) : y[2] > 0}}
  <2>1. BuildAlerts(passees) = (A1 \cup A2) \cup A3  BY DEF BuildAlerts
  <2>2. <<"echeances-retard">>[1] = "echeances-retard"  OBVIOUS
  <2>3. \A x \in A2 \cup A3 : x[1] # "echeances-retard"  OBVIOUS
  <2>4. <<"echeances-retard">> \in A1 <=> OverdueInstallments(passees).dossiers # {}  OBVIOUS
  <2> HIDE DEF A1, A2, A3
  <2>5. QED  BY <2>1, <2>2, <2>3, <2>4
<1>9. OverdueInstallments(passees).montant
       = Total([b \in BanquesSuivies |-> BankBreakdown(b, passees, "impaye")])
  BY <1>3, <1>4, <1>5
<1>10. QED  BY <1>7, <1>8, <1>9 DEF RetardParBanque

\* A thousand times b fits in a.
LEMMA DivisionMinoree ==
  ASSUME NEW a \in Nat, NEW b \in Nat \ {0}, a >= 1000 * b
  PROVE  (a \div b) >= 1000
<1>1. PICK q \in Int : q = a \div b  OBVIOUS
<1>2. a < b * (q + 1)  BY <1>1
<1>3. b * (q + 1) > b * 1000  BY <1>2
<1>4. QED  BY <1>1, <1>3

\* Without arrears the portfolio has been repaid what it was due.
LEMMA TauxSansRetard ==
  ASSUME TypeOK, NEW passees \in SUBSET Echeances,
         FinancingTotals(passees, "du") > 0,
         \A f \in Financements : ~ (Impaye(f, passees) > 0)
  PROVE  TauxRemboursement(passees) = 1000
<1> DEFINE d == [f \in Financements |-> MontantDu(f, passees)]
           r == [f \in Financements |-> MontantRembourse(f)]
<1>1. \A f \in Financements : d[f] \in Nat /\ r[f] \in Nat /\ d[f] <= r[f]
  <2>1. SUFFICES ASSUME NEW f \in Financements PROVE d[f] \in Nat /\ r[f] \in Nat /\ d[f] <= r[f]
    OBVIOUS
  <2>2. MontantDu(f, passees) \in Nat /\ MontantRembourse(f) \in Nat  BY Nombres
  <2>3. MontantDu(f, passees) <= MontantRembourse(f)
    <3>1. SUFFICES ASSUME MontantDu(f, passees) > MontantRembourse(f) PROVE FALSE
      BY <2>2
    <3>2. Impaye(f, passees) = MontantDu(f, passees) - MontantRembourse(f)
      BY <3>1 DEF Impaye, Reste
    <3>3. QED  BY <2>2, <3>1, <3>2
  <2>4. QED  BY <2>2, <2>3
<1>2. /\ FinancingTotals(passees, "du") = SommeSur(d, Financements)
      /\ FinancingTotals(passees, "rembourse") = SommeSur(r, Financements)
  BY TotauxPerformance
<1> HIDE DEF d, r
<1>3. PICK D \in Nat, R \in Nat : SommeSur(d, Financements) = D /\ SommeSur(r, Financements) = R /\ D <= R
  <2>1. SommeSur(d, Financements) \in Nat /\ SommeSur(r, Financements) \in Nat
    BY <1>1, PortefeuilleAssumption, SommePositive
  <2>2. \A f \in Financements : d[f] \in Int /\ r[f] \in Int /\ d[f] <= r[f]  BY <1>1
  <2>3. SommeSur(d, Financements) <= SommeSur(r, Financements)
    BY <2>2, PortefeuilleAssumption, SommeCroit
  <2>4. QED  BY <2>1, <2>3
<1>4. D > 0  BY <1>2, <1>3
<1>5. ((2000 * R + D) \div (2 * D)) >= 1000 /\ ((2000 * R + D) \div (2 * D)) \in Int
  <2>1. PICK a \in Nat : a = 2000 * R + D  OBVIOUS
  <2>2. PICK b \in Nat \ {0} : b = 2 * D  BY <1>4
  <2>3. a >= 1000 * b  BY <1>3, <2>1, <2>2
  <2>4. (a \div b) >= 1000 /\ (a \div b) \in Int  BY <2>3, DivisionMinoree
  <2>5. QED  BY <2>1, <2>2, <2>4
<1>6. TauxRemboursement(passees)
        = IF D = 0 THEN 0
          ELSE IF ((2000 * R + D) \div (2 * D)) > 1000 THEN 1000 ELSE (2000 * R + D) \div (2 * D)
  BY <1>2, <1>3 DEF TauxRemboursement
<1>7. QED  BY <1>4, <1>5, <1>6

\* The arrears of the portfolio understate nothing and miss nobody.
LEMMA ArrieresVrais ==
  ASSUME TypeOK, EcheanceNonSurpayee
  PROVE  ArrieresFideles
<1>0. \A jour \in Jours : EcheancesPassees(jour) \in SUBSET Echeances
  BY DEF EcheancesPassees
<1>1. SUFFICES ASSUME NEW passees \in {EcheancesPassees(jour) : jour \in Jours}
               PROVE  LET retard  == OverdueInstallments(passees)
                          alertes == BuildAlerts(passees)
                          parBanque == [b \in BanquesSuivies |-> BankBreakdown(b, passees, "impaye")]
                      IN  /\ \A f \in Financements :
                               LET impaye == Impaye(f, passees)
                                   reel   == RetardReel(f, passees)
                                   avance == \E e \in EcheancesDe(f) \ passees : Paye(e) > 0
                               IN  /\ impaye <= reel
                                   /\ ~ avance => impaye = reel
                                   /\ f \in retard.dossiers
                                        => \E e \in EcheancesDe(f) \cap passees : LigneEcheance(e).reste > 0
                          /\ retard.montant = FinancingTotals(passees, "impaye")
                          /\ retard.montant = Total(parBanque)
                          /\ \A b \in BanquesSuivies : <<"banque-retard", b>> \in alertes <=> parBanque[b] > 0
                          /\ <<"echeances-retard">> \in alertes <=> retard.montant > 0
                          /\ FinancingTotals(passees, "du") > 0 /\ TauxRemboursement(passees) < 1000
                               => retard.dossiers # {}
  BY DEF ArrieresFideles
<1> passees \in SUBSET Echeances  BY <1>0
<1>2. \A f \in Financements : ImpayeVrai(f, passees)  BY ImpayeParFinancement
<1>3. \A f \in Financements : f \in OverdueInstallments(passees).dossiers => Impaye(f, passees) > 0
  BY MontantEnRetard
<1>4. RetardParBanque(passees)  BY RetardBanques
<1>5. FinancingTotals(passees, "du") > 0 /\ TauxRemboursement(passees) < 1000
        => OverdueInstallments(passees).dossiers # {}
  <2>1. SUFFICES ASSUME FinancingTotals(passees, "du") > 0, TauxRemboursement(passees) < 1000,
                        OverdueInstallments(passees).dossiers = {}
                 PROVE  FALSE
    OBVIOUS
  <2>2. \A f \in Financements : ~ (Impaye(f, passees) > 0)  BY <2>1, MontantEnRetard
  <2>3. TauxRemboursement(passees) = 1000  BY <2>1, <2>2, TauxSansRetard
  <2>4. QED  BY <2>1, <2>3
<1>6. QED  BY <1>2, <1>3, <1>4, <1>5, MontantEnRetard DEF ImpayeVrai, RetardParBanque

-----------------------------------------------------------------------------
(* What a partner declared is in the tables.                               *)

\* The row that the declaration of a partner left.
Inscrite(r) ==
  /\ <<requete[r].user, requete[r].f>> \in Perimetre
  /\ requete[r].op = "declareDisbursement" =>
       \E n \in 1 .. Len(decaissements[requete[r].f]) :
         /\ decaissements[requete[r].f][n].statut = "EFFECTUE"
         /\ decaissements[requete[r].f][n].montant = requete[r].montant
  /\ requete[r].op = "declareRepayment" =>
       /\ EcheanceDuFinancement(r)
       /\ \E n \in 1 .. Len(remboursements[requete[r].e]) :
            remboursements[requete[r].e][n] = requete[r].montant

Declaration(r) ==
  /\ pc[r] \in {"sum", "write"} => EcheanceDuFinancement(r)
  /\ pc[r] = "done" /\ Partner(r) => Inscrite(r)

Declarations == \A r \in Requetes : Declaration(r)

\* The rows stay as they are.
LEMMA InscriteConservee ==
  ASSUME TypeOK, TypeOK', [Conserve]_ledgerVars, requete' = requete, NEW r \in Requetes,
         Partner(r), Inscrite(r)
  PROVE  Inscrite(r)'
<1>1. CASE UNCHANGED ledgerVars
  BY <1>1 DEF ledgerVars, Inscrite, EcheanceDuFinancement, Repayment
<1>2. CASE Conserve
  <2> DEFINE f == requete[r].f
             e == requete[r].e
             rows == decaissements[f]
             paid == remboursements[e]
  <2>1. requete[r].op = "declareDisbursement" =>
          \E n \in 1 .. Len(decaissements'[f]) :
            /\ decaissements'[f][n].statut = "EFFECTUE"
            /\ decaissements'[f][n].montant = requete[r].montant
    <3>1. SUFFICES ASSUME requete[r].op = "declareDisbursement"
                   PROVE  \E n \in 1 .. Len(decaissements'[f]) :
                            /\ decaissements'[f][n].statut = "EFFECTUE"
                            /\ decaissements'[f][n].montant = requete[r].montant
      OBVIOUS
    <3>2. PICK n \in 1 .. Len(rows) : rows[n].statut = "EFFECTUE" /\ rows[n].montant = requete[r].montant
      BY <3>1 DEF Inscrite
    <3>3. f \in Financements /\ rows \in Seq(Decaissement) /\ decaissements'[f] \in Seq(Decaissement)
      BY DemandeType DEF TypeOK, LedgerTypeOK
    <3>4. decaissements'[f][n] = rows[n] /\ Len(rows) <= Len(decaissements'[f])
      BY <1>2, <3>2, <3>3 DEF Conserve
    <3> HIDE DEF rows, f
    <3>5. n \in 1 .. Len(decaissements'[f])
      <4>1. Len(rows) \in Nat /\ Len(decaissements'[f]) \in Nat  BY <3>3
      <4>2. QED  BY <3>2, <3>4, <4>1
    <3>6. QED  BY <3>2, <3>4, <3>5
  <2>2. requete[r].op = "declareRepayment" =>
          /\ EcheanceDuFinancement(r)
          /\ \E n \in 1 .. Len(remboursements'[e]) : remboursements'[e][n] = requete[r].montant
    <3>1. SUFFICES ASSUME requete[r].op = "declareRepayment"
                   PROVE  /\ EcheanceDuFinancement(r)
                          /\ \E n \in 1 .. Len(remboursements'[e]) :
                               remboursements'[e][n] = requete[r].montant
      OBVIOUS
    <3>2. PICK n \in 1 .. Len(paid) : paid[n] = requete[r].montant
      BY <3>1 DEF Inscrite
    <3>3. e \in Echeances /\ paid \in Seq(Nat) /\ remboursements'[e] \in Seq(Nat)
      BY <3>1, DemandeType DEF TypeOK, LedgerTypeOK, Repayment
    <3>4. remboursements'[e][n] = paid[n] /\ Len(paid) <= Len(remboursements'[e])
      BY <1>2, <3>2, <3>3 DEF Conserve
    <3>5. EcheanceDuFinancement(r)  BY <3>1 DEF Inscrite
    <3> HIDE DEF paid, e
    <3>6. n \in 1 .. Len(remboursements'[e])
      <4>1. Len(paid) \in Nat /\ Len(remboursements'[e]) \in Nat  BY <3>3
      <4>2. QED  BY <3>2, <3>4, <4>1
    <3>7. QED  BY <3>2, <3>4, <3>5, <3>6
  <2>3. QED  BY <2>1, <2>2 DEF Inscrite, EcheanceDuFinancement, Repayment
<1>3. QED  BY <1>1, <1>2

\* A declaration that commits leaves its row.
LEMMA InscriteEcrite ==
  ASSUME TypeOK, NEW r \in Requetes, Partner(r), Declaration(r),
         InsertDisbursement(r) \/ InsertRepayment(r)
  PROVE  Inscrite(r)'
<1> DEFINE f == requete[r].f
           e == requete[r].e
           m == requete[r].montant
<1>1. /\ requete' = requete /\ pc[r] = "write" /\ f \in Financements
      /\ requete[r].op \in {"declareDisbursement", "declareRepayment"}
      /\ Repayment(r) => e \in Echeances
      /\ m \in Nat
  BY DemandeType DEF InsertDisbursement, InsertRepayment, Partner
<1>2. <<requete[r].user, f>> \in Perimetre
  BY <1>1 DEF TypeOK, Parcours, DansPerimetre
<1>3. CASE requete[r].op = "declareDisbursement"
  <2> DEFINE rows == decaissements[f]
             row == [montant |-> m, statut |-> "EFFECTUE",
                     createdBy |-> requete[r].user, executedBy |-> Personne]
  <2>1. decaissements' = [decaissements EXCEPT ![f] = Append(@, row)]
    BY <1>3 DEF InsertDisbursement, InsertRepayment, Repayment, Partner
  <2>2. decaissements'[f] = Append(rows, row) /\ rows \in Seq(Decaissement)
    BY <1>1, <2>1 DEF TypeOK, LedgerTypeOK
  <2>3. row.statut = "EFFECTUE" /\ row.montant = m  OBVIOUS
  <2> HIDE DEF row, rows
  <2>4. Len(rows) + 1 \in 1 .. Len(Append(rows, row)) /\ Append(rows, row)[Len(rows) + 1] = row
    <3>1. Len(rows) \in Nat /\ Len(Append(rows, row)) = Len(rows) + 1
          /\ Append(rows, row)[Len(rows) + 1] = row
      BY <2>2
    <3>2. QED  BY <3>1
  <2>5. \E n \in 1 .. Len(decaissements'[f]) :
          /\ decaissements'[f][n].statut = "EFFECTUE"
          /\ decaissements'[f][n].montant = m
    BY <2>2, <2>3, <2>4
  <2>6. QED  BY <1>1, <1>2, <1>3, <2>5 DEF Inscrite
<1>4. CASE requete[r].op = "declareRepayment"
  <2> DEFINE paid == remboursements[e]
  <2>1. remboursements' = [remboursements EXCEPT ![e] = Append(@, m)] /\ Repayment(r)
    BY <1>4 DEF InsertDisbursement, InsertRepayment, Repayment, Disbursement
  <2>2. remboursements'[e] = Append(paid, m) /\ paid \in Seq(Nat)
    BY <1>1, <2>1 DEF TypeOK, LedgerTypeOK
  <2>3. EcheanceDuFinancement(r)  BY <1>1 DEF Declaration
  <2> HIDE DEF paid
  <2>4. Len(paid) + 1 \in 1 .. Len(Append(paid, m)) /\ Append(paid, m)[Len(paid) + 1] = m
    <3>1. Len(paid) \in Nat /\ Len(Append(paid, m)) = Len(paid) + 1
          /\ Append(paid, m)[Len(paid) + 1] = m
      BY <1>1, <2>2
    <3>2. QED  BY <3>1
  <2>5. \E n \in 1 .. Len(remboursements'[e]) : remboursements'[e][n] = m
    BY <2>2, <2>4
  <2>6. QED  BY <1>1, <1>2, <1>4, <2>3, <2>5 DEF Inscrite, EcheanceDuFinancement, Repayment
<1>5. QED  BY <1>1, <1>3, <1>4

\* Nothing is declared at the start.
LEMMA DeclarationsInit == Init => Declarations
BY DEF Init, Declarations, Declaration

\* One statement of one call keeps it.
LEMMA EtapeDeclarations ==
  ASSUME IInv, Declarations, NEW r \in Requetes, Etape(r)
  PROVE  Declarations'
<1>1. TypeOK /\ TypeOK' /\ [Conserve]_ledgerVars /\ requete' = requete
  BY EtapeType, EtapeLedger, EtapeConserve, EtapeCadre DEF IInv, TypeOK
<1>2. \A q \in Requetes : Declaration(q) /\ (Partner(q)' <=> Partner(q))
                          /\ (EcheanceDuFinancement(q)' <=> EcheanceDuFinancement(q))
  BY <1>1 DEF Declarations, Partner, EcheanceDuFinancement, Repayment
<1>3. ASSUME NEW q \in Requetes, pc[q] = "done", Partner(q) PROVE Inscrite(q)'
  BY <1>1, <1>2, <1>3, InscriteConservee DEF Declaration
<1>4. ASSUME NEW q \in Requetes, q # r PROVE Declaration(q)'
  <2>1. pc'[q] = pc[q]  BY <1>1, <1>4, EtapeCadre
  <2>2. QED  BY <1>2, <1>3, <2>1 DEF Declaration
<1>5. Declaration(r)'
  <2>1. pc \in [Requetes -> {"received"} \cup InTransaction \cup Terminal] /\ Parcours(r)
        /\ requete[r].op \in Ops
    BY <1>1, DemandeType DEF TypeOK
  <2>2. CASE ServiceCheck(r) \/ LockFinancing(r) \/ LockDisbursement(r) \/ Rollback(r)
    <3>1. /\ pc'[r] # "done"
          /\ pc'[r] \in {"sum", "write"} =>
               requete[r].op \in {"planDisbursement", "declareDisbursement", "executeDisbursement"}
      BY <2>1, <2>2 DEF ServiceCheck, LockFinancing, LockDisbursement, Rollback, FirstLock,
                        Disbursement, Parcours
    <3>2. QED  BY <1>2, <3>1 DEF Declaration, EcheanceDuFinancement, Repayment
  <2>3. CASE LockInstallment(r) \/ Sum(r)
    <3>1. pc'[r] # "done" /\ (pc'[r] \in {"sum", "write"} => EcheanceDuFinancement(r))
      BY <1>2, <2>1, <2>3 DEF LockInstallment, Sum, Declaration
    <3>2. QED  BY <1>2, <3>1 DEF Declaration
  <2>4. CASE InsertDisbursement(r) \/ InsertRepayment(r)
    <3>1. pc'[r] = "done"
      BY <2>1, <2>4 DEF InsertDisbursement, InsertRepayment
    <3>2. Partner(r) => Inscrite(r)'  BY <1>1, <1>2, <2>4, InscriteEcrite
    <3>3. QED  BY <1>2, <3>1, <3>2 DEF Declaration
  <2>5. CASE UpdateDisbursement(r)
    <3>1. pc'[r] = "done" /\ ~ Partner(r)
      BY <2>1, <2>5 DEF UpdateDisbursement, Partner
    <3>2. QED  BY <1>2, <3>1 DEF Declaration
  <2>6. QED  BY <2>2, <2>3, <2>4, <2>5, EtapeCas
<1>6. QED  BY <1>4, <1>5 DEF Declarations

-----------------------------------------------------------------------------
(* What the pages show.                                                    *)

\* The tables of a detail page, as columns of amounts.
LEMMA TotalDesLignes ==
  ASSUME NEW rows \in Seq(Decaissement), NEW statuts
  PROVE  \E w \in [1 .. Len(rows) -> Nat] :
           /\ w = [i \in 1 .. Len(rows) |-> IF rows[i].statut \in statuts THEN rows[i].montant ELSE 0]
           /\ TotalDes(rows, statuts) = Somme(w)
           /\ Somme(w) = SommeSur(w, 1 .. Len(rows))
           /\ Somme(w) \in Nat
<1> DEFINE w == [i \in 1 .. Len(rows) |-> IF rows[i].statut \in statuts THEN rows[i].montant ELSE 0]
<1>1. \A i \in 1 .. Len(rows) : rows[i].montant \in Nat
  <2>1. \A i \in 1 .. Len(rows) : rows[i] \in Decaissement  OBVIOUS
  <2>2. QED  BY <2>1 DEF Decaissement
<1>2. w \in [1 .. Len(rows) -> Nat]  BY <1>1
<1>3. w \in Seq(Nat) /\ Len(w) = Len(rows)
  <2> HIDE DEF w
  <2>1. Len(rows) \in Nat  OBVIOUS
  <2>2. QED  BY <1>2, <2>1
<1>4. TotalDes(rows, statuts) = Somme(w)  BY DEF TotalDes
<1>5. Somme(w) = SommeSur(w, 1 .. Len(rows)) /\ Somme(w) \in Nat
  <2> HIDE DEF w
  <2>1. QED  BY <1>3, SommeSuite, SommeNat
<1>6. w = [i \in 1 .. Len(rows) |-> IF rows[i].statut \in statuts THEN rows[i].montant ELSE 0]
  OBVIOUS
<1> HIDE DEF w
<1>7. QED  BY <1>2, <1>4, <1>5, <1>6

\* What is paid out is the page's sum of the rows paid out, what is engaged that
\* of the rows not cancelled.
LEMMA SommesDePage ==
  ASSUME TypeOK, NEW f \in Financements
  PROVE  /\ decaissements[f] \in Seq(Decaissement)
         /\ MontantDecaisse(f) = TotalDes(decaissements[f], {"EFFECTUE"})
         /\ Engage(f) = TotalDes(decaissements[f], NonAnnules)
<1> DEFINE rows == decaissements[f]
<1>1. rows \in Seq(Decaissement)  BY DEF TypeOK, LedgerTypeOK
<1>2. \A i \in 1 .. Len(rows) : rows[i].statut \in {"PREVU", "EFFECTUE", "ANNULE"}
  <2>1. \A i \in 1 .. Len(rows) : rows[i] \in Decaissement  BY <1>1
  <2>2. QED  BY <2>1 DEF Decaissement
<1>3. \A i \in 1 .. Len(rows) :
        /\ PoidsEffectue(rows[i]) = IF rows[i].statut \in {"EFFECTUE"} THEN rows[i].montant ELSE 0
        /\ Poids(rows[i]) = IF rows[i].statut \in NonAnnules THEN rows[i].montant ELSE 0
  BY <1>2 DEF PoidsEffectue, Poids, NonAnnules
<1>4. /\ [i \in 1 .. Len(rows) |-> PoidsEffectue(rows[i])]
           = [i \in 1 .. Len(rows) |-> IF rows[i].statut \in {"EFFECTUE"} THEN rows[i].montant ELSE 0]
      /\ [i \in 1 .. Len(rows) |-> Poids(rows[i])]
           = [i \in 1 .. Len(rows) |-> IF rows[i].statut \in NonAnnules THEN rows[i].montant ELSE 0]
  BY <1>3
<1>5. QED  BY <1>1, <1>4 DEF MontantDecaisse, Engage, TotalEngage, TotalDes

\* A tranche paid out counts in the totals of its financing.
LEMMA TrancheComptee ==
  ASSUME TypeOK, NEW f \in Financements, NEW n \in 1 .. Len(decaissements[f]),
         decaissements[f][n].statut = "EFFECTUE"
  PROVE  decaissements[f][n].montant <= MontantDecaisse(f)
<1> DEFINE rows == decaissements[f]
<1>1. rows \in Seq(Decaissement) /\ MontantDecaisse(f) = TotalDes(rows, {"EFFECTUE"})
  BY SommesDePage
<1> HIDE DEF rows
<1>2. PICK w \in [1 .. Len(rows) -> Nat] :
           /\ w = [i \in 1 .. Len(rows) |-> IF rows[i].statut \in {"EFFECTUE"} THEN rows[i].montant ELSE 0]
           /\ TotalDes(rows, {"EFFECTUE"}) = Somme(w)
           /\ Somme(w) = SommeSur(w, 1 .. Len(rows))
  BY <1>1, TotalDesLignes
<1>3. n \in 1 .. Len(rows) /\ w[n] = rows[n].montant  BY <1>2 DEF rows
<1>4. IsFiniteSet(1 .. Len(rows))
  <2>1. Len(rows) \in Nat  BY <1>1
  <2>2. QED  BY <2>1, FS_Interval
<1>5. w[n] <= SommeSur(w, 1 .. Len(rows))
  <2>1. \A i \in 1 .. Len(rows) : w[i] \in Nat  BY <1>2
  <2>2. QED  BY <1>3, <1>4, <2>1, SommePositive
<1>6. QED  BY <1>1, <1>2, <1>3, <1>5 DEF rows

\* A payment counts in what its instalment, then its financing, received.
LEMMA VersementCompte ==
  ASSUME TypeOK, NEW e \in Echeances, NEW n \in 1 .. Len(remboursements[e])
  PROVE  remboursements[e][n] <= MontantRembourse(FinancementDe[e])
<1> DEFINE paid == remboursements[e]
           f == FinancementDe[e]
           S == EcheancesDe(f)
           v == [x \in S |-> Paye(x)]
<1>1. paid \in Seq(Nat) /\ Len(paid) \in Nat  BY DEF TypeOK, LedgerTypeOK
<1>2. paid[n] <= Somme(paid)
  <2> HIDE DEF paid
  <2>0. IsFiniteSet(1 .. Len(paid))  BY <1>1, FS_Interval
  <2>1. \A i \in 1 .. Len(paid) : paid[i] \in Nat  BY <1>1
  <2>2. n \in 1 .. Len(paid)  BY DEF paid
  <2>3. paid[n] <= SommeSur(paid, 1 .. Len(paid))  BY <2>0, <2>1, <2>2, SommePositive
  <2>4. QED  BY <1>1, <2>3, SommeSuite
<1>3. f \in Financements  BY LedgerAssumption
<1>4. IsFiniteSet(S) /\ \A x \in S : v[x] \in Nat  BY <1>3, Colonnes
<1>5. e \in S /\ v[e] = Paye(e) /\ DOMAIN v = S  BY DEF EcheancesDe
<1>6. MontantRembourse(f) = SommeSur(v, S)  BY <1>5 DEF MontantRembourse, Total
<1>7. Paye(e) <= MontantRembourse(f) /\ Paye(e) \in Nat /\ MontantRembourse(f) \in Nat
  <2> HIDE DEF S, v, f
  <2>1. v[e] <= SommeSur(v, S) /\ SommeSur(v, S) \in Nat  BY <1>4, <1>5, SommePositive
  <2>2. QED  BY <1>4, <1>5, <1>6, <2>1
<1>8. paid[n] \in Nat /\ Somme(paid) = Paye(e)
  BY <1>1 DEF Paye
<1>9. QED  BY <1>2, <1>7, <1>8

\* A partner's totals are no less than those of a financing of its list.
LEMMA TotauxPartenaire ==
  ASSUME TypeOK, NEW u, NEW f \in PartnerList(u)
  PROVE  /\ MontantDecaisse(f) <= PartnerTotals(u, {}, "decaisse")
         /\ MontantRembourse(f) <= PartnerTotals(u, {}, "rembourse")
         /\ MontantDecaisse(f) \in Nat /\ PartnerTotals(u, {}, "decaisse") \in Nat
         /\ MontantRembourse(f) \in Nat /\ PartnerTotals(u, {}, "rembourse") \in Nat
<1> DEFINE L == PartnerList(u)
           d == [x \in L |-> Performance(x, {}, "decaisse")]
           r == [x \in L |-> Performance(x, {}, "rembourse")]
<1>1. IsFiniteSet(L) /\ L \subseteq Financements
  BY PortefeuilleAssumption, FS_Subset DEF PartnerList
<1>2. \A x \in L : d[x] = MontantDecaisse(x) /\ r[x] = MontantRembourse(x)
  BY DEF Performance
<1>3. \A x \in L : MontantDecaisse(x) \in Nat /\ MontantRembourse(x) \in Nat
  <2>1. SUFFICES ASSUME NEW x \in L PROVE MontantDecaisse(x) \in Nat /\ MontantRembourse(x) \in Nat
    OBVIOUS
  <2>2. x \in Financements  BY <1>1
  <2>3. MontantDecaisse(x) \in Nat  BY <2>2, SommesDePage, TotalDesLignes
  <2>4. {} \in SUBSET Echeances  OBVIOUS
  <2>5. MontantRembourse(x) \in Nat  BY <2>2, <2>4, Nombres
  <2>6. QED  BY <2>3, <2>5
<1>4. /\ PartnerTotals(u, {}, "decaisse") = SommeSur(d, L)
      /\ PartnerTotals(u, {}, "rembourse") = SommeSur(r, L)
  <2>1. DOMAIN d = L /\ DOMAIN r = L  OBVIOUS
  <2>2. QED  BY <2>1 DEF PartnerTotals, Total
<1>5. \A x \in L : d[x] \in Nat /\ r[x] \in Nat
  <2> HIDE DEF d, r
  <2> QED  BY <1>2, <1>3
<1>6. /\ d[f] <= SommeSur(d, L) /\ r[f] <= SommeSur(r, L)
      /\ SommeSur(d, L) \in Nat /\ SommeSur(r, L) \in Nat
  <2>1. f \in L  OBVIOUS
  <2> HIDE DEF d, r, L
  <2>2. QED  BY <1>1, <1>5, <2>1, SommePositive
<1>7. QED
  <2>1. f \in L  OBVIOUS
  <2> HIDE DEF d, r, L
  <2>2. QED  BY <1>2, <1>3, <1>4, <1>6, <2>1

\* The query returns a list: of the k rows kept so far, the earliest row left
\* makes k + 1.
LEMMA ListeExiste ==
  ASSUME NEW S \in SUBSET Echeances, NEW n \in Nat, n <= Cardinality(S)
  PROVE  \E T \in SUBSET S : Cardinality(T) = n /\ PlusProches(T, S)
<1> DEFINE Bon(k) == \E T \in SUBSET S : Cardinality(T) = k /\ PlusProches(T, S)
           N == {k \in Nat : k <= n => Bon(k)}
<1>1. IsFiniteSet(S) /\ \A e \in S : DateEcheance[e] \in Nat
  BY FS_Subset, PortefeuilleAssumption
<1>2. Bon(0)
  <2>1. {} \in SUBSET S /\ Cardinality({}) = 0 /\ PlusProches({}, S)
    BY FS_EmptySet DEF PlusProches
  <2>2. QED  BY <2>1
<1>3. ASSUME NEW k \in Nat, k < n, Bon(k) PROVE Bon(k + 1)
  <2>1. PICK T \in SUBSET S : Cardinality(T) = k /\ PlusProches(T, S)  BY <1>3
  <2>2. IsFiniteSet(T)  BY <1>1, FS_Subset
  <2>3. T # S /\ S \ T # {}
    <3>1. Cardinality(T) # Cardinality(S)  BY <1>1, <1>3, <2>1, FS_CardinalityType
    <3>2. T # S  BY <3>1
    <3>3. T \subseteq S  BY <2>1
    <3>4. QED  BY <3>2, <3>3
  <2> DEFINE D == {DateEcheance[x] : x \in S \ T}
  <2>4. PICK d \in D : \A y \in D : d <= y
    <3>1. D # {} /\ D \subseteq Nat  BY <1>1, <2>3
    <3> HIDE DEF D
    <3>2. PICK m \in D : \A y \in D : ~ (y < m)  BY <3>1, LeastNatural
    <3>3. QED  BY <3>1, <3>2
  <2>5. PICK x \in S \ T : DateEcheance[x] = d  BY <2>4
  <2>6. \A y \in S \ T : DateEcheance[x] <= DateEcheance[y]  BY <2>4, <2>5
  <2>7. Cardinality(T \cup {x}) = k + 1  BY <2>1, <2>2, <2>5, FS_AddElement
  <2>8. PlusProches(T \cup {x}, S)  BY <2>1, <2>6 DEF PlusProches
  <2>9. T \cup {x} \in SUBSET S  BY <2>1, <2>5
  <2>10. QED  BY <2>7, <2>8, <2>9
<1> HIDE DEF Bon
<1>4. Nat \subseteq N
  <2>1. 0 \in N  BY <1>2
  <2>2. ASSUME NEW k \in Nat, k \in N PROVE k + 1 \in N  BY <1>3, <2>2
  <2> HIDE DEF N
  <2>3. QED  BY <2>1, <2>2, SetInduction
<1>5. Bon(n)  BY <1>4
<1>6. QED  BY <1>5 DEF Bon

\* The list of what is to come, on any day.
LEMMA ListeFidele ==
  ASSUME TypeOK, StatutSuitPaiements, NEW u \in Partenaires, NEW jour \in Nat
  PROVE  /\ EcheancesAVenir(u, jour) # {}
         /\ \A liste \in EcheancesAVenir(u, jour) :
              /\ liste \subseteq ResteAVenir(u, jour)
              /\ \A x \in ResteAVenir(u, jour) \ liste :
                   /\ Cardinality(liste) = Limite
                   /\ \A e \in liste : DateEcheance[e] <= DateEcheance[x]
<1> DEFINE S == EcheancesOuvertes(u, jour)
           n == Cardinality(S)
           k == IF n <= Limite THEN n ELSE Limite
<1>1. S = ResteAVenir(u, jour) /\ S \in SUBSET Echeances
  <2>1. \A e \in Echeances : /\ Paye(e) \in Nat /\ MontantTotalDu[e] \in Nat
                             /\ DateEcheance[e] \in Nat
    BY SommesNat, LedgerAssumption, PortefeuilleAssumption DEF TypeOK
  <2>2. \A e \in Echeances : LigneEcheance(e).reste > 0 <=> Paye(e) < MontantTotalDu[e]
    <3>1. \A e \in Echeances : LigneEcheance(e).reste = Reste(MontantTotalDu[e], Paye(e))
      BY DEF LigneEcheance
    <3>2. QED  BY <2>1, <3>1 DEF Reste
  <2>3. \A e \in Echeances : Paye(e) < MontantTotalDu[e] => statutEcheance[e] # "PAYEE"
    BY <2>1 DEF StatutSuitPaiements
  <2>4. \A e \in Echeances : DateEcheance[e] >= jour <=> jour <= DateEcheance[e]  BY <2>1
  <2>5. QED  BY <2>2, <2>3, <2>4 DEF EcheancesOuvertes, ResteAVenir
<1>2. IsFiniteSet(S) /\ n \in Nat /\ k \in Nat /\ k <= n
  <2>1. IsFiniteSet(S)  BY <1>1, FS_Subset, PortefeuilleAssumption
  <2>2. n \in Nat  BY <2>1, FS_CardinalityType
  <2>3. QED  BY <2>1, <2>2, PortefeuilleAssumption
<1>3. EcheancesAVenir(u, jour) = {T \in SUBSET S : Cardinality(T) = k /\ PlusProches(T, S)}
  BY DEF EcheancesAVenir
<1>4. EcheancesAVenir(u, jour) # {}
  <2> HIDE DEF S, n, k
  <2>1. \E T \in SUBSET S : Cardinality(T) = k /\ PlusProches(T, S)
    BY <1>1, <1>2, ListeExiste DEF n
  <2>2. QED  BY <1>3, <2>1
<1>5. ASSUME NEW T \in EcheancesAVenir(u, jour), NEW x \in S \ T
      PROVE  Cardinality(T) = Limite /\ \A e \in T : DateEcheance[e] <= DateEcheance[x]
  <2>1. T \in SUBSET S /\ Cardinality(T) = k /\ PlusProches(T, S)  BY <1>3, <1>5
  <2>2. Cardinality(T) # n
    <3> HIDE DEF S, k
    <3>1. T # S  BY <1>5
    <3>2. QED  BY <1>2, <2>1, <3>1, FS_Subset DEF n
  <2>3. Cardinality(T) = Limite
    <3> HIDE DEF S, n
    <3> QED  BY <2>1, <2>2 DEF k
  <2>4. QED  BY <1>5, <2>1, <2>3 DEF PlusProches
<1>6. \A T \in EcheancesAVenir(u, jour) : T \subseteq S  BY <1>3
<1>7. QED
  <2> HIDE DEF S, n, k
  <2> QED  BY <1>1, <1>4, <1>5, <1>6

\* The list, and the partner's history.
LEMMA AVenirFideleVrai ==
  ASSUME TypeOK, StatutSuitPaiements, Declarations
  PROVE  AVenirFidele
<1>1. SUFFICES ASSUME NEW u \in Partenaires
      PROVE  /\ \A jour \in Jours :
                  /\ EcheancesAVenir(u, jour) # {}
                  /\ \A liste \in EcheancesAVenir(u, jour) :
                       /\ liste \subseteq ResteAVenir(u, jour)
                       /\ \A x \in ResteAVenir(u, jour) \ liste :
                            /\ Cardinality(liste) = Limite
                            /\ \A e \in liste : DateEcheance[e] <= DateEcheance[x]
             /\ \A r \in Operations(u) :
                  LET q == requete[r]
                  IN  /\ PartnerFindById(u, q.f) # {}
                      /\ q.op = "declareDisbursement" =>
                           q.montant <= PartnerTotals(u, {}, "decaisse")
                      /\ q.op = "declareRepayment" =>
                           q.montant <= PartnerTotals(u, {}, "rembourse")
  BY DEF AVenirFidele
<1>2. ASSUME NEW jour \in Jours PROVE jour \in Nat
  BY <1>2, PortefeuilleAssumption DEF Jours
<1>3. ASSUME NEW r \in Operations(u)
      PROVE  /\ PartnerFindById(u, requete[r].f) # {}
             /\ requete[r].op = "declareDisbursement" =>
                  requete[r].montant <= PartnerTotals(u, {}, "decaisse")
             /\ requete[r].op = "declareRepayment" =>
                  requete[r].montant <= PartnerTotals(u, {}, "rembourse")
  <2> DEFINE f == requete[r].f
             e == requete[r].e
             m == requete[r].montant
  <2>1. /\ r \in Requetes /\ Partner(r) /\ requete[r].user = u /\ Inscrite(r)
    BY DEF Operations, Declarations, Declaration
  <2>2. f \in Financements /\ f \in PartnerList(u)
    BY <2>1, DemandeType DEF Inscrite, PartnerList
  <2>3. PartnerFindById(u, f) # {}  BY <2>2 DEF PartnerFindById
  <2>4. /\ MontantDecaisse(f) <= PartnerTotals(u, {}, "decaisse")
        /\ MontantRembourse(f) <= PartnerTotals(u, {}, "rembourse")
    BY <2>2, TotauxPartenaire
  <2>5. requete[r].op = "declareDisbursement" => m <= MontantDecaisse(f)
    BY <2>1, <2>2, TrancheComptee DEF Inscrite
  <2>6. requete[r].op = "declareRepayment" => m <= MontantRembourse(f)
    <3>1. SUFFICES ASSUME requete[r].op = "declareRepayment" PROVE m <= MontantRembourse(f)
      OBVIOUS
    <3>2. e \in Echeances /\ FinancementDe[e] = f
      BY <2>1, <3>1, DemandeType DEF Inscrite, EcheanceDuFinancement, Repayment
    <3>3. QED  BY <2>1, <3>1, <3>2, VersementCompte DEF Inscrite
  <2>7. /\ requete[r].op \in {"declareDisbursement", "declareRepayment"} => m \in Nat
        /\ MontantDecaisse(f) \in Nat /\ MontantRembourse(f) \in Nat
        /\ PartnerTotals(u, {}, "decaisse") \in Nat /\ PartnerTotals(u, {}, "rembourse") \in Nat
    BY <2>1, <2>2, DemandeType, TotauxPartenaire
  <2>8. QED  BY <2>3, <2>4, <2>5, <2>6, <2>7
<1>4. QED
  <2>1. \A jour \in Jours :
          /\ EcheancesAVenir(u, jour) # {}
          /\ \A liste \in EcheancesAVenir(u, jour) :
               /\ liste \subseteq ResteAVenir(u, jour)
               /\ \A x \in ResteAVenir(u, jour) \ liste :
                    /\ Cardinality(liste) = Limite
                    /\ \A e \in liste : DateEcheance[e] <= DateEcheance[x]
    BY <1>2, ListeFidele
  <2>2. QED  BY <1>3, <2>1

\* A row is paid out or still to be, so the page's two figures and the planned
\* tranches add up to the grant.
LEMMA PrevusComptes ==
  ASSUME TypeOK, NEW f \in Financements
  PROVE  /\ Engage(f) = MontantDecaisse(f) + Total([n \in Prevus(f) |-> decaissements[f][n].montant])
         /\ Total([n \in Prevus(f) |-> decaissements[f][n].montant]) \in Int
<1> DEFINE rows == decaissements[f]
           I == 1 .. Len(rows)
           P == Prevus(f)
           m == [n \in P |-> rows[n].montant]
           p == [i \in I |-> IF i \in P THEN rows[i].montant ELSE 0]
<1>1. /\ rows \in Seq(Decaissement) /\ Len(rows) \in Nat
      /\ MontantDecaisse(f) = TotalDes(rows, {"EFFECTUE"})
      /\ Engage(f) = TotalDes(rows, NonAnnules)
  BY SommesDePage
<1>2. \A i \in I : rows[i].montant \in Nat
  <2>1. \A i \in I : rows[i] \in Decaissement  BY <1>1
  <2>2. QED  BY <2>1 DEF Decaissement
<1>3. P \subseteq I /\ \A i \in I : i \in P <=> rows[i].statut = "PREVU"  BY DEF Prevus
<1>4. IsFiniteSet(I) /\ IsFiniteSet(P)
  <2>1. IsFiniteSet(I)  BY <1>1, FS_Interval
  <2>2. QED  BY <1>3, <2>1, FS_Subset
<1>5. /\ \A i \in I : p[i] \in Nat
      /\ \A i \in I \ P : p[i] = 0
      /\ \A n \in P : m[n] \in Int /\ m[n] = p[n] /\ m[n] = rows[n].montant
      /\ \A i \in I : p[i] = IF rows[i].statut = "PREVU" THEN rows[i].montant ELSE 0
      /\ DOMAIN m = P
  BY <1>2, <1>3
<1> HIDE DEF rows, I, P, m, p
<1>6. PICK e \in [1 .. Len(rows) -> Nat] :
           /\ e = [i \in 1 .. Len(rows) |-> IF rows[i].statut \in {"EFFECTUE"} THEN rows[i].montant ELSE 0]
           /\ TotalDes(rows, {"EFFECTUE"}) = Somme(e)
           /\ Somme(e) = SommeSur(e, 1 .. Len(rows))
  BY <1>1, TotalDesLignes
<1>7. PICK w \in [1 .. Len(rows) -> Nat] :
           /\ w = [i \in 1 .. Len(rows) |-> IF rows[i].statut \in NonAnnules THEN rows[i].montant ELSE 0]
           /\ TotalDes(rows, NonAnnules) = Somme(w)
           /\ Somme(w) = SommeSur(w, 1 .. Len(rows))
  BY <1>1, TotalDesLignes
<1>8. \A i \in I : e[i] \in Int /\ p[i] \in Int /\ w[i] = e[i] + p[i]
  <2>1. SUFFICES ASSUME NEW i \in I PROVE e[i] \in Int /\ p[i] \in Int /\ w[i] = e[i] + p[i]
    OBVIOUS
  <2>2. i \in 1 .. Len(rows) /\ rows[i].montant \in Nat /\ p[i] \in Nat
        /\ p[i] = IF rows[i].statut = "PREVU" THEN rows[i].montant ELSE 0
    BY <1>2, <1>5 DEF I
  <2>3. e[i] = IF rows[i].statut \in {"EFFECTUE"} THEN rows[i].montant ELSE 0  BY <1>6, <2>2
  <2>4. w[i] = IF rows[i].statut \in NonAnnules THEN rows[i].montant ELSE 0  BY <1>7, <2>2
  <2>5. QED  BY <2>2, <2>3, <2>4 DEF NonAnnules
<1>9. SommeSur(w, I) = SommeSur(e, I) + SommeSur(p, I)  BY <1>4, <1>8, SommePlus
<1>10. SommeSur(p, I) = SommeSur(p, P)  BY <1>3, <1>4, <1>5, SommeRestreint
<1>11. SommeSur(m, P) = SommeSur(p, P)  BY <1>4, <1>5, SommeEgale
<1>12. Total(m) = SommeSur(m, P)  BY <1>5 DEF Total
<1>13. SommeSur(e, I) = Somme(e) /\ SommeSur(w, I) = Somme(w)  BY <1>6, <1>7 DEF I
<1>14. Engage(f) = MontantDecaisse(f) + Total(m)
  BY <1>1, <1>6, <1>7, <1>9, <1>10, <1>11, <1>12, <1>13
<1>15. Total(m) \in Int
  <2>1. \A n \in P : m[n] \in Int  BY <1>5
  <2>2. QED  BY <1>4, <1>12, <2>1, SommeEntiere
<1>16. QED  BY <1>14, <1>15 DEF m, P, rows

\* The two detail pages show the balances the API checks.
LEMMA SoldesExactsVrai ==
  ASSUME TypeOK, PlafondRespecte, EcheanceNonSurpayee
  PROVE  SoldesExacts
<1>1. SUFFICES ASSUME NEW f \in Financements
      PROVE  LET page    == PageDirection(f)
                 enCours == {x[2] : x \in {y \in OverdueDisbursements : y[1] = f}}
             IN  /\ PagePartenaire(f) = page
                 /\ \A m \in Montants :
                      m <= page.remainingDisbursement <=> Engage(f) + m <= MontantAccorde[f]
                 /\ page.openInstallments =
                      {e \in EcheancesDe(f) : \E m \in 1 .. MontantTotalDu[e] : Paye(e) + m <= MontantTotalDu[e]}
                 /\ page.disbursed = MontantDecaisse(f)
                 /\ page.repaid = MontantRembourse(f)
                 /\ page.disbursed + page.remainingDisbursement
                      + Total([n \in enCours |-> decaissements[f][n].montant]) = MontantAccorde[f]
  BY DEF SoldesExacts
<1>2. /\ Engage(f) \in Nat /\ MontantAccorde[f] \in Nat /\ Engage(f) <= MontantAccorde[f]
      /\ MontantDecaisse(f) = TotalDes(decaissements[f], {"EFFECTUE"})
      /\ Engage(f) = TotalDes(decaissements[f], NonAnnules)
      /\ MontantDecaisse(f) \in Nat
  <2>1. Engage(f) \in Nat  BY SommesNat DEF TypeOK
  <2>2. MontantDecaisse(f) = TotalDes(decaissements[f], {"EFFECTUE"})
        /\ Engage(f) = TotalDes(decaissements[f], NonAnnules)
        /\ decaissements[f] \in Seq(Decaissement)
    BY SommesDePage
  <2>3. MontantDecaisse(f) \in Nat  BY <2>2, TotalDesLignes
  <2>4. QED  BY <2>1, <2>2, <2>3, LedgerAssumption DEF PlafondRespecte
<1> DEFINE D == FindById(f)
           ouvertes == {e \in EcheancesDe(f) : D.installments[e].reste > 0}
           rendu == Total([e \in EcheancesDe(f) |-> D.installments[e].paye])
<1>3. /\ D.accorde = MontantAccorde[f] /\ D.disbursements = decaissements[f]
      /\ \A e \in EcheancesDe(f) : /\ D.installments[e].paye = Paye(e)
                                   /\ D.installments[e].reste = Reste(MontantTotalDu[e], Paye(e))
  BY DEF FindById, LigneEcheance
<1>4. rendu = MontantRembourse(f)
  <2>1. [e \in EcheancesDe(f) |-> D.installments[e].paye] = [e \in EcheancesDe(f) |-> Paye(e)]
    <3> HIDE DEF D
    <3> QED  BY <1>3
  <2>2. QED  BY <2>1 DEF MontantRembourse
<1>5. ouvertes = {e \in EcheancesDe(f) : \E m \in 1 .. MontantTotalDu[e] : Paye(e) + m <= MontantTotalDu[e]}
  <2>1. \A e \in EcheancesDe(f) :
          D.installments[e].reste > 0 <=> \E m \in 1 .. MontantTotalDu[e] : Paye(e) + m <= MontantTotalDu[e]
    <3>1. SUFFICES ASSUME NEW e \in EcheancesDe(f)
                   PROVE  D.installments[e].reste > 0
                            <=> \E m \in 1 .. MontantTotalDu[e] : Paye(e) + m <= MontantTotalDu[e]
      OBVIOUS
    <3>2. D.installments[e].reste = Reste(MontantTotalDu[e], Paye(e))  BY <1>3
    <3>3. Paye(e) \in Nat /\ MontantTotalDu[e] \in Nat  BY Colonnes
    <3>4. D.installments[e].reste > 0 <=> MontantTotalDu[e] > Paye(e)
      <4> HIDE DEF D
      <4> QED  BY <3>2, <3>3 DEF Reste
    <3>5. MontantTotalDu[e] > Paye(e) => 1 \in 1 .. MontantTotalDu[e] /\ Paye(e) + 1 <= MontantTotalDu[e]
      BY <3>3
    <3>6. (\E m \in 1 .. MontantTotalDu[e] : Paye(e) + m <= MontantTotalDu[e]) => MontantTotalDu[e] > Paye(e)
      BY <3>3
    <3> HIDE DEF D
    <3>7. QED  BY <3>4, <3>5, <3>6
  <2> HIDE DEF D
  <2>2. QED  BY <2>1
<1>6. /\ PageDirection(f).disbursed = MontantDecaisse(f)
      /\ PageDirection(f).repaid = rendu
      /\ PageDirection(f).remainingDisbursement = MontantAccorde[f] - Engage(f)
      /\ PageDirection(f).openInstallments = ouvertes
      /\ PageDirection(f) = [disbursed |-> MontantDecaisse(f), repaid |-> rendu,
                             remainingDisbursement |-> MontantAccorde[f] - Engage(f),
                             openInstallments |-> ouvertes]
  <2> HIDE DEF D, ouvertes, rendu
  <2>1. PageDirection(f) = [disbursed |-> MontantDecaisse(f), repaid |-> rendu,
                            remainingDisbursement |-> MontantAccorde[f] - Engage(f),
                            openInstallments |-> ouvertes]
    BY <1>2, <1>3 DEF PageDirection, D, ouvertes, rendu
  <2>2. QED  BY <2>1
<1>7. PagePartenaire(f) = [disbursed |-> MontantDecaisse(f), repaid |-> rendu,
                           remainingDisbursement |-> Reste(MontantAccorde[f], Engage(f)),
                           openInstallments |-> ouvertes]
  BY <1>2, <1>3 DEF PagePartenaire
<1>8. Reste(MontantAccorde[f], Engage(f)) = MontantAccorde[f] - Engage(f)
  BY <1>2 DEF Reste
<1>9. PagePartenaire(f) = PageDirection(f)
  <2> HIDE DEF D, ouvertes, rendu
  <2> QED  BY <1>6, <1>7, <1>8
<1>10. \A m \in Montants :
        m <= PageDirection(f).remainingDisbursement <=> Engage(f) + m <= MontantAccorde[f]
  <2>1. \A m \in Montants : m \in Nat  BY LedgerAssumption
  <2>2. QED  BY <1>2, <1>6, <2>1
<1>11. {x[2] : x \in {y \in OverdueDisbursements : y[1] = f}} = Prevus(f)
  <2>1. \A g \in Financements : \A n \in Prevus(g) : <<g, n>> \in OverdueDisbursements
    BY DEF OverdueDisbursements
  <2>2. ASSUME NEW n \in Prevus(f)
        PROVE  n \in {x[2] : x \in {y \in OverdueDisbursements : y[1] = f}}
    <3>1. <<f, n>> \in {y \in OverdueDisbursements : y[1] = f}  BY <2>1
    <3>2. <<f, n>>[2] = n  OBVIOUS
    <3>3. QED  BY <3>1, <3>2
  <2>3. ASSUME NEW x \in OverdueDisbursements, x[1] = f
        PROVE  x[2] \in Prevus(f)
    <3>1. PICK g \in Financements : x \in {g} \X Prevus(g)  BY DEF OverdueDisbursements
    <3>2. x[1] = g /\ x[2] \in Prevus(g)  BY <3>1
    <3>3. QED  BY <2>3, <3>2
  <2>4. QED  BY <2>2, <2>3
<1>12. PageDirection(f).disbursed + PageDirection(f).remainingDisbursement
         + Total([n \in Prevus(f) |-> decaissements[f][n].montant]) = MontantAccorde[f]
  <2>1. PICK t : t = Total([n \in Prevus(f) |-> decaissements[f][n].montant])  OBVIOUS
  <2>2. Engage(f) = MontantDecaisse(f) + t  BY <2>1, PrevusComptes
  <2>3. t \in Int  BY <2>1, PrevusComptes
  <2>4. QED  BY <1>2, <1>6, <2>1, <2>2, <2>3
<1> HIDE DEF D, ouvertes, rendu
<1>13. QED  BY <1>4, <1>5, <1>6, <1>9, <1>10, <1>11, <1>12

\* One case per statement of a handler.
LEMMA DeclarationsStep == IInv /\ Declarations /\ [Next]_vars => Declarations'
<1> SUFFICES ASSUME IInv, Declarations, [Next]_vars PROVE Declarations'
  OBVIOUS
<1>1. CASE UNCHANGED vars
  BY <1>1 DEF vars, Declarations, Declaration, Inscrite, Partner, EcheanceDuFinancement, Repayment
<1>2. ASSUME NEW r \in Requetes, Etape(r) PROVE Declarations'
  BY <1>2, EtapeDeclarations
<1>3. QED  BY <1>1, <1>2 DEF Next, Etape, Finished

\* Every declaration a partner sees accepted has its row, whatever ran beside it.
THEOREM DeclarationsInscrites == Spec => []Declarations
<1>1. QED  BY InvInit, InvStep, DeclarationsInit, DeclarationsStep, PTL DEF Spec

\* ImpayeMinore: whatever has been paid, in whatever order, and whichever
\* instalments are past, the arrears of the executive dashboard, its alerts and
\* its breakdown by bank say the same, and no more than what is late.
THEOREM ImpayeMinoreTheorem == Spec => []ArrieresFideles /\ []ImpayeMinore
<1>1. TypeOK /\ EcheanceNonSurpayee => ArrieresFideles
  BY ArrieresVrais
<1>2. Spec => []ArrieresFideles  BY <1>1, VerrousCorrects, PlafondsRespectes, PTL
<1>3. ArrieresFideles => ImpayeMinore  BY DEF ImpayeMinore
<1>4. QED  BY <1>2, <1>3, PTL

\* MontantsAffiches: the partner's list of what is to come names only what can
\* still be paid and leaves something out only for want of room, the earliest
\* first; its totals count each of its declarations, and the balances of the
\* two detail pages are those the API checks under the lock.
THEOREM MontantsAffichesTheorem ==
  Spec => []AVenirFidele /\ []SoldesExacts /\ []MontantsAffiches
<1>1. TypeOK /\ PlafondRespecte /\ EcheanceNonSurpayee /\ StatutSuitPaiements /\ Declarations
        => AVenirFidele /\ SoldesExacts
  BY AVenirFideleVrai, SoldesExactsVrai
<1>2. Spec => []AVenirFidele /\ []SoldesExacts
  BY <1>1, VerrousCorrects, PlafondsRespectes, StatutCorrect, DeclarationsInscrites, PTL
<1>3. AVenirFidele /\ SoldesExacts => MontantsAffiches  BY DEF MontantsAffiches
<1>4. QED  BY <1>2, <1>3, PTL

-------------------------------------------------------------------------------
(* The bank reconciliation.  Row locks make what matchEntry read hold when it *)
(* inserts; the history of the ledger keeps what it inserted true.            *)

\* An agent holds the line, or the operation, that no other agent holds.
VerrousExclusifs ==
  \A a, b \in Agents : a # b =>
    /\ TientMouvement(a) /\ TientMouvement(b) => M(a) # M(b)
    /\ TientOperation(a) /\ TientOperation(b) => O(a) # O(b)

\* What an operation has become stays so.
Executee(o) == existe(o) /\ executee(o)

\* What matchEntry has checked so far still holds.
Verifie(a) ==
  /\ appel[a].etape # "libre" => O(a) \in OperationsBancaires
  /\ TientMouvement(a) => M(a) \in DOMAIN mouvements
  /\ appel[a].etape \in {"sansDoublon", "operation", "concorde"} => ~MouvementRapproche(M(a))
  /\ TientOperation(a) => Executee(O(a))
  /\ appel[a].etape = "concorde" => ~OperationRapprochee(O(a)) /\ Concorde(M(a), O(a))

\* What the page shows, or has read, was recorded and executed.
EcranVrai(a) ==
  /\ ecran[a].entrees \subseteq DOMAIN mouvements
  /\ \A S \in ecran[a].luEntrees : S \subseteq DOMAIN mouvements
  /\ \A o \in ecran[a].candidats : Executee(o)
  /\ \A S \in ecran[a].luCandidats : \A o \in S : Executee(o)

\* What the page asks for agrees.
AppelVrai(a) ==
  appel[a].etape # "libre" =>
    /\ M(a) \in DOMAIN mouvements /\ O(a) \in OperationsBancaires
    /\ Executee(O(a)) /\ Concorde(M(a), O(a))

RapprochementInv ==
  /\ RapprochementTypeOK
  /\ VerrousExclusifs
  /\ \A a \in Agents : Verifie(a)
  /\ \A a \in ParLaPage : EcranVrai(a) /\ AppelVrai(a)
  /\ \A r \in rapprochements : r.mouvement \in DOMAIN mouvements
  /\ RapprochementFidele
  /\ RefusExplique

\* What an operation is made of.
LEMMA OperationForme ==
  ASSUME NEW o \in OperationsBancaires
  PROVE  \/ o[1] = "DECAISSEMENT" /\ o[2] \in Financements /\ o[3] \in Nat
         \/ o[1] = "REMBOURSEMENT" /\ o[2] \in Echeances /\ o[3] \in Nat
<1>1. CASE o \in UNION {{<<"DECAISSEMENT", f, n>> : n \in 1..MontantAccorde[f]} : f \in Financements}
  <2>1. PICK f \in Financements : o \in {<<"DECAISSEMENT", f, n>> : n \in 1..MontantAccorde[f]}
    BY <1>1
  <2>2. PICK n \in 1..MontantAccorde[f] : o = <<"DECAISSEMENT", f, n>>
    BY <2>1
  <2> QED
    BY <2>2, LedgerAssumption
<1>2. CASE o \in UNION {{<<"REMBOURSEMENT", e, n>> : n \in 1..MontantTotalDu[e]} : e \in Echeances}
  <2>1. PICK e \in Echeances : o \in {<<"REMBOURSEMENT", e, n>> : n \in 1..MontantTotalDu[e]}
    BY <1>2
  <2>2. PICK n \in 1..MontantTotalDu[e] : o = <<"REMBOURSEMENT", e, n>>
    BY <2>1
  <2> QED
    BY <2>2, LedgerAssumption
<1> QED
  BY <1>1, <1>2 DEF OperationsBancaires

\* Statement lines are only added.
MouvementsConserves ==
  /\ DOMAIN mouvements \subseteq DOMAIN mouvements'
  /\ \A m \in DOMAIN mouvements : mouvements'[m] = mouvements[m]

\* An operation that exists keeps its amount, and one that is executed stays so.
LEMMA OperationConservee ==
  ASSUME LedgerTypeOK, LedgerTypeOK', [Conserve]_ledgerVars,
         NEW o \in OperationsBancaires, existe(o)
  PROVE  existe(o)' /\ montant(o)' = montant(o) /\ (executee(o) => executee(o)')
<1>1. CASE UNCHANGED ledgerVars
  BY <1>1 DEF ledgerVars, existe, montant, executee, Lignes
<1>2. CASE Conserve
  <2>1. CASE o[1] = "DECAISSEMENT" /\ o[2] \in Financements /\ o[3] \in Nat
    <3>0. PICK f \in Financements, n \in Nat : f = o[2] /\ n = o[3]
      BY <2>1
    <3>1. decaissements[f] \in Seq(Decaissement) /\ n \in 1..Len(decaissements[f])
      BY <2>1, <3>0 DEF existe, Lignes, LedgerTypeOK
    <3>2. /\ Len(decaissements[f]) <= Len(decaissements'[f])
          /\ decaissements'[f][n].montant = decaissements[f][n].montant
          /\ decaissements[f][n].statut = "EFFECTUE"
                 => decaissements'[f][n] = decaissements[f][n]
      BY <1>2, <3>1 DEF Conserve
    <3>3. n \in DOMAIN decaissements'[f]
      BY <3>1, <3>2 DEF LedgerTypeOK
    <3> QED
      BY <2>1, <3>0, <3>2, <3>3 DEF existe, montant, executee, Lignes
  <2>2. CASE o[1] = "REMBOURSEMENT" /\ o[2] \in Echeances /\ o[3] \in Nat
    <3>0. PICK e \in Echeances, n \in Nat : e = o[2] /\ n = o[3]
      BY <2>2
    <3>1. remboursements[e] \in Seq(Nat) /\ n \in 1..Len(remboursements[e])
      BY <2>2, <3>0 DEF existe, Lignes, LedgerTypeOK
    <3>2. /\ Len(remboursements[e]) <= Len(remboursements'[e])
          /\ remboursements'[e][n] = remboursements[e][n]
      BY <1>2, <3>1 DEF Conserve
    <3>3. n \in DOMAIN remboursements'[e]
      BY <3>1, <3>2 DEF LedgerTypeOK
    <3> QED
      BY <2>2, <3>0, <3>2, <3>3 DEF existe, montant, executee, Lignes
  <2> QED
    BY OperationForme, <2>1, <2>2
<1> QED
  BY <1>1, <1>2

\* Whatever the ledger and the statement do, what was checked stays true.
LEMMA Stabilite ==
  ASSUME LedgerTypeOK, LedgerTypeOK', [Conserve]_ledgerVars, MouvementsConserves,
         NEW o \in OperationsBancaires
  PROVE  /\ Executee(o) => Executee(o)'
         /\ \A m \in DOMAIN mouvements :
              Executee(o) /\ Concorde(m, o) => Concorde(m, o)'
<1>1. existe(o) => existe(o)' /\ montant(o)' = montant(o) /\ (executee(o) => executee(o)')
  BY OperationConservee
<1>2. Executee(o) => Executee(o)'
  BY <1>1 DEF Executee
<1>3. ASSUME NEW m \in DOMAIN mouvements, Executee(o), Concorde(m, o)
      PROVE  Concorde(m, o)'
  <2>1. montant(o)' = montant(o) /\ mouvements'[m] = mouvements[m]
    BY <1>1, <1>3 DEF Executee, MouvementsConserves
  <2> QED
    BY <1>3, <2>1 DEF Concorde, banque, sensAttendu
<1> QED
  BY <1>2, <1>3

-------------------------------------------------------------------------------
\* What a call holds is of its types.
LEMMA AppelType ==
  ASSUME RapprochementTypeOK, NEW a \in Agents
  PROVE  /\ appel[a].etape \in Etapes /\ appel[a].mouvement \in 0..MaxMouvements
         /\ appel[a].operation \in OperationsBancaires \cup {Personne}
         /\ appel[a].issue \in Issues
  BY DEF RapprochementTypeOK, Appel

\* A call that goes on.
LEMMA AvancerType ==
  ASSUME RapprochementTypeOK, NEW a \in Agents, NEW e \in Etapes, Avancer(a, e)
  PROVE  /\ appel' \in [Agents -> Appel]
         /\ appel'[a].etape = e /\ M(a)' = M(a) /\ O(a)' = O(a) /\ appel'[a].issue = appel[a].issue
         /\ \A b \in Agents \ {a} : appel'[b] = appel[b]
<1> DEFINE nouveau == [appel[a] EXCEPT !.etape = e]
<1>1. appel \in [Agents -> Appel] /\ appel[a] \in Appel
  BY DEF RapprochementTypeOK
<1>2. nouveau \in Appel /\ nouveau.etape = e /\ nouveau.mouvement = appel[a].mouvement
      /\ nouveau.operation = appel[a].operation /\ nouveau.issue = appel[a].issue
  BY <1>1 DEF Appel
<1>3. appel' = [appel EXCEPT ![a] = nouveau]
  BY DEF Avancer
<1> HIDE DEF nouveau
<1> QED
  BY <1>1, <1>2, <1>3 DEF M, O

\* A call that ends.
LEMMA FinirType ==
  ASSUME RapprochementTypeOK, NEW a \in Agents, NEW i \in Issues, Finir(a, i)
  PROVE  /\ appel' \in [Agents -> Appel]
         /\ appel'[a].etape = "libre" /\ appel'[a].issue = i
         /\ \A b \in Agents \ {a} : appel'[b] = appel[b]
<1> DEFINE nouveau == Repos(i)
<1>1. appel \in [Agents -> Appel]
  BY DEF RapprochementTypeOK
<1>2. nouveau \in Appel /\ nouveau.etape = "libre" /\ nouveau.issue = i
  BY RapprochementAssumption DEF Appel, Repos, Etapes
<1>3. appel' = [appel EXCEPT ![a] = nouveau]
  BY DEF Finir
<1> HIDE DEF nouveau
<1> QED
  BY <1>1, <1>2, <1>3

\* A step of matchEntry goes on or ends.
LEMMA MatchEntryCas ==
  ASSUME RapprochementTypeOK, NEW a \in Agents, matchEntry(a)
  PROVE  /\ appel' \in [Agents -> Appel]
         /\ \A b \in Agents \ {a} : appel'[b] = appel[b]
         /\ UNCHANGED <<ledgerVars, mouvements, ecran, appels>>
         /\ rapprochements' \subseteq rapprochements \cup {[mouvement |-> M(a), operation |-> O(a)]}
<1>1. PICK e \in Etapes, i \in Issues : Avancer(a, e) \/ Finir(a, i)
  BY DEF matchEntry, VerrouillerMouvement, ChercherMouvement, VerrouillerOperation, ChercherOperation,
         Inserer, refusOperation, refusConcordance, Etapes, Issues
<1>2. UNCHANGED <<ledgerVars, mouvements, ecran, appels>>
      /\ rapprochements' \subseteq rapprochements \cup {[mouvement |-> M(a), operation |-> O(a)]}
  BY DEF matchEntry, VerrouillerMouvement, ChercherMouvement, VerrouillerOperation, ChercherOperation,
         Inserer
<1> QED
  BY <1>1, <1>2, AvancerType, FinirType

\* The tables of the ledger are those of Ledger throughout.
Evolution == LedgerTypeOK' /\ [Conserve]_ledgerVars /\ MouvementsConserves

\* What a call that does not move has checked stays true, unless another matches
\* what it holds.
LEMMA VerifieConserve ==
  ASSUME RapprochementTypeOK, Evolution, NEW a \in Agents, Verifie(a), appel'[a] = appel[a],
         \A r \in rapprochements' : r \in rapprochements
           \/ /\ TientMouvement(a) => r.mouvement # M(a)
              /\ TientOperation(a) => r.operation # O(a)
  PROVE  Verifie(a)'
<1>1. /\ M(a)' = M(a) /\ O(a)' = O(a) /\ appel'[a].etape = appel[a].etape
      /\ TientMouvement(a)' = TientMouvement(a) /\ TientOperation(a)' = TientOperation(a)
  BY DEF M, O, TientMouvement, TientOperation
<1>2. TientMouvement(a)' => M(a)' \in DOMAIN mouvements'
  BY <1>1 DEF Verifie, Evolution, MouvementsConserves
<1>3. ASSUME appel'[a].etape \in {"sansDoublon", "operation", "concorde"}
      PROVE  ~MouvementRapproche(M(a))'
  <2>1. TientMouvement(a) /\ ~MouvementRapproche(M(a))
    BY <1>1, <1>3 DEF Verifie, TientMouvement
  <2>2. \A r \in rapprochements' : r.mouvement # M(a)
    BY <2>1 DEF MouvementRapproche
  <2> QED
    BY <1>1, <2>2 DEF MouvementRapproche
<1>4. LedgerTypeOK /\ LedgerTypeOK' /\ [Conserve]_ledgerVars /\ MouvementsConserves
  BY DEF RapprochementTypeOK, Evolution
<1>5. ASSUME TientOperation(a)'
      PROVE  Executee(O(a))'
  <2>1. PICK o \in OperationsBancaires : o = O(a) /\ Executee(o)
    BY <1>1, <1>5 DEF Verifie, TientOperation
  <2>2. Executee(o)'
    BY <1>4, <2>1, Stabilite
  <2>3. O(a)' = o
    BY <1>1, <2>1
  <2> QED
    BY <2>2, <2>3 DEF Executee, existe, executee, Lignes
<1>6. ASSUME appel'[a].etape = "concorde"
      PROVE  ~OperationRapprochee(O(a))' /\ Concorde(M(a), O(a))'
  <2>1. TientOperation(a) /\ TientMouvement(a) /\ ~OperationRapprochee(O(a)) /\ Concorde(M(a), O(a))
    BY <1>1, <1>6 DEF Verifie, TientOperation, TientMouvement
  <2>2. \A r \in rapprochements' : r.operation # O(a)
    BY <2>1 DEF OperationRapprochee
  <2>3. PICK o \in OperationsBancaires, m \in DOMAIN mouvements :
          o = O(a) /\ m = M(a) /\ Executee(o) /\ Concorde(m, o)
    BY <2>1 DEF Verifie, TientOperation
  <2>4. Concorde(m, o)'
    BY <1>4, <2>3, Stabilite
  <2>5. O(a)' = o /\ M(a)' = m
    BY <1>1, <2>3
  <2>6. ~OperationRapprochee(O(a))'
    BY <1>1, <2>2 DEF OperationRapprochee
  <2>7. Concorde(M(a), O(a))'
    BY <2>4, <2>5 DEF Concorde, banque, sensAttendu, montant, Lignes
  <2> QED
    BY <2>6, <2>7
<1>7. appel'[a].etape # "libre" => O(a)' \in OperationsBancaires
  BY <1>1 DEF Verifie
<1> QED
  BY <1>2, <1>3, <1>5, <1>6, <1>7 DEF Verifie

\* A page that is not read again stays true.
LEMMA EcranConserve ==
  ASSUME RapprochementTypeOK, Evolution, NEW a \in Agents, EcranVrai(a), ecran'[a] = ecran[a]
  PROVE  EcranVrai(a)'
<1>1. LedgerTypeOK /\ LedgerTypeOK' /\ [Conserve]_ledgerVars /\ MouvementsConserves
  BY DEF RapprochementTypeOK, Evolution
<1>2. /\ ecran[a].candidats \subseteq OperationsBancaires
      /\ \A S \in ecran[a].luCandidats : S \subseteq OperationsBancaires
  BY DEF RapprochementTypeOK, Ecran, Liste
<1>3. \A o \in OperationsBancaires : Executee(o) => Executee(o)'
  BY <1>1, Stabilite
<1> QED
  BY <1>1, <1>2, <1>3 DEF EcranVrai, MouvementsConserves

\* Nor does what it asked for stop agreeing.
LEMMA AppelConserve ==
  ASSUME RapprochementTypeOK, Evolution, NEW a \in Agents, AppelVrai(a), M(a)' = M(a), O(a)' = O(a),
         appel[a].etape # "libre"
  PROVE  AppelVrai(a)'
<1>1. LedgerTypeOK /\ LedgerTypeOK' /\ [Conserve]_ledgerVars /\ MouvementsConserves
  BY DEF RapprochementTypeOK, Evolution
<1>2. PICK o \in OperationsBancaires, m \in DOMAIN mouvements :
        o = O(a) /\ m = M(a) /\ Executee(o) /\ Concorde(m, o)
  BY DEF AppelVrai
<1>3. Executee(o)' /\ Concorde(m, o)' /\ m \in DOMAIN mouvements'
  BY <1>1, <1>2, Stabilite DEF MouvementsConserves
<1>4. O(a)' = o /\ M(a)' = m
  BY <1>2
<1>5. Executee(O(a))' /\ Concorde(M(a), O(a))'
  BY <1>3, <1>4 DEF Executee, existe, executee, Lignes, Concorde, banque, sensAttendu, montant
<1> QED
  BY <1>3, <1>4, <1>5 DEF AppelVrai

\* The matches recorded so far stay true.
LEMMA FideleConserve ==
  ASSUME RapprochementTypeOK, Evolution, RapprochementFidele, NEW r \in rapprochements,
         r.mouvement \in DOMAIN mouvements
  PROVE  Executee(r.operation)' /\ Concorde(r.mouvement, r.operation)'
<1>1. LedgerTypeOK /\ LedgerTypeOK' /\ [Conserve]_ledgerVars /\ MouvementsConserves
  BY DEF RapprochementTypeOK, Evolution
<1>2. PICK o \in OperationsBancaires, m \in DOMAIN mouvements : o = r.operation /\ m = r.mouvement
  BY DEF RapprochementTypeOK
<1>3. Executee(o) /\ Concorde(m, o)
  BY <1>2 DEF RapprochementFidele, Executee
<1>4. Executee(o)' /\ Concorde(m, o)'
  BY <1>1, <1>3, Stabilite
<1>5. r.operation = o /\ r.mouvement = m
  BY <1>2
<1> QED
  BY <1>4, <1>5

\* A step that matches nothing and leaves the calls alone.
LEMMA AppelsInchanges ==
  ASSUME RapprochementInv, RapprochementTypeOK', Evolution,
         UNCHANGED <<rapprochements, appel>>,
         \A a \in ParLaPage : EcranVrai(a)'
  PROVE  RapprochementInv'
<1>1. VerrousExclusifs'
  BY DEF RapprochementInv, VerrousExclusifs, TientMouvement, TientOperation, M, O
<1>2. \A a \in Agents : Verifie(a)'
  <2>1. SUFFICES ASSUME NEW a \in Agents PROVE Verifie(a)'
    OBVIOUS
  <2>2. Verifie(a) /\ RapprochementTypeOK /\ appel'[a] = appel[a] /\ rapprochements' = rapprochements
    BY DEF RapprochementInv
  <2> QED
    BY <2>2, VerifieConserve
<1>3. \A a \in ParLaPage : AppelVrai(a)'
  <2>1. SUFFICES ASSUME NEW a \in ParLaPage PROVE AppelVrai(a)'
    OBVIOUS
  <2>2. AppelVrai(a) /\ RapprochementTypeOK /\ a \in Agents
    BY RapprochementAssumption DEF RapprochementInv
  <2>3. M(a)' = M(a) /\ O(a)' = O(a) /\ appel'[a].etape = appel[a].etape
    BY DEF M, O
  <2>4. CASE appel[a].etape = "libre"
    BY <2>3, <2>4 DEF AppelVrai
  <2> QED
    BY <2>2, <2>3, <2>4, AppelConserve
<1>4. RapprochementFidele'
  <2>1. ASSUME NEW r \in rapprochements'
        PROVE  Executee(r.operation)' /\ Concorde(r.mouvement, r.operation)'
    BY <2>1, FideleConserve DEF RapprochementInv
  <2>2. \A r, t \in rapprochements' : r.mouvement = t.mouvement \/ r.operation = t.operation => r = t
    BY DEF RapprochementInv, RapprochementFidele
  <2> QED
    BY <2>1, <2>2 DEF RapprochementFidele, Executee
<1>5. \A r \in rapprochements' : r.mouvement \in DOMAIN mouvements'
  BY DEF RapprochementInv, Evolution, MouvementsConserves
<1>6. RefusExplique'
  BY DEF RapprochementInv, RefusExplique
<1> QED
  BY <1>1, <1>2, <1>3, <1>4, <1>5, <1>6 DEF RapprochementInv

\* A step of the ledger, or none, is one of Ledger's.
LEMMA EvolutionLedger ==
  ASSUME RapprochementTypeOK, [LedgerNext]_ledgerVars, MouvementsConserves
  PROVE  Evolution
  BY LedgerTypeStep, EtapeConserve DEF RapprochementTypeOK, Evolution

LEMMA LedgerAvanceInv ==
  ASSUME RapprochementInv, LedgerAvance PROVE RapprochementInv'
<1>1. LedgerNext /\ UNCHANGED rapVars
  BY DEF LedgerAvance, LedgerNext
<1>2. MouvementsConserves
  BY <1>1 DEF MouvementsConserves, rapVars
<1>3. RapprochementTypeOK /\ Evolution
  BY <1>1, <1>2, EvolutionLedger DEF RapprochementInv
<1>4. RapprochementTypeOK'
  BY <1>1, <1>3 DEF RapprochementTypeOK, Evolution, rapVars
<1>5. ASSUME NEW a \in ParLaPage PROVE EcranVrai(a)'
  BY <1>1, <1>3, EcranConserve, RapprochementAssumption DEF RapprochementInv, rapVars
<1> QED
  BY <1>1, <1>3, <1>4, <1>5, AppelsInchanges DEF rapVars

LEMMA CreateEntryInv ==
  ASSUME RapprochementInv, NEW m \in Releves, createEntry(m) PROVE RapprochementInv'
<1>1. /\ mouvements \in Seq(Releves) /\ Len(mouvements) < MaxMouvements /\ MaxMouvements \in Nat
      /\ mouvements' = Append(mouvements, m)
      /\ UNCHANGED <<ledgerVars, rapprochements, appel, ecran, appels>>
  BY RapprochementAssumption DEF RapprochementInv, RapprochementTypeOK, createEntry
<1>2. mouvements' \in Seq(Releves) /\ Len(mouvements') <= MaxMouvements /\ MouvementsConserves
  BY <1>1 DEF MouvementsConserves
<1>3. RapprochementTypeOK /\ Evolution
  BY <1>1, <1>2, EvolutionLedger DEF RapprochementInv
<1>4. RapprochementTypeOK'
  BY <1>1, <1>2, <1>3 DEF RapprochementTypeOK, Evolution
<1>5. ASSUME NEW a \in ParLaPage PROVE EcranVrai(a)'
  BY <1>1, <1>3, EcranConserve, RapprochementAssumption DEF RapprochementInv
<1> QED
  BY <1>1, <1>3, <1>4, <1>5, AppelsInchanges

\* The two lists, when they are read.
LEMMA ListesVraies ==
  ASSUME RapprochementTypeOK
  PROVE  /\ EntreesARapprocher \subseteq DOMAIN mouvements
         /\ EntreesARapprocher \subseteq 1..MaxMouvements
         /\ candidats \subseteq OperationsBancaires
         /\ \A o \in candidats : Executee(o)
<1>1. DOMAIN mouvements = 1..Len(mouvements) /\ Len(mouvements) \in Nat
      /\ Len(mouvements) <= MaxMouvements /\ MaxMouvements \in Nat
  BY RapprochementAssumption DEF RapprochementTypeOK
<1>2. EntreesARapprocher \subseteq DOMAIN mouvements
  BY DEF EntreesARapprocher
<1>3. DOMAIN mouvements \subseteq 1..MaxMouvements
  BY <1>1
<1>4. candidats \subseteq OperationsBancaires /\ \A o \in candidats : Executee(o)
  BY DEF candidats, Executee
<1> QED
  BY <1>2, <1>3, <1>4

LEMMA OverviewInv ==
  ASSUME RapprochementInv, NEW a \in Agents, overview(a) PROVE RapprochementInv'
<1>1. /\ RapprochementTypeOK /\ a \in ParLaPage /\ EcranVrai(a)
      /\ ecran \in [Agents -> Ecran] /\ ecran[a] \in Ecran
      /\ UNCHANGED <<ledgerVars, mouvements, rapprochements, appel, appels>>
  BY DEF RapprochementInv, RapprochementTypeOK, overview
<1>2. MouvementsConserves
  BY <1>1 DEF MouvementsConserves
<1>3. Evolution
  BY <1>1, <1>2, EvolutionLedger
<1>4. PICK e \in Ecran :
        /\ ecran' = [ecran EXCEPT ![a] = e]
        /\ e.entrees \subseteq DOMAIN mouvements
        /\ \A S \in e.luEntrees : S \subseteq DOMAIN mouvements
        /\ \A o \in e.candidats : Executee(o)
        /\ \A S \in e.luCandidats : \A o \in S : Executee(o)
  <2>1. PICK es \in SUBSET (1..MaxMouvements), cs \in SUBSET OperationsBancaires :
          /\ es = EntreesARapprocher /\ cs = candidats
          /\ es \subseteq DOMAIN mouvements /\ \A o \in cs : Executee(o)
    BY <1>1, ListesVraies
  <2>2. CASE ecran' = [ecran EXCEPT ![a].luEntrees = {es}]
    <3> DEFINE e == [ecran[a] EXCEPT !.luEntrees = {es}]
    <3>1. e \in Ecran /\ e.entrees = ecran[a].entrees /\ e.candidats = ecran[a].candidats
          /\ e.luEntrees = {es} /\ e.luCandidats = ecran[a].luCandidats
      BY <1>1 DEF Ecran, Liste
    <3>2. ecran' = [ecran EXCEPT ![a] = e]
      BY <2>2
    <3> HIDE DEF e
    <3> QED
      BY <1>1, <2>1, <3>1, <3>2 DEF EcranVrai
  <2>3. CASE ecran' = [ecran EXCEPT ![a].luCandidats = {cs}]
    <3> DEFINE e == [ecran[a] EXCEPT !.luCandidats = {cs}]
    <3>1. e \in Ecran /\ e.entrees = ecran[a].entrees /\ e.candidats = ecran[a].candidats
          /\ e.luEntrees = ecran[a].luEntrees /\ e.luCandidats = {cs}
      BY <1>1 DEF Ecran, Liste
    <3>2. ecran' = [ecran EXCEPT ![a] = e]
      BY <2>3
    <3> HIDE DEF e
    <3> QED
      BY <1>1, <2>1, <3>1, <3>2 DEF EcranVrai
  <2>4. ASSUME NEW x \in SUBSET (1..MaxMouvements), NEW y \in SUBSET OperationsBancaires,
               x \subseteq DOMAIN mouvements, \A o \in y : Executee(o), Afficher(a, x, y)
        PROVE  \E e \in Ecran :
                 /\ ecran' = [ecran EXCEPT ![a] = e]
                 /\ e.entrees \subseteq DOMAIN mouvements
                 /\ \A S \in e.luEntrees : S \subseteq DOMAIN mouvements
                 /\ \A o \in e.candidats : Executee(o)
                 /\ \A S \in e.luCandidats : \A o \in S : Executee(o)
    <3> DEFINE e == [entrees |-> x, candidats |-> y, luEntrees |-> {}, luCandidats |-> {}]
    <3>1. e \in Ecran /\ e.entrees = x /\ e.candidats = y /\ e.luEntrees = {} /\ e.luCandidats = {}
      BY DEF Ecran, Liste
    <3>2. ecran' = [ecran EXCEPT ![a] = e]
      BY <2>4 DEF Afficher
    <3> HIDE DEF e
    <3> QED
      BY <2>4, <3>1, <3>2
  <2>5. CASE lireSeconde(a)
    <3>1. \/ \E x \in ecran[a].luEntrees : Afficher(a, x, cs)
          \/ \E y \in ecran[a].luCandidats : Afficher(a, es, y)
      BY <2>1, <2>5 DEF lireSeconde
    <3>2. \A x \in ecran[a].luEntrees : x \in SUBSET (1..MaxMouvements) /\ x \subseteq DOMAIN mouvements
      BY <1>1 DEF Ecran, Liste, EcranVrai
    <3>3. \A y \in ecran[a].luCandidats : y \in SUBSET OperationsBancaires /\ \A o \in y : Executee(o)
      BY <1>1 DEF Ecran, Liste, EcranVrai
    <3> QED
      BY <2>1, <2>4, <3>1, <3>2, <3>3
  <2> QED
    BY <2>1, <2>2, <2>3, <2>5 DEF overview, lirePremiere
<1>5. ecran' \in [Agents -> Ecran] /\ ecran'[a] = e /\ \A b \in Agents \ {a} : ecran'[b] = ecran[b]
  BY <1>1, <1>4
<1>6. RapprochementTypeOK'
  BY <1>1, <1>3, <1>5 DEF RapprochementTypeOK, Evolution
<1>7. ASSUME NEW b \in ParLaPage PROVE EcranVrai(b)'
  <2>1. CASE b = a
    <3>1. \A o \in OperationsBancaires : Executee(o) => Executee(o)'
      BY <1>1, <1>3, Stabilite DEF RapprochementTypeOK, Evolution
    <3>2. e.candidats \subseteq OperationsBancaires
          /\ \A S \in e.luCandidats : S \subseteq OperationsBancaires
      BY DEF Ecran, Liste
    <3>3. mouvements' = mouvements
      BY <1>1
    <3> QED
      BY <1>4, <1>5, <2>1, <3>1, <3>2, <3>3 DEF EcranVrai
  <2>2. CASE b # a
    <3>1. b \in Agents /\ EcranVrai(b) /\ ecran'[b] = ecran[b]
      BY <1>5, <2>2, RapprochementAssumption DEF RapprochementInv
    <3> QED
      BY <1>1, <1>3, <3>1, EcranConserve
  <2> QED
    BY <2>1, <2>2
<1> QED
  BY <1>1, <1>3, <1>6, <1>7, AppelsInchanges

\* A new call holds nothing yet.
LEMMA DemanderInv ==
  ASSUME RapprochementInv, NEW a \in Agents, NEW m \in {0} \cup DOMAIN mouvements,
         NEW o \in OperationsBancaires, Demander(a, m, o)
  PROVE  RapprochementInv'
<1> DEFINE nouveau == [etape |-> "recu", mouvement |-> m, operation |-> o, issue |-> ""]
<1>1. /\ RapprochementTypeOK /\ appel \in [Agents -> Appel] /\ appel[a].etape = "libre"
      /\ appels < MaxAppels /\ appels \in 0..MaxAppels /\ MaxAppels \in Nat
      /\ appel' = [appel EXCEPT ![a] = nouveau] /\ appels' = appels + 1
      /\ UNCHANGED <<ledgerVars, mouvements, rapprochements, ecran>>
  BY RapprochementAssumption DEF RapprochementInv, RapprochementTypeOK, Demander
<1>2. m \in 0..MaxMouvements
  <2>1. mouvements \in Seq(Releves) /\ Len(mouvements) <= MaxMouvements /\ MaxMouvements \in Nat
    BY <1>1, RapprochementAssumption DEF RapprochementTypeOK
  <2>2. DOMAIN mouvements = 1..Len(mouvements) /\ Len(mouvements) \in Nat
    BY <2>1
  <2> QED
    BY <2>1, <2>2
<1>3. nouveau \in Appel /\ nouveau.etape = "recu" /\ nouveau.mouvement = m /\ nouveau.operation = o
      /\ nouveau.issue = ""
  BY <1>2 DEF Appel, Etapes, Issues
<1> HIDE DEF nouveau
<1>4. /\ appel' \in [Agents -> Appel] /\ appel'[a].etape = "recu" /\ M(a)' = m /\ O(a)' = o
      /\ appel'[a].issue = "" /\ \A b \in Agents \ {a} : appel'[b] = appel[b]
  BY <1>1, <1>3 DEF M, O
<1>5. MouvementsConserves
  BY <1>1 DEF MouvementsConserves
<1>6. Evolution
  BY <1>1, <1>5, EvolutionLedger
<1>7. RapprochementTypeOK'
  <2>1. appels' \in 0..MaxAppels
    BY <1>1
  <2> QED
    BY <1>1, <1>4, <1>6, <2>1 DEF RapprochementTypeOK, Evolution
<1>8. ~TientMouvement(a)' /\ ~TientOperation(a)'
  BY <1>4 DEF TientMouvement, TientOperation
<1>9. \A b \in Agents \ {a} : /\ TientMouvement(b)' = TientMouvement(b) /\ M(b)' = M(b)
                              /\ TientOperation(b)' = TientOperation(b) /\ O(b)' = O(b)
  BY <1>4 DEF TientMouvement, TientOperation, M, O
<1>10. VerrousExclusifs'
  BY <1>8, <1>9 DEF VerrousExclusifs, RapprochementInv
<1>11. ASSUME NEW b \in Agents PROVE Verifie(b)'
  <2>1. CASE b = a
    BY <1>4, <1>8, <2>1 DEF Verifie
  <2>2. CASE b # a
    BY <1>1, <1>4, <1>6, <2>2, VerifieConserve DEF RapprochementInv
  <2> QED
    BY <2>1, <2>2
<1>12. ASSUME NEW b \in ParLaPage PROVE EcranVrai(b)' /\ AppelVrai(b)'
  <2>1. b \in Agents /\ EcranVrai(b)'
    BY <1>1, <1>6, EcranConserve, RapprochementAssumption DEF RapprochementInv
  <2>2. CASE b = a
    <3>1. m \in DOMAIN mouvements /\ Executee(o) /\ Concorde(m, o)
      BY <2>2 DEF Demander, exactCandidates, RapprochementInv, EcranVrai
    <3>2. Executee(o)' /\ Concorde(m, o)'
      BY <1>1, <1>6, <3>1, Stabilite DEF RapprochementTypeOK, Evolution
    <3>3. Executee(O(a))' /\ Concorde(M(a), O(a))'
      BY <1>4, <3>2 DEF Executee, existe, executee, Lignes, Concorde, banque, sensAttendu, montant
    <3> QED
      BY <1>1, <1>4, <2>1, <2>2, <3>1, <3>3 DEF AppelVrai
  <2>3. CASE b # a
    <3>1. AppelVrai(b) /\ appel'[b] = appel[b] /\ M(b)' = M(b) /\ O(b)' = O(b)
      BY <1>4, <1>9, <2>1, <2>3 DEF RapprochementInv
    <3>2. CASE appel[b].etape = "libre"
      BY <2>1, <3>1, <3>2 DEF AppelVrai
    <3> QED
      BY <1>1, <1>6, <2>1, <3>1, <3>2, AppelConserve
  <2> QED
    BY <2>1, <2>2, <2>3
<1>13. RapprochementFidele'
  <2>1. ASSUME NEW r \in rapprochements'
        PROVE  Executee(r.operation)' /\ Concorde(r.mouvement, r.operation)'
    BY <1>1, <1>6, <2>1, FideleConserve DEF RapprochementInv
  <2>2. \A r, t \in rapprochements' : r.mouvement = t.mouvement \/ r.operation = t.operation => r = t
    BY <1>1 DEF RapprochementInv, RapprochementFidele
  <2> QED
    BY <2>1, <2>2 DEF RapprochementFidele, Executee
<1>14. RefusExplique'
  BY <1>4 DEF RapprochementInv, RefusExplique
<1> QED
  BY <1>1, <1>7, <1>10, <1>11, <1>12, <1>13, <1>14 DEF RapprochementInv

\* matchEntry, statement by statement: the call goes on with what it has just
\* checked, ends with an answer, or inserts what nobody else can have inserted.
LEMMA MatchEntryEtapes ==
  ASSUME RapprochementInv, NEW a \in Agents, matchEntry(a)
  PROVE  /\ UNCHANGED <<ledgerVars, mouvements, ecran, appels>>
         /\ appel' \in [Agents -> Appel] /\ \A b \in Agents \ {a} : appel'[b] = appel[b]
         /\ \/ /\ UNCHANGED rapprochements
               /\ M(a)' = M(a) /\ O(a)' = O(a) /\ appel'[a].issue = appel[a].issue
               /\ appel[a].etape # "libre"
               /\ \/ /\ appel'[a].etape = "verrouille" /\ MouvementLibre(a)
                     /\ M(a) \in DOMAIN mouvements
                  \/ /\ appel'[a].etape = "sansDoublon" /\ TientMouvement(a)
                     /\ ~TientOperation(a) /\ ~MouvementRapproche(M(a))
                  \/ /\ appel'[a].etape = "operation" /\ appel[a].etape = "sansDoublon"
                     /\ OperationLibre(a) /\ Executee(O(a))
                  \/ /\ appel'[a].etape = "concorde" /\ appel[a].etape = "operation"
                     /\ ~OperationRapprochee(O(a)) /\ Concorde(M(a), O(a))
            \/ /\ UNCHANGED rapprochements
               /\ appel[a].etape # "libre"
               /\ appel'[a].etape = "libre" /\ appel'[a].issue \in Issues \ {"23505"}
               /\ AppelVrai(a) => appel'[a].issue \in
                    {"", "OK", "ENTRY_ALREADY_MATCHED", "OPERATION_ALREADY_MATCHED"}
            \/ /\ appel[a].etape = "concorde"
               /\ rapprochements' = rapprochements \cup {[mouvement |-> M(a), operation |-> O(a)]}
               /\ appel'[a].etape = "libre" /\ appel'[a].issue = "OK"
<1>1. RapprochementTypeOK /\ Verifie(a) /\ UNCHANGED <<ledgerVars, mouvements, ecran, appels>>
  BY DEF RapprochementInv, matchEntry
<1>2. CASE VerrouillerMouvement(a)
  <2>1. appel[a].etape = "recu" /\ MouvementLibre(a) /\ UNCHANGED rapprochements
    BY <1>2 DEF VerrouillerMouvement
  <2>2. CASE M(a) \in DOMAIN mouvements
    <3>1. Avancer(a, "verrouille") /\ "verrouille" \in Etapes
      BY <1>2, <2>2 DEF VerrouillerMouvement, Etapes
    <3> QED
      BY <1>1, <2>1, <2>2, <3>1, AvancerType
  <2>3. CASE M(a) \notin DOMAIN mouvements
    <3>1. Finir(a, "ENTRY_NOT_FOUND") /\ "ENTRY_NOT_FOUND" \in Issues
      BY <1>2, <2>3 DEF VerrouillerMouvement, Issues
    <3> QED
      BY <1>1, <2>1, <2>3, <3>1, FinirType DEF AppelVrai
  <2> QED
    BY <2>2, <2>3
<1>3. CASE ChercherMouvement(a)
  <2>1. appel[a].etape = "verrouille" /\ UNCHANGED rapprochements
    BY <1>3 DEF ChercherMouvement
  <2>2. CASE ~MouvementRapproche(M(a))
    <3>1. Avancer(a, "sansDoublon") /\ "sansDoublon" \in Etapes
      BY <1>3, <2>2 DEF ChercherMouvement, Etapes
    <3> QED
      BY <1>1, <2>1, <2>2, <3>1, AvancerType DEF TientMouvement, TientOperation
  <2>3. CASE MouvementRapproche(M(a))
    <3>1. Finir(a, "ENTRY_ALREADY_MATCHED") /\ "ENTRY_ALREADY_MATCHED" \in Issues
      BY <1>3, <2>3 DEF ChercherMouvement, Issues
    <3> QED
      BY <1>1, <2>1, <2>3, <3>1, FinirType
  <2> QED
    BY <2>2, <2>3
<1>4. CASE VerrouillerOperation(a)
  <2>1. appel[a].etape = "sansDoublon" /\ OperationLibre(a) /\ UNCHANGED rapprochements
    BY <1>4 DEF VerrouillerOperation
  <2>2. CASE Executee(O(a))
    <3>1. Avancer(a, "operation") /\ "operation" \in Etapes
      BY <1>4, <2>2 DEF VerrouillerOperation, refusOperation, Executee, Etapes
    <3> QED
      BY <1>1, <2>1, <2>2, <3>1, AvancerType
  <2>3. CASE ~Executee(O(a))
    <3>1. PICK i \in {"OPERATION_NOT_FOUND", "OPERATION_NOT_EXECUTED"} : Finir(a, i)
      BY <1>4, <2>3 DEF VerrouillerOperation, refusOperation, Executee
    <3>2. i \in Issues \ {"23505"}
      BY DEF Issues
    <3> QED
      BY <1>1, <2>1, <2>3, <3>1, <3>2, FinirType DEF AppelVrai
  <2> QED
    BY <2>2, <2>3
<1>5. CASE ChercherOperation(a)
  <2>1. appel[a].etape = "operation" /\ UNCHANGED rapprochements
    BY <1>5 DEF ChercherOperation
  <2>2. CASE ~OperationRapprochee(O(a)) /\ Concorde(M(a), O(a))
    <3>1. Avancer(a, "concorde") /\ "concorde" \in Etapes
      BY <1>5, <2>2 DEF ChercherOperation, refusConcordance, Concorde, Etapes
    <3> QED
      BY <1>1, <2>1, <2>2, <3>1, AvancerType
  <2>3. CASE OperationRapprochee(O(a))
    <3>1. Finir(a, "OPERATION_ALREADY_MATCHED") /\ "OPERATION_ALREADY_MATCHED" \in Issues
      BY <1>5, <2>3 DEF ChercherOperation, refusConcordance, Issues
    <3> QED
      BY <1>1, <2>1, <2>3, <3>1, FinirType
  <2>4. CASE ~OperationRapprochee(O(a)) /\ ~Concorde(M(a), O(a))
    <3>1. PICK i \in {"BANK_MISMATCH", "DIRECTION_MISMATCH", "AMOUNT_MISMATCH"} : Finir(a, i)
      BY <1>5, <2>4 DEF ChercherOperation, refusConcordance, Concorde
    <3>2. i \in Issues \ {"23505"}
      BY DEF Issues
    <3> QED
      BY <1>1, <2>1, <2>4, <3>1, <3>2, FinirType DEF AppelVrai
  <2> QED
    BY <2>2, <2>3, <2>4
<1>6. CASE Inserer(a)
  <2>1. appel[a].etape = "concorde" /\ ~MouvementRapproche(M(a)) /\ ~OperationRapprochee(O(a))
    BY <1>1, <1>6 DEF Inserer, Verifie
  <2>2. /\ rapprochements' = rapprochements \cup {[mouvement |-> M(a), operation |-> O(a)]}
        /\ Finir(a, "OK") /\ "OK" \in Issues
    BY <1>6, <2>1 DEF Inserer, Issues
  <2> QED
    BY <1>1, <2>1, <2>2, FinirType
<1> QED
  BY <1>2, <1>3, <1>4, <1>5, <1>6 DEF matchEntry

\* The lines of the ledger that a match of another agent leaves alone.
LEMMA MatchEntryAutres ==
  ASSUME RapprochementInv, NEW a \in Agents, matchEntry(a)
  PROVE  /\ RapprochementTypeOK' /\ RapprochementTypeOK /\ Evolution
         /\ \A b \in Agents \ {a} : Verifie(b)' /\ appel'[b] = appel[b]
         /\ \A b \in ParLaPage : EcranVrai(b)' /\ (b # a => AppelVrai(b)')
         /\ \A r \in rapprochements : /\ Executee(r.operation)'
                                      /\ Concorde(r.mouvement, r.operation)'
<1>1. /\ UNCHANGED <<ledgerVars, mouvements, ecran, appels>>
      /\ appel' \in [Agents -> Appel] /\ \A b \in Agents \ {a} : appel'[b] = appel[b]
      /\ \/ rapprochements' = rapprochements
         \/ /\ appel[a].etape = "concorde"
            /\ rapprochements' = rapprochements \cup {[mouvement |-> M(a), operation |-> O(a)]}
  BY MatchEntryEtapes
<1>2. RapprochementTypeOK /\ MouvementsConserves
  BY <1>1 DEF RapprochementInv, MouvementsConserves
<1>3. Evolution
  BY <1>1, <1>2, EvolutionLedger
<1>4. rapprochements' \subseteq [mouvement: 1..MaxMouvements, operation: OperationsBancaires]
  <2>1. CASE rapprochements' = rapprochements
    BY <1>2, <2>1 DEF RapprochementTypeOK
  <2>2. CASE /\ appel[a].etape = "concorde"
             /\ rapprochements' = rapprochements \cup {[mouvement |-> M(a), operation |-> O(a)]}
    <3>1. M(a) \in DOMAIN mouvements /\ O(a) \in OperationsBancaires
      BY <2>2 DEF RapprochementInv, Verifie, TientMouvement, TientOperation
    <3>2. mouvements \in Seq(Releves) /\ Len(mouvements) <= MaxMouvements /\ MaxMouvements \in Nat
      BY <1>2, RapprochementAssumption DEF RapprochementTypeOK
    <3>3. DOMAIN mouvements = 1..Len(mouvements) /\ Len(mouvements) \in Nat
      BY <3>2
    <3>4. M(a) \in 1..MaxMouvements
      BY <3>1, <3>2, <3>3
    <3> QED
      BY <1>2, <2>2, <3>1, <3>4 DEF RapprochementTypeOK
  <2> QED
    BY <1>1, <2>1, <2>2
<1>5. RapprochementTypeOK'
  BY <1>1, <1>2, <1>3, <1>4 DEF RapprochementTypeOK, Evolution
<1>6. ASSUME NEW b \in Agents \ {a} PROVE Verifie(b)'
  <2>1. Verifie(b) /\ appel'[b] = appel[b]
    BY <1>1 DEF RapprochementInv
  <2>2. ASSUME NEW r \in rapprochements', r \notin rapprochements
        PROVE  (TientMouvement(b) => r.mouvement # M(b)) /\ (TientOperation(b) => r.operation # O(b))
    <3>1. appel[a].etape = "concorde" /\ r.mouvement = M(a) /\ r.operation = O(a)
      BY <1>1, <2>2
    <3> QED
      BY <3>1 DEF RapprochementInv, VerrousExclusifs, TientMouvement, TientOperation
  <2> QED
    BY <1>2, <1>3, <2>1, <2>2, VerifieConserve
<1>7. ASSUME NEW b \in ParLaPage PROVE EcranVrai(b)' /\ (b # a => AppelVrai(b)')
  <2>1. b \in Agents /\ EcranVrai(b) /\ AppelVrai(b) /\ EcranVrai(b)'
    BY <1>1, <1>2, <1>3, EcranConserve, RapprochementAssumption DEF RapprochementInv
  <2>2. ASSUME b # a PROVE AppelVrai(b)'
    <3>1. appel'[b] = appel[b] /\ M(b)' = M(b) /\ O(b)' = O(b)
      BY <1>1, <2>1, <2>2 DEF M, O
    <3>2. CASE appel[b].etape = "libre"
      BY <3>1, <3>2 DEF AppelVrai
    <3> QED
      BY <1>2, <1>3, <2>1, <3>1, <3>2, AppelConserve
  <2> QED
    BY <2>1, <2>2
<1>8. \A r \in rapprochements : Executee(r.operation)' /\ Concorde(r.mouvement, r.operation)'
  BY <1>2, <1>3, FideleConserve DEF RapprochementInv
<1> QED
  BY <1>1, <1>2, <1>3, <1>5, <1>6, <1>7, <1>8

\* A statement of matchEntry that inserts nothing keeps the matches as they are.
LEMMA MatchEntrySansInsertion ==
  ASSUME RapprochementInv, NEW a \in Agents, matchEntry(a), UNCHANGED rapprochements
  PROVE  RapprochementFidele' /\ \A r \in rapprochements' : r.mouvement \in DOMAIN mouvements'
<1>1. \A r \in rapprochements : Executee(r.operation)' /\ Concorde(r.mouvement, r.operation)'
  BY MatchEntryAutres
<1>2. \A r, t \in rapprochements' : r.mouvement = t.mouvement \/ r.operation = t.operation => r = t
  BY DEF RapprochementInv, RapprochementFidele
<1>3. RapprochementFidele'
  BY <1>1, <1>2 DEF RapprochementFidele, Executee
<1> QED
  BY <1>3, MatchEntryEtapes DEF RapprochementInv

LEMMA MatchEntryInv ==
  ASSUME RapprochementInv, NEW a \in Agents, matchEntry(a)
  PROVE  RapprochementInv'
<1>1. /\ RapprochementTypeOK' /\ RapprochementTypeOK /\ Evolution
      /\ \A b \in Agents \ {a} : Verifie(b)' /\ appel'[b] = appel[b]
      /\ \A b \in ParLaPage : EcranVrai(b)' /\ (b # a => AppelVrai(b)')
      /\ \A r \in rapprochements : Executee(r.operation)' /\ Concorde(r.mouvement, r.operation)'
  BY MatchEntryAutres
<1>2. UNCHANGED <<ledgerVars, mouvements, ecran, appels>>
  BY MatchEntryEtapes
<1>3. \A b \in Agents \ {a} : /\ TientMouvement(b)' = TientMouvement(b) /\ M(b)' = M(b)
                              /\ TientOperation(b)' = TientOperation(b) /\ O(b)' = O(b)
  BY <1>1 DEF TientMouvement, TientOperation, M, O
<1>4. ASSUME UNCHANGED rapprochements, M(a)' = M(a), O(a)' = O(a),
             appel'[a].issue = appel[a].issue, appel[a].etape # "libre",
             TientMouvement(a)' => TientMouvement(a) \/ MouvementLibre(a),
             TientOperation(a)' => TientOperation(a) \/ OperationLibre(a),
             Verifie(a)'
      PROVE  RapprochementInv'
  <2>1. VerrousExclusifs'
    BY <1>3, <1>4 DEF RapprochementInv, VerrousExclusifs, MouvementLibre, OperationLibre
  <2>2. ASSUME a \in ParLaPage PROVE AppelVrai(a)'
    BY <1>1, <1>4, <2>2, AppelConserve DEF RapprochementInv
  <2>3. RefusExplique'
    BY <1>1, <1>4 DEF RapprochementInv, RefusExplique
  <2>4. \A b \in ParLaPage : EcranVrai(b)' /\ AppelVrai(b)'
    BY <1>1, <2>2
  <2> QED
    BY <1>1, <1>4, <2>1, <2>3, <2>4, MatchEntrySansInsertion DEF RapprochementInv
<1>5. ASSUME appel'[a].etape = "libre", appel'[a].issue # "23505",
             AppelVrai(a) => appel'[a].issue \in
               {"", "OK", "ENTRY_ALREADY_MATCHED", "OPERATION_ALREADY_MATCHED"}
      PROVE  /\ VerrousExclusifs' /\ \A b \in Agents : Verifie(b)'
             /\ \A b \in ParLaPage : EcranVrai(b)' /\ AppelVrai(b)'
             /\ RefusExplique'
  <2>1. ~TientMouvement(a)' /\ ~TientOperation(a)' /\ Verifie(a)' /\ AppelVrai(a)'
    BY <1>5 DEF TientMouvement, TientOperation, Verifie, AppelVrai
  <2>2. VerrousExclusifs'
    BY <1>3, <2>1 DEF RapprochementInv, VerrousExclusifs
  <2>3. RefusExplique'
    BY <1>1, <1>5, RapprochementAssumption DEF RapprochementInv, RefusExplique
  <2> QED
    BY <1>1, <2>1, <2>2, <2>3
<1>6. CASE /\ UNCHANGED rapprochements
           /\ M(a)' = M(a) /\ O(a)' = O(a) /\ appel'[a].issue = appel[a].issue
           /\ appel[a].etape # "libre"
           /\ \/ /\ appel'[a].etape = "verrouille" /\ MouvementLibre(a)
                 /\ M(a) \in DOMAIN mouvements
              \/ /\ appel'[a].etape = "sansDoublon" /\ TientMouvement(a)
                 /\ ~TientOperation(a) /\ ~MouvementRapproche(M(a))
              \/ /\ appel'[a].etape = "operation" /\ appel[a].etape = "sansDoublon"
                 /\ OperationLibre(a) /\ Executee(O(a))
              \/ /\ appel'[a].etape = "concorde" /\ appel[a].etape = "operation"
                 /\ ~OperationRapprochee(O(a)) /\ Concorde(M(a), O(a))
  <2>0. Verifie(a) /\ O(a) \in OperationsBancaires \cup {Personne}
    BY <1>1, AppelType DEF RapprochementInv, O
  <2>1. /\ MouvementRapproche(M(a))' = MouvementRapproche(M(a))
        /\ OperationRapprochee(O(a))' = OperationRapprochee(O(a))
        /\ Executee(O(a))' = Executee(O(a)) /\ Concorde(M(a), O(a))' = Concorde(M(a), O(a))
        /\ mouvements' = mouvements
    BY <1>2, <1>6 DEF MouvementRapproche, OperationRapprochee, Executee, existe, executee, Lignes,
                      Concorde, banque, sensAttendu, montant, ledgerVars
  <2>2. CASE /\ appel'[a].etape = "verrouille" /\ MouvementLibre(a)
             /\ M(a) \in DOMAIN mouvements
    <3>1. Verifie(a)' /\ ~TientOperation(a)'
      BY <1>6, <2>0, <2>1, <2>2 DEF Verifie, TientMouvement, TientOperation
    <3> QED
      BY <1>4, <1>6, <2>2, <3>1
  <2>3. CASE /\ appel'[a].etape = "sansDoublon" /\ TientMouvement(a)
             /\ ~TientOperation(a) /\ ~MouvementRapproche(M(a))
    <3>1. Verifie(a)' /\ ~TientOperation(a)'
      BY <1>6, <2>0, <2>1, <2>3 DEF Verifie, TientMouvement, TientOperation
    <3> QED
      BY <1>4, <1>6, <2>3, <3>1
  <2>4. CASE /\ appel'[a].etape = "operation" /\ appel[a].etape = "sansDoublon"
             /\ OperationLibre(a) /\ Executee(O(a))
    <3>1. TientMouvement(a) /\ M(a) \in DOMAIN mouvements /\ ~MouvementRapproche(M(a))
      BY <2>0, <2>4 DEF Verifie, TientMouvement
    <3>2. O(a) \in OperationsBancaires
      BY <2>0, <2>4 DEF Verifie
    <3>3. Verifie(a)'
      BY <1>6, <2>1, <2>4, <3>1, <3>2 DEF Verifie, TientMouvement, TientOperation
    <3> QED
      BY <1>4, <1>6, <2>4, <3>1, <3>3
  <2>5. CASE /\ appel'[a].etape = "concorde" /\ appel[a].etape = "operation"
             /\ ~OperationRapprochee(O(a)) /\ Concorde(M(a), O(a))
    <3>1. TientMouvement(a) /\ TientOperation(a) /\ Verifie(a)'
      BY <1>6, <2>0, <2>1, <2>5 DEF Verifie, TientMouvement, TientOperation
    <3> QED
      BY <1>4, <1>6, <3>1
  <2> QED
    BY <1>6, <2>2, <2>3, <2>4, <2>5
<1>7. CASE /\ UNCHANGED rapprochements
           /\ appel[a].etape # "libre"
           /\ appel'[a].etape = "libre" /\ appel'[a].issue \in Issues \ {"23505"}
           /\ AppelVrai(a) => appel'[a].issue \in
                {"", "OK", "ENTRY_ALREADY_MATCHED", "OPERATION_ALREADY_MATCHED"}
  BY <1>1, <1>5, <1>7, MatchEntrySansInsertion DEF RapprochementInv
<1>8. CASE /\ appel[a].etape = "concorde"
           /\ rapprochements' = rapprochements \cup {[mouvement |-> M(a), operation |-> O(a)]}
           /\ appel'[a].etape = "libre" /\ appel'[a].issue = "OK"
  <2> DEFINE nouveau == [mouvement |-> M(a), operation |-> O(a)]
  <2>1. /\ M(a) \in DOMAIN mouvements /\ ~MouvementRapproche(M(a)) /\ ~OperationRapprochee(O(a))
        /\ Executee(O(a)) /\ Concorde(M(a), O(a))
    BY <1>8 DEF RapprochementInv, Verifie, TientMouvement, TientOperation
  <2>2. PICK m, o : m = M(a) /\ o = O(a)
    OBVIOUS
  <2>3. Executee(o)' /\ Concorde(m, o)'
    BY <1>2, <2>1, <2>2 DEF Executee, existe, executee, Lignes, Concorde, banque, sensAttendu, montant,
                            ledgerVars
  <2>4. rapprochements' = rapprochements \cup {[mouvement |-> m, operation |-> o]}
    BY <1>8, <2>2
  <2>5. \A r \in rapprochements' : Executee(r.operation)' /\ Concorde(r.mouvement, r.operation)'
    <3>1. SUFFICES ASSUME NEW r \in rapprochements'
                   PROVE  Executee(r.operation)' /\ Concorde(r.mouvement, r.operation)'
      OBVIOUS
    <3>2. CASE r \in rapprochements
      BY <1>1, <3>2
    <3>3. CASE r = [mouvement |-> m, operation |-> o]
      <4>1. r.mouvement = m /\ r.operation = o
        BY <3>3
      <4> QED
        BY <2>3, <4>1
    <3> QED
      BY <2>4, <3>2, <3>3
  <2>6. \A r, t \in rapprochements' : r.mouvement = t.mouvement \/ r.operation = t.operation => r = t
    <3>1. \A r \in rapprochements : r.mouvement # m /\ r.operation # o
      BY <2>1, <2>2 DEF MouvementRapproche, OperationRapprochee
    <3> QED
      BY <2>4, <3>1 DEF RapprochementInv, RapprochementFidele
  <2>7. RapprochementFidele'
    BY <2>5, <2>6 DEF RapprochementFidele, Executee
  <2>8. \A r \in rapprochements' : r.mouvement \in DOMAIN mouvements'
    BY <1>2, <2>1, <2>2, <2>4 DEF RapprochementInv
  <2> QED
    BY <1>1, <1>5, <1>8, <2>7, <2>8 DEF RapprochementInv
<1> QED
  BY <1>6, <1>7, <1>8, MatchEntryEtapes

LEMMA RapprochementInitInv == RapprochementInit => RapprochementInv
<1> SUFFICES ASSUME RapprochementInit PROVE RapprochementInv
  OBVIOUS
<1>1. LedgerTypeOK /\ mouvements = <<>> /\ rapprochements = {} /\ appels = 0
  BY LedgerTypeInit DEF RapprochementInit
<1>2. Repos("") \in Appel /\ Repos("").etape = "libre" /\ Repos("").issue = ""
  BY RapprochementAssumption DEF Repos, Appel, Etapes, Issues
<1>3. [entrees |-> {}, candidats |-> {}, luEntrees |-> {}, luCandidats |-> {}] \in Ecran
  BY DEF Ecran, Liste
<1>4. appel \in [Agents -> Appel] /\ ecran \in [Agents -> Ecran]
  BY <1>2, <1>3 DEF RapprochementInit
<1>5. RapprochementTypeOK
  BY <1>1, <1>4, RapprochementAssumption DEF RapprochementTypeOK
<1>6. \A a \in Agents : appel[a].etape = "libre" /\ appel[a].issue = ""
  BY <1>2 DEF RapprochementInit
<1>7. \A a \in Agents : ~TientMouvement(a) /\ ~TientOperation(a) /\ Verifie(a)
  BY <1>6 DEF TientMouvement, TientOperation, Verifie
<1>8. \A a \in ParLaPage : EcranVrai(a) /\ AppelVrai(a)
  BY <1>6, RapprochementAssumption DEF EcranVrai, AppelVrai, RapprochementInit
<1> QED
  BY <1>1, <1>5, <1>6, <1>7, <1>8
  DEF RapprochementInv, VerrousExclusifs, RapprochementFidele, RefusExplique

LEMMA RapprochementEtape ==
  RapprochementInv /\ [RapprochementNext]_banqueVars => RapprochementInv'
<1> SUFFICES ASSUME RapprochementInv, [RapprochementNext]_banqueVars PROVE RapprochementInv'
  OBVIOUS
<1>1. CASE UNCHANGED banqueVars
  <2>1. UNCHANGED <<ledgerVars, mouvements, rapprochements, appel, ecran, appels>>
    BY <1>1 DEF banqueVars, rapVars
  <2>2. MouvementsConserves /\ RapprochementTypeOK
    BY <2>1 DEF MouvementsConserves, RapprochementInv
  <2>3. Evolution
    BY <2>1, <2>2, EvolutionLedger
  <2>4. RapprochementTypeOK'
    BY <2>1, <2>2, <2>3 DEF RapprochementTypeOK, Evolution
  <2>5. \A a \in ParLaPage : EcranVrai(a)'
    BY <2>1, <2>2, <2>3, EcranConserve, RapprochementAssumption DEF RapprochementInv
  <2> QED
    BY <2>1, <2>3, <2>4, <2>5, AppelsInchanges
<1> QED
  BY <1>1, LedgerAvanceInv, CreateEntryInv, OverviewInv, DemanderInv, MatchEntryInv
  DEF RapprochementNext

\* A match pairs one line with one executed operation, for good.
THEOREM RapprochementCorrect == RapprochementSpec => []RapprochementInv
  BY RapprochementInitInv, RapprochementEtape, PTL DEF RapprochementSpec

\* RapprochementFidele for any banks, lines, ledger and agents.
THEOREM RapprochementFideleTheorem == RapprochementSpec => []RapprochementFidele
<1>1. RapprochementInv => RapprochementFidele
  BY DEF RapprochementInv
<1> QED
  BY <1>1, RapprochementCorrect, PTL

\* RefusExplique for any banks, lines, ledger and agents.
THEOREM RefusExpliqueTheorem == RapprochementSpec => []RefusExplique
<1>1. RapprochementInv => RefusExplique
  BY DEF RapprochementInv
<1> QED
  BY <1>1, RapprochementCorrect, PTL

=============================================================================
