----------------------------- MODULE MCDossier -----------------------------
(***************************************************************************)
(* Instances of Dossier for TLC.                                           *)
(***************************************************************************)
EXTENDS Lectures, Notation, TLC

CONSTANTS a1, a2, c1, c2

\* The ends of months, in a leap year and out of it.
FinsDeMois == {[an |-> 2027, mois |-> 1, jour |-> 31], [an |-> 2027, mois |-> 12, jour |-> 30],
               [an |-> 2028, mois |-> 1, jour |-> 30]}

Mois == 1 .. 36

\* The terms of an approval without a word, a grace period longer than the
\* duration, a reason, three spaces, and a reason too long.
MCAvis ==
  LET A(longueur, utile, duree, differe) ==
        [longueur |-> longueur, utile |-> utile, duree |-> duree, taux |-> 0, differe |-> differe]
  IN  {A(0, 0, 36, 36), A(0, 0, 36, 37), A(3, 3, 0, 0), A(3, 0, 0, 0), A(2001, 2000, 0, 0)}

\* The reference model of migration 030, and one whose weights do not add up to
\* 100 and whose contributions are rounded; with a multiple of their maxima.
Critere(code, poids, max) == [code |-> code, poids |-> poids, max |-> max]
Reference == <<Critere(1, 20, 100), Critere(2, 30, 100), Critere(3, 30, 100), Critere(4, 20, 100)>>
Arrondi   == <<Critere(1, 1, 3), Critere(2, 2, 7), Critere(3, 4, 10)>>

Reponses(criteres, points) ==
  {[i \in DOMAIN criteres |-> [code |-> criteres[i].code, obtenu |-> p[i]]] :
     p \in [DOMAIN criteres -> points]}

MCGrilles ==
  {<<Reference, r, 100>> : r \in Reponses(Reference, {0, 49, 50, 75, 100})}
  \cup {<<Arrondi, r, 210>> : r \in Reponses(Arrondi, 0 .. 10)}

\* calculateScore against its reference, on every grid it does not refuse.
ASSUME NotationVerifiee ==
  \A g \in MCGrilles : Notable(g[1], g[2]) => EstCommun(g[3], g[1]) /\ NoteDe(g[1], g[2], g[3])

Symmetry == Permutations(Appels) \cup Permutations(Agents \ SuperAdmins)
=============================================================================
