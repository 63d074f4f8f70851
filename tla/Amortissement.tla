--------------------------- MODULE Amortissement ---------------------------
(***************************************************************************)
(* The repayment schedule of a financing (finance-policy.js), as functions.*)
(* Amounts are whole centimes and rates ten-thousandths of a percent, the  *)
(* four decimals of the DTO and of the column, so roundMoney is a division *)
(* rounded half up; the doubles of the program are exact decimals here.    *)
(* A date is a record of year, month and day.                              *)
(***************************************************************************)
EXTENDS Sommes

\* What the committee's decision and the schedule accept: 0 to 100 %, ten years.
TauxMax == 1000000

TauxAcceptes    == 0 .. TauxMax
DureesAcceptees == 1 .. 120

\* Twelve months of 100 %.
Mensuel == 12000000

\* roundMoney(a / b), in centimes.
RoundMoney(a, b) == (2 * a + b) \div (2 * b)

Moindre(x, y) == IF x < y THEN x ELSE y

-----------------------------------------------------------------------------
(* Dates.                                                                  *)

Bissextile(an) == an % 4 = 0 /\ (an % 100 # 0 \/ an % 400 = 0)

DernierJour(an, mois) ==
  IF mois \in {4, 6, 9, 11} THEN 30
  ELSE IF mois # 2 THEN 31
  ELSE IF Bissextile(an) THEN 29 ELSE 28

\* The same day n months later, or the last day of that month.
AddMonths(date, n) ==
  LET rang == 12 * date.an + date.mois - 1 + n
      an   == rang \div 12
      mois == (rang % 12) + 1
  IN  [an |-> an, mois |-> mois, jour |-> Moindre(date.jour, DernierJour(an, mois))]

-----------------------------------------------------------------------------
(* buildAmortizationSchedule.                                              *)

\* Mutant: the last instalment is one like the others.
CapitalDuConstant(principal, duree, k, restant) ==
  Moindre(RoundMoney(principal, duree), restant)

\* The last instalment takes what the rounded ones left.
CapitalDu(principal, duree, k, restant) ==
  IF k = duree THEN restant ELSE Moindre(RoundMoney(principal, duree), restant)

InteretDu(restant, taux) == RoundMoney(restant * taux, Mensuel)

\* outstanding after k instalments.
Restants(principal, duree) ==
  LET restant[k \in 0 .. duree] ==
        IF k = 0 THEN principal
        ELSE LET avant == restant[k - 1] IN avant - CapitalDu(principal, duree, k, avant)
  IN  restant

BuildAmortizationSchedule(principal, taux, duree, debut) ==
  LET restant == Restants(principal, duree)
      capital(k) == CapitalDu(principal, duree, k, restant[k - 1])
      interet(k) == InteretDu(restant[k - 1], taux)
  IN  [k \in 1 .. duree |->
         [date    |-> AddMonths(debut, k),
          capital |-> capital(k),
          interet |-> interet(k),
          total   |-> capital(k) + interet(k)]]

\* What the function refuses with an error.
Acceptable(principal, taux, duree) ==
  /\ principal > 0
  /\ taux \in TauxAcceptes
  /\ duree \in DureesAcceptees

-----------------------------------------------------------------------------
(* The reference: what a schedule owes its borrower and its bank.          *)

Avant(x, y) ==
  \/ x.an < y.an
  \/ (x.an = y.an /\ x.mois < y.mois)
  \/ (x.an = y.an /\ x.mois = y.mois /\ x.jour < y.jour)

DateCorrecte(date) == date.mois \in 1 .. 12 /\ date.jour \in 1 .. DernierJour(date.an, date.mois)

\* The capital of the instalments adds up to the amount granted, to the
\* centime; none is negative; one that is worth nothing, and so can never be
\* paid, comes only after the whole capital; the last one is off the regular
\* one by at most half a centime per month; one date a month, never before
\* the start, and 31 January is followed by the last day of February.
EcheancierDe(principal, taux, duree, debut) ==
  LET plan == BuildAmortizationSchedule(principal, taux, duree, debut)
      verse == Cumul([k \in 1 .. duree |-> plan[k].capital])
  IN  /\ verse[duree] = principal
      /\ \A k \in 1 .. duree :
           /\ plan[k].capital >= 0
           /\ plan[k].total = 0 =>
                \/ verse[k] = principal
                \/ RoundMoney(principal, duree) = 0
           /\ DateCorrecte(plan[k].date)
           /\ Avant(IF k = 1 THEN debut ELSE plan[k - 1].date, plan[k].date)
           /\ plan[k].date.jour = Moindre(debut.jour, DernierJour(plan[k].date.an, plan[k].date.mois))
      /\ \A k \in 2 .. duree : plan[k].interet <= plan[k - 1].interet
      /\ 2 * (plan[duree].capital - RoundMoney(principal, duree)) <= duree
=============================================================================
