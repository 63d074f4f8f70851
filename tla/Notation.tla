------------------------------ MODULE Notation ------------------------------
(***************************************************************************)
(* The score of a dossier (scoring-policy.js), as functions.  Answers and  *)
(* weights are whole numbers, a contribution is in ten-thousandths of a    *)
(* point and a total in hundredths, as round(x, 4) and round(x) leave      *)
(* them; the doubles of the program are exact here.                        *)
(***************************************************************************)
EXTENDS Sommes

\* 100 points.
Plein == 10000

Niveaux == <<"ELEVE", "MODERE", "FAIBLE">>

\* round(x, 3 + 3) for x = a / b, in two divisions that stay within 32 bits.
Millioniemes(a, b) ==
  LET milliemes == (1000 * a) \div b
      reste     == 1000 * ((1000 * a) % b)
  IN  1000 * milliemes + (2 * reste + b) \div (2 * b)

Centieme(x) == (x + 50) \div 100

ClassifyScore(total) ==
  IF total >= 7500 THEN 3 ELSE IF total >= 5000 THEN 2 ELSE 1

PoidsTotal(criteres) == Somme([i \in DOMAIN criteres |-> criteres[i].poids])

\* The errors thrown: every criterion of the model is answered once, within
\* its range.
Notable(criteres, reponses) ==
  /\ criteres # <<>> /\ Len(reponses) = Len(criteres)
  /\ \A i, j \in DOMAIN reponses : reponses[i].code = reponses[j].code => i = j
  /\ PoidsTotal(criteres) > 0
  /\ \A i \in DOMAIN criteres : \E j \in DOMAIN reponses :
       /\ reponses[j].code = criteres[i].code
       /\ reponses[j].obtenu \in 0 .. criteres[i].max

Obtenu(critere, reponses) ==
  reponses[CHOOSE j \in DOMAIN reponses : reponses[j].code = critere.code].obtenu

Contribution(criteres, i, reponses) ==
  Millioniemes(Obtenu(criteres[i], reponses) * criteres[i].poids,
               criteres[i].max * PoidsTotal(criteres))

CalculateScore(criteres, reponses) ==
  LET details == [i \in DOMAIN criteres |-> Contribution(criteres, i, reponses)]
      total   == Centieme(Somme(details))
  IN  [total |-> total, details |-> details, niveau |-> Niveaux[ClassifyScore(total)]]

-----------------------------------------------------------------------------
(* The reference: the weighted mean, on one denominator.                   *)

EstCommun(commun, criteres) ==
  \A i \in DOMAIN criteres : commun % criteres[i].max = 0

Moyenne(criteres, reponses, commun) ==
  Somme([i \in DOMAIN criteres |->
           Obtenu(criteres[i], reponses) * criteres[i].poids * (commun \div criteres[i].max)])

\* The total is the mean on 100, but for the half hundredth of its rounding and
\* what the contributions lost by theirs: it never leaves 0..100, full marks
\* are worth 100 and none 0, and one more point never lowers the total nor
\* worsens the risk.
NoteDe(criteres, reponses, commun) ==
  LET score   == CalculateScore(criteres, reponses)
      moyenne == Moyenne(criteres, reponses, commun)
      base    == commun * PoidsTotal(criteres)
      ecart   == score.total * base - Plein * moyenne
      marge   == base * (100 + Len(criteres))
      mieux(j) == CalculateScore(criteres, [reponses EXCEPT ![j].obtenu = @ + 1])
  IN  /\ 200 * ecart <= marge /\ -200 * ecart <= marge
      /\ score.total \in 0 .. Plein
      /\ moyenne = base => score.total = Plein
      /\ moyenne = 0 => score.total = 0
      /\ \A j \in DOMAIN reponses :
           Notable(criteres, [reponses EXCEPT ![j].obtenu = @ + 1]) =>
             /\ mieux(j).total >= score.total
             /\ ClassifyScore(mieux(j).total) >= ClassifyScore(score.total)
=============================================================================
