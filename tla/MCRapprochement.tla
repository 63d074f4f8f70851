-------------------------- MODULE MCRapprochement --------------------------
(* Two agents, one on the page, the other calling the API with any pair; a  *)
(* financing of a bank and one without.                                     *)
EXTENDS Rapprochement, TLC

CONSTANTS f1, f2, e1, e2, b1, b2, d1, p1, a1, a2

MCFinancementDe == e1 :> f1 @@ e2 :> f2
MCAccorde == f1 :> 1 @@ f2 :> 0
MCDu == e1 :> 1 @@ e2 :> 1
MCBanqueDe == f1 :> b1 @@ f2 :> Personne
MCPerimetre == {<<p1, f1>>}

Releve(b, r, s, m) == [banque |-> b, reference |-> r, sens |-> s, montant |-> m]

\* Two lines of one debit, and the credit.
MCReleves == {Releve(b1, 1, "DEBIT", 1), Releve(b1, 2, "DEBIT", 1), Releve(b1, 3, "CREDIT", 1)}
=============================================================================
