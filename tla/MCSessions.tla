----------------------------- MODULE MCSessions -----------------------------
(* A small instance of Sessions: two super administrators, signed in, and a  *)
(* PME account.                                                              *)
EXTENDS Sessions, TLC

CONSTANTS c1, c2, c3, e1, b1, rien, a1, a2, x1, x2

MCComptesInitiaux ==
  [c \in {c1, c2, c3} |->
    IF c = c3
    THEN [LigneVide EXCEPT !.existe = TRUE, !.actif = TRUE, !.roles = {"PME"},
                           !.entreprise = e1, !.mfaRequise = TRUE, !.secret = 3]
    ELSE [LigneVide EXCEPT !.existe = TRUE, !.actif = TRUE,
            !.roles = {"SUPER_ADMIN"}, !.mfaRequise = TRUE,
            !.secret = IF c = c1 THEN 1 ELSE 2, !.confirme = TRUE, !.pas = 1]]

MCJetonsInitiaux ==
  {[jti |-> i, sub |-> IF i = 1 THEN c1 ELSE c2, roles |-> {"SUPER_ADMIN"},
    entreprise |-> rien, banque |-> rien, version |-> 0, cle |-> 1,
    code |-> [secret |-> i, pas |-> 1]] : i \in 1..2}

MCDefisInitiaux == {[sub |-> c1, but |-> "mfa_login"],
                     [sub |-> c3, but |-> "mfa_setup"]}
MCLivraisonsInitiales == <<c2>>
Symetrie == Permutations(Appels) \cup Permutations(Connexions)

Corps(roles, actif, mfa, entreprise) ==
  [roles |-> roles, actif |-> actif, mfa |-> mfa, entreprise |-> entreprise,
   banque |-> rien]

MCDemandes == {Corps(rien, FALSE, rien, rien), Corps(rien, TRUE, FALSE, rien),
               Corps({"AGENT_FODIP"}, rien, rien, "detacher")}
=============================================================================
