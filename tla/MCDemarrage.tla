---------------------------- MODULE MCDemarrage ----------------------------
(* Three replicas: an upgrade, the same in PROD, or an upgrade and an image  *)
(* whose first file was edited.  Two of them race for the first              *)
(* administrator, or one has an e-mail that is taken, another invalid        *)
(* settings or no METRICS_TOKEN.                                             *)
EXTENDS Demarrage, TLC

CONSTANTS r1, r2, r3, a, b, c, e1, e2, e3, rien, invalide, sansJeton

MCImages == [ancienne |-> (1 :> a) @@ (2 :> rien),
             nouvelle |-> (1 :> a) @@ (2 :> b),
             modifiee |-> (1 :> c) @@ (2 :> b)]
Trois(x, y, z) == (r1 :> x) @@ (r2 :> y) @@ (r3 :> z)
MCProteges == {Trois("nouvelle", "nouvelle", "ancienne")}
MCDeploiements == MCProteges \cup
  {Trois("ancienne", "nouvelle", i) : i \in {"nouvelle", "modifiee"}}
MCConfigs == {Trois(e1, e2, rien), Trois(e1, invalide, sansJeton), Trois(e3, e1, rien)}
=============================================================================
