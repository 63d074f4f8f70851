CONSTANTS
  h1 = h1  h2 = h2
  Rien = Rien
  Cles = {1, 2}
  Appels <- AppelsF
  CleDe <- CleDeF
  ChargeDe <- ChargeDeF
  Pannes = {"apresCommit"}
  MaxEnvois = 3
  MaxIntentions = 2
SPECIFICATION SpecPannes
INVARIANT AuPlusUneFois
CHECK_DEADLOCK FALSE
