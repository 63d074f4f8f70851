CONSTANTS
  h1 = h1  h2 = h2
  Rien = Rien
  Cles = {1, 2, 3}
  Appels <- AppelsF
  CleDe <- CleDeF
  ChargeDe <- ChargeDeF
  Pannes = {"arret"}
  MaxEnvois = 4
  MaxIntentions = 2
SPECIFICATION SpecF
INVARIANTS
  UneFoisParIntention
  SuccesFidele
PROPERTIES
  ContractSpec
CHECK_DEADLOCK FALSE
