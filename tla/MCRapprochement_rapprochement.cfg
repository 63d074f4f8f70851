SPECIFICATION RapprochementSpec
CONSTANTS
  f1 = f1  f2 = f2  e1 = e1  e2 = e2  b1 = b1  b2 = b2
  d1 = d1  p1 = p1  a1 = a1  a2 = a2
  Personne = Personne
  Financements = {f1, f2}
  Echeances = {e1, e2}
  FinancementDe <- MCFinancementDe
  MontantAccorde <- MCAccorde
  MontantTotalDu <- MCDu
  Direction = {d1}
  Partenaires = {p1}
  Perimetre <- MCPerimetre
  Montants = {1, 2}
  Banques = {b1}
  Actives = {b1}
  BanqueDe <- MCBanqueDe
  References = {1, 2, 3}
  Releves <- MCReleves
  Agents = {a1, a2}
  ParLaPage = {a1}
  MaxMouvements = 2
  MaxAppels = 2
INVARIANTS
  RapprochementFidele
  RefusExplique
PROPERTIES
  RapprochementRepondu
CHECK_DEADLOCK FALSE
