CONSTANTS
  f1 = f1  f2 = f2  e1 = e1  e2 = e2  e3 = e3
  d1 = d1  d2 = d2  p1 = p1  p2 = p2  r1 = r1  r2 = r2
  Personne = Personne
  Financements = {f1, f2}
  Echeances = {e1, e2, e3}
  FinancementDe <- TroisEcheances
  MontantAccorde <- Accorde21
  MontantTotalDu <- Du221
  Direction = {d1, d2}
  Partenaires = {p1, p2}
  Perimetre <- PerimetreDouble
  Montants = {1, 2}
  Requetes = {r1, r2}
  Numeros = {1}
  SommesTronquees = {}
  DateEcheance <- Dates3
  BanquePartenaire <- DeuxBanques
  Limite = 1
SPECIFICATION FairSpec
INVARIANTS
  PlafondRespecte
  ImpayeMinore
  MontantsAffiches
PROPERTIES
  LedgerSpec
  ChaqueAppelRepondu
