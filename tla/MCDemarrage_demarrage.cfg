SPECIFICATION Spec
CONSTANTS
  r1 = r1
  r2 = r2
  r3 = r3
  a = a
  b = b
  c = c
  e1 = e1
  e2 = e2
  e3 = e3
  rien = rien
  invalide = invalide
  sansJeton = sansJeton
  Repliques = {r1, r2, r3}
  Versions = {1, 2}
  Contenus = {a, b, c}
  Emails = {e1, e2, e3}
  Rien = rien
  Invalide = invalide
  SansJeton = sansJeton
  Images <- MCImages
  Deploiements <- MCDeploiements
  Configs <- MCConfigs
  Proteges <- MCProteges
  ComptesAvant = {e3}
  MaxPannes = 2
INVARIANTS
  SchemaDeLImage
  UneFoisParBase
CHECK_DEADLOCK FALSE
PROPERTIES
  DemarrageAboutit
