SPECIFICATION Spec
CONSTANTS
  c1 = c1
  c2 = c2
  c3 = c3
  e1 = e1
  b1 = b1
  rien = rien
  a1 = a1
  a2 = a2
  x1 = x1
  x2 = x2
  Comptes = {c1, c2, c3}
  Entreprises = {e1}
  Banques = {b1}
  Appels = {a1, a2}
  Connexions = {x1, x2}
  Rien = rien
  Demandes <- MCDemandes
  ComptesInitiaux <- MCComptesInitiaux
  ReferencesInitiales = {e1}
  JetonsInitiaux <- MCJetonsInitiaux
  MaxDemandes = 2
  MaxTentatives = 2
  MaxLivraisons = 2
  MaxEchanges = 2
  MaxTemps = 1
  LivraisonsInitiales <- MCLivraisonsInitiales
  DefisInitiaux <- MCDefisInitiaux
  MaxPas = 2
  MaxCle = 2
SYMMETRY Symetrie
INVARIANTS
  DernierSuperAdmin
  DroitsEnVigueur
  UsageUnique
PROPERTIES
  JetonMort
CHECK_DEADLOCK FALSE
