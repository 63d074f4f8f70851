CONSTANTS
  a1 = a1  a2 = a2  c1 = c1  c2 = c2
  Agents = {a1, a2}
  SuperAdmins = {a2}
  Pme = pme
  Comite = comite
  Personne = Personne
  Absent = Absent
  Appels = {c1, c2}
  Montants = {5, 101}
  Notes = {n1, n2}
  Borne = 7
  Durees <- Mois
  Taux = {0, 125000, 999999}
  Avis <- MCAvis
  Dates <- FinsDeMois
SYMMETRY Symmetry
SPECIFICATION Spec
INVARIANTS
  HistoriqueFidele
  JamaisPerdu
  ListeOuvrable
  TableauAccorde
  EcheancierExact
PROPERTIES
  ParcoursSpec
CHECK_DEADLOCK FALSE
