SPECIFICATION PortailSpec
CONSTANTS
  Profils <- MCComptes
  AvecCode = {{"SUPER_ADMIN"}}
  Depart = {"/connexion", "/direction/tableau-de-bord"}
  AutresComptes = {{"PME"}}
  MaxSessions = 2
  MaxEvenements = 2
INVARIANTS
  ContenuVerifie
  ChargementPermis
PROPERTIES
  EjectionJustifiee
  NavigationAboutit
CHECK_DEADLOCK FALSE
