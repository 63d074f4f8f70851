SPECIFICATION LimitesSpec
CONSTANTS
  q1 = q1
  q2 = q2
  q3 = q3
  q4 = q4
  Requetes = {q1, q2, q3, q4}
  Limite = 2
  Ttl = 3
  MaxAttente = 1
  MaxHeure = 6
SYMMETRY Symetrie
PROPERTIES
  LimiteTenue
CHECK_DEADLOCK FALSE
