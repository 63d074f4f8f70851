CONSTANTS
  d1 = d1  d2 = d2  d3 = d3   v1 = v1  v2 = v2
  rccm = rccm  nif = nif
  Depots = {d1, d2, d3}
  TypeDe <- Types3
  Verifs = {v1, v2}
  Rien = Rien
  Exigences = {rccm, nif}
SYMMETRY Symmetry
SPECIFICATION Spec
INVARIANTS
  CourantesSimultanees
  ObjetsCoherents
  CompletudeFidele
PROPERTIES
  HistoriqueFige
