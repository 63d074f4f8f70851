CONSTANTS
  u1 = u1  u2 = u2  u3 = u3  k1 = k1  k2 = k2  d1 = d1  d2 = d2
  Direction = {u1, u2}
  Proposants = {u2, u3}
  Personne = Personne
  Regles = {k1, k2}
  Offres = {1, 2}
  Dossiers = {d1, d2}
  MaxVersions = 2
SYMMETRY Symmetry
SPECIFICATION Spec
INVARIANTS
  DoubleRegard
  CatalogueFidele
  BoutonsFideles
PROPERTIES
  CaptureStable
