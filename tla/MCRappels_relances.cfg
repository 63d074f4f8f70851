CONSTANTS
  o1 = o1  u1 = u1
  r1 = r1  r2 = r2  r3 = r3
  Runs = {r1, r2, r3}
  Occurrences = {o1}
  Utilisateurs = {u1}
  UtilisateurDe <- Utilisateur1
  DelaiQuarantaine = 1
  DelaiRelance = 2
  MaxHorloge = 2
  Pannes = {"reseau", "marque", "apresMarque"}
SYMMETRY Symmetry
SPECIFICATION Spec
INVARIANTS
  RelanceJustifiee
  DispatchFidele
PROPERTIES
  JamaisRetrograde
