--------------------------- MODULE SessionsProofs ---------------------------
(****************************************************************************)
(* For every number of accounts, administrators, sign-ins and tokens: the   *)
(* institution keeps an active super administrator, a token that opens      *)
(* something carries the account's present rights, a closed session stays   *)
(* closed, and a code or a delivery token serves once.  And for every       *)
(* account and page: what the front end shows, loads and leaves.            *)
(****************************************************************************)
EXTENDS Sessions, Portail, FiniteSetTheorems, TLAPS

Typed ==
  /\ compte \in [Comptes -> Ligne]
  /\ \A c \in Comptes : compte[c].actif => compte[c].existe
  /\ appel \in [Appels -> Appel]
  /\ ligne \in [Comptes -> Appels \cup {Rien}]
  /\ verrou \in Appels \cup {Rien}
  /\ connexion \in [Connexions -> Connexion]
  /\ jetons \subseteq Jeton /\ IsFiniteSet(jetons)
  /\ defis \subseteq Defi
  /\ cle \in 1..MaxCle /\ graines \in Nat
  /\ \A a \in Appels : appel[a].etat # "libre" => appel[a].cible \in Comptes
  /\ \A x \in Connexions : connexion[x].etat # "libre" => connexion[x].sub \in Comptes
  /\ \A x \in Connexions : connexion[x].etat = "consommer" => connexion[x].code \in Code

------------------------------------------------------------------------------
(* The administrators' commands.                                             *)

Transaction(a) == appel[a].op \in {"modifier", "anonymiser"}
Lue(a) == appel[a].etat \in {"lu", "compte"}

\* Who holds which lock, and what the command a read under it is still so.
VerrouDe(a) ==
  /\ appel[a].etat \in {"verrouille", "compte"} => Transaction(a)
  /\ (appel[a].etat = "verrouille" \/ (Lue(a) /\ Transaction(a))) <=> verrou = a
  /\ Lue(a) => /\ ligne[appel[a].cible] = a
               /\ appel[a].lu = compte[appel[a].cible]
               /\ appel[a].lu.existe
  /\ appel[a].etat # "libre" /\ appel[a].op = "modifier" => appel[a].demande \in Demandes

Verrous == \A a \in Appels : VerrouDe(a)

superAdminActif(c) == compte[c].actif /\ "SUPER_ADMIN" \in compte[c].roles

\* A command about to take a super administrator away has counted another one.
ProtectionDe(a) ==
  (/\ appel[a].etat = "compte"
   /\ retire(appel[a].op, appel[a].lu, appel[a].demande)
   /\ "SUPER_ADMIN" \in appel[a].lu.roles)
  => \E s \in Comptes : superAdminActif(s) /\ s # appel[a].cible

Protection == \A a \in Appels : ProtectionDe(a)

------------------------------------------------------------------------------
(* What sign-ins and tokens remember of an account.                          *)

\* r was read from the row l, now or before: at the same version it says the
\* same thing.
Fidele(r, l) ==
  /\ l.existe
  /\ r.version <= l.version
  /\ r.version = l.version =>
       r.roles = l.roles /\ r.entreprise = l.entreprise /\ r.banque = l.banque

EtatsAvecLigne == {"motDePasse", "consommer", "confirmer", "emettre"}

Souvenirs ==
  /\ \A t \in jetons : Fidele(t, compte[t.sub]) /\ t.cle <= cle
  /\ \A x \in Connexions :
       /\ connexion[x].etat # "libre" => compte[connexion[x].sub].existe
       /\ connexion[x].etat \in EtatsAvecLigne =>
            Fidele(connexion[x].lu, compte[connexion[x].sub])
  /\ \A d \in defis : compte[d.sub].existe

\* What a step does to a row.
Evolution(l, m) ==
  /\ l.existe => Fidele(l, m)
  /\ l.existe /\ m.version = l.version => m.actif = l.actif
  /\ m.secret # Rien /\ m.secret = l.secret => l.pas <= m.pas

------------------------------------------------------------------------------
(* Codes and delivery tokens.                                                *)

\* The sign-in x has consumed its code and not issued its token yet.
Porteuse(x) ==
  connexion[x].etat \in {"confirmer", "emettre"} /\ connexion[x].code # Rien

Actuel(c, code) == code # Rien /\ compte[c].secret = code.secret

Graines ==
  /\ \A c \in Comptes : compte[c].secret # Rien => compte[c].secret <= graines
  /\ \A t \in jetons : t.code # Rien => t.code.secret <= graines
  /\ \A x \in Connexions :
       connexion[x].code # Rien => connexion[x].code.secret <= graines

CodesConsommes ==
  /\ \A t \in jetons : Actuel(t.sub, t.code) => t.code.pas <= compte[t.sub].pas
  /\ \A x \in Connexions :
       Porteuse(x) /\ Actuel(connexion[x].sub, connexion[x].code)
         => connexion[x].code.pas <= compte[connexion[x].sub].pas

CodesDistincts ==
  /\ \A t, u \in jetons :
       t.sub = u.sub /\ t.code = u.code /\ Actuel(t.sub, t.code) => t = u
  /\ \A t \in jetons, x \in Connexions :
       ~ /\ Porteuse(x) /\ connexion[x].sub = t.sub
         /\ connexion[x].code = t.code /\ Actuel(t.sub, t.code)
  /\ \A x, y \in Connexions :
       /\ Porteuse(x) /\ Porteuse(y) /\ connexion[x].sub = connexion[y].sub
       /\ connexion[x].code = connexion[y].code
       /\ Actuel(connexion[x].sub, connexion[x].code)
       => x = y

Codes == Graines /\ CodesConsommes /\ CodesDistincts

\* A delivery token redeemed is claimed, or past its two minutes.
Livrees ==
  /\ DOMAIN echanges = DOMAIN livraisons
  /\ \A j \in DOMAIN livraisons :
       /\ livraisons[j] \in Comptes /\ compte[livraisons[j]].existe
       /\ echanges[j] = 0 \/ (echanges[j] = 1 /\ j \in reclamees \cup perimees)

IInv == Typed /\ Verrous /\ Protection /\ DernierSuperAdmin /\ Souvenirs /\ Codes /\ Livrees

------------------------------------------------------------------------------
(* The rows that commands and sign-ins write.                                *)

LEMMA LigneVideTypee == LigneVide \in Ligne
BY ComptesAssumption DEF LigneVide, Ligne

LEMMA DemandeTypee ==
  ASSUME NEW d \in Demandes
  PROVE  /\ d.roles \in (SUBSET Roles) \cup {Rien}
         /\ d.actif \in BOOLEAN \cup {Rien}
         /\ d.mfa \in BOOLEAN \cup {Rien}
         /\ d.entreprise \in Entreprises \cup {Rien, "detacher"}
         /\ d.banque \in Banques \cup {Rien, "detacher"}
BY ComptesAssumption DEF Demande

\* Two states of a row with the same existence and the same second factor.
MemeTotp(m, l) ==
  m.existe = l.existe /\ m.secret = l.secret /\ m.pas = l.pas

\* A command adds one to the version of the row it writes, takes nobody's TOTP
\* seed over, and never lowers a step consumed of the same seed.
LEMMA EcritureTypee ==
  ASSUME NEW l \in Ligne, NEW ap \in Appel,
         ap.op = "modifier" => ap.demande \in Demandes
  PROVE  LET m == ligneEcrite(l, ap) IN
         /\ m \in Ligne
         /\ m.existe = l.existe /\ m.version = l.version + 1
         /\ (m.secret = l.secret /\ m.pas = l.pas) \/ m.secret = Rien
<1>1. CASE ap.op = "modifier"
  <2> DEFINE d == ap.demande
             m == ligneModifiee(l, d, ap.lu)
  <2>1. d \in Demandes /\ ap.lu \in Ligne
    BY <1>1 DEF Appel
  <2>2. prochainsRoles(d, ap.lu) \in SUBSET Roles
    BY <2>1, DemandeTypee DEF prochainsRoles, Ligne
  <2>3. choisi(d.entreprise, l.entreprise) \in Entreprises \cup {Rien}
    BY <2>1, DemandeTypee DEF choisi, Ligne
  <2>4. choisi(d.banque, l.banque) \in Banques \cup {Rien}
    BY <2>1, DemandeTypee DEF choisi, Ligne
  <2>5. (IF d.actif = Rien THEN l.actif ELSE d.actif) \in BOOLEAN
    BY <2>1, DemandeTypee DEF Ligne
  <2>6. ((IF d.mfa = Rien THEN ap.lu.mfaRequise ELSE d.mfa)
         \/ requiresMfa(prochainsRoles(d, ap.lu))) \in BOOLEAN
    OBVIOUS
  <2> DEFINE l1 == [l EXCEPT !.actif = IF d.actif = Rien THEN l.actif ELSE d.actif]
             l2 == [l1 EXCEPT !.mfaRequise =
                      (IF d.mfa = Rien THEN ap.lu.mfaRequise ELSE d.mfa)
                      \/ requiresMfa(prochainsRoles(d, ap.lu))]
             l3 == [l2 EXCEPT !.version = l.version + 1]
             l4 == [l3 EXCEPT !.roles = prochainsRoles(d, ap.lu)]
             l5 == [l4 EXCEPT !.entreprise = choisi(d.entreprise, l.entreprise)]
             l6 == [l5 EXCEPT !.banque = choisi(d.banque, l.banque)]
  <2>7. m = l6
    BY DEF ligneModifiee
  <2>8. l1 \in Ligne /\ MemeTotp(l1, l)
    BY <2>5 DEF Ligne, MemeTotp
  <2> HIDE DEF l1
  <2>9. l2 \in Ligne /\ MemeTotp(l2, l)
    BY <2>6, <2>8 DEF Ligne, MemeTotp
  <2> HIDE DEF l2
  <2>10. l3 \in Ligne /\ MemeTotp(l3, l) /\ l3.version = l.version + 1
    BY <2>9 DEF Ligne, MemeTotp
  <2> HIDE DEF l3
  <2>11. l4 \in Ligne /\ MemeTotp(l4, l) /\ l4.version = l.version + 1
    BY <2>2, <2>10 DEF Ligne, MemeTotp
  <2> HIDE DEF l4
  <2>12. l5 \in Ligne /\ MemeTotp(l5, l) /\ l5.version = l.version + 1
    BY <2>3, <2>11 DEF Ligne, MemeTotp
  <2> HIDE DEF l5
  <2>13. l6 \in Ligne /\ MemeTotp(l6, l) /\ l6.version = l.version + 1
    BY <2>4, <2>12 DEF Ligne, MemeTotp
  <2> QED
    BY <1>1, <2>7, <2>13 DEF ligneEcrite, MemeTotp
<1>2. CASE ap.op = "motDePasse"
  <2> DEFINE l1 == [l EXCEPT !.actif = TRUE]
             l2 == [l1 EXCEPT !.version = l.version + 1]
  <2>1. ligneEcrite(l, ap) = l2
    BY <1>2 DEF ligneEcrite, ligneMotDePasse
  <2>2. l1 \in Ligne /\ MemeTotp(l1, l)
    BY DEF Ligne, MemeTotp
  <2> HIDE DEF l1
  <2>3. l2 \in Ligne /\ MemeTotp(l2, l) /\ l2.version = l.version + 1
    BY <2>2 DEF Ligne, MemeTotp
  <2> QED
    BY <2>1, <2>3 DEF MemeTotp
<1>3. CASE ap.op = "mfa"
  <2> DEFINE l1 == [l EXCEPT !.secret = Rien]
             l2 == [l1 EXCEPT !.confirme = FALSE]
             l3 == [l2 EXCEPT !.pas = 0]
             l4 == [l3 EXCEPT !.version = l.version + 1]
  <2>1. ligneEcrite(l, ap) = l4
    BY <1>3 DEF ligneEcrite, ligneSansMfa
  <2>2. l1 \in Ligne /\ l1.existe = l.existe /\ l1.secret = Rien
    BY DEF Ligne
  <2> HIDE DEF l1
  <2>3. l2 \in Ligne /\ l2.existe = l.existe /\ l2.secret = Rien
    BY <2>2 DEF Ligne
  <2> HIDE DEF l2
  <2>4. l3 \in Ligne /\ l3.existe = l.existe /\ l3.secret = Rien
    BY <2>3 DEF Ligne
  <2> HIDE DEF l3
  <2>5. /\ l4 \in Ligne /\ l4.existe = l.existe /\ l4.secret = Rien
        /\ l4.version = l.version + 1
    BY <2>4 DEF Ligne
  <2> QED
    BY <2>1, <2>5
<1>4. CASE ap.op = "anonymiser"
  <2> DEFINE l1 == [l EXCEPT !.actif = FALSE]
             l2 == [l1 EXCEPT !.anonymise = TRUE]
             l3 == [l2 EXCEPT !.version = l.version + 1]
  <2>1. ligneEcrite(l, ap) = l3
    BY <1>4 DEF ligneEcrite, ligneAnonymisee
  <2>2. l1 \in Ligne /\ MemeTotp(l1, l)
    BY DEF Ligne, MemeTotp
  <2> HIDE DEF l1
  <2>3. l2 \in Ligne /\ MemeTotp(l2, l)
    BY <2>2 DEF Ligne, MemeTotp
  <2> HIDE DEF l2
  <2>4. l3 \in Ligne /\ MemeTotp(l3, l) /\ l3.version = l.version + 1
    BY <2>3 DEF Ligne, MemeTotp
  <2> QED
    BY <2>1, <2>4 DEF MemeTotp
<1> QED
  BY <1>1, <1>2, <1>3, <1>4 DEF Appel, Operations

\* The row createUser inserts.
ligneCreee(d) ==
  [LigneVide EXCEPT !.existe = TRUE, !.actif = TRUE, !.roles = d.roles,
     !.entreprise = choisi(d.entreprise, Rien),
     !.banque = choisi(d.banque, Rien),
     !.mfaRequise = d.mfa = TRUE \/ requiresMfa(d.roles)]

LEMMA CreationTypee ==
  ASSUME NEW d \in Demandes, d.roles # Rien
  PROVE  LET m == ligneCreee(d) IN
         /\ m \in Ligne /\ m.existe /\ m.secret = Rien
<1>1. choisi(d.entreprise, Rien) \in Entreprises \cup {Rien}
  BY DemandeTypee DEF choisi
<1>2. choisi(d.banque, Rien) \in Banques \cup {Rien}
  BY DemandeTypee DEF choisi
<1>3. d.roles \in SUBSET Roles
  BY DemandeTypee
<1> DEFINE l1 == [LigneVide EXCEPT !.existe = TRUE]
           l2 == [l1 EXCEPT !.actif = TRUE]
           l3 == [l2 EXCEPT !.roles = d.roles]
           l4 == [l3 EXCEPT !.entreprise = choisi(d.entreprise, Rien)]
           l5 == [l4 EXCEPT !.banque = choisi(d.banque, Rien)]
           l6 == [l5 EXCEPT !.mfaRequise = d.mfa = TRUE \/ requiresMfa(d.roles)]
<1>4. ligneCreee(d) = l6
  BY DEF ligneCreee
<1>5. LigneVide.secret = Rien /\ LigneVide \in Ligne
  BY LigneVideTypee DEF LigneVide
<1>6. l1 \in Ligne /\ l1.existe /\ l1.secret = Rien
  BY <1>5 DEF Ligne
<1> HIDE DEF l1
<1>7. l2 \in Ligne /\ l2.existe /\ l2.secret = Rien
  BY <1>6 DEF Ligne
<1> HIDE DEF l2
<1>8. l3 \in Ligne /\ l3.existe /\ l3.secret = Rien
  BY <1>3, <1>7 DEF Ligne
<1> HIDE DEF l3
<1>9. l4 \in Ligne /\ l4.existe /\ l4.secret = Rien
  BY <1>1, <1>8 DEF Ligne
<1> HIDE DEF l4
<1>10. l5 \in Ligne /\ l5.existe /\ l5.secret = Rien
  BY <1>2, <1>9 DEF Ligne
<1> HIDE DEF l5
<1>11. l6 \in Ligne /\ l6.existe /\ l6.secret = Rien
  BY <1>10 DEF Ligne
<1> QED
  BY <1>4, <1>11

\* What is written of an active super administrator by a command that was not
\* found to take one away is an active super administrator.
LEMMA EcritureProtegee ==
  ASSUME NEW l \in Ligne, NEW ap \in Appel,
         ap.op = "modifier" => ap.demande \in Demandes,
         ap.op \in {"modifier", "anonymiser"} => ap.lu = l /\ ~retire(ap.op, l, ap.demande),
         l.actif, "SUPER_ADMIN" \in l.roles
  PROVE  ligneEcrite(l, ap).actif /\ "SUPER_ADMIN" \in ligneEcrite(l, ap).roles
<1>1. CASE ap.op = "modifier"
  <2>1. ap.demande.actif = Rien \/ ap.demande.actif = TRUE
    BY <1>1, DemandeTypee DEF retire
  <2>2. "SUPER_ADMIN" \in prochainsRoles(ap.demande, l)
    BY <1>1 DEF retire
  <2> DEFINE m == ligneModifiee(l, ap.demande, ap.lu)
  <2>3. m.actif = IF ap.demande.actif = Rien THEN l.actif ELSE ap.demande.actif
    BY DEF ligneModifiee, Ligne
  <2>4. m.roles = prochainsRoles(ap.demande, l)
    BY <1>1 DEF ligneModifiee, Ligne
  <2> QED
    BY <1>1, <2>1, <2>2, <2>3, <2>4 DEF ligneEcrite
<1>2. CASE ap.op = "motDePasse"
  BY <1>2 DEF ligneEcrite, ligneMotDePasse, Ligne
<1>3. CASE ap.op = "mfa"
  BY <1>3 DEF ligneEcrite, ligneSansMfa, Ligne
<1>4. CASE ap.op = "anonymiser"
  BY <1>4 DEF retire
<1> QED
  BY <1>1, <1>2, <1>3, <1>4 DEF Appel, Operations

\* The row after a new TOTP seed, after a consumed step, after a confirmation.
LEMMA SecretTypee ==
  ASSUME NEW l \in Ligne, NEW s \in Nat
  PROVE  LET m == secretEnAttente(l, s) IN
         /\ m \in Ligne
         /\ m.existe = l.existe /\ m.actif = l.actif /\ m.version = l.version
         /\ m.roles = l.roles /\ m.entreprise = l.entreprise /\ m.banque = l.banque
         /\ m.secret = s
<1> DEFINE Semblable(m) ==
      /\ m.existe = l.existe /\ m.actif = l.actif /\ m.version = l.version
      /\ m.roles = l.roles /\ m.entreprise = l.entreprise /\ m.banque = l.banque
           l1 == [l EXCEPT !.secret = s]
           l2 == [l1 EXCEPT !.confirme = FALSE]
           l3 == [l2 EXCEPT !.pas = 0]
<1>1. secretEnAttente(l, s) = l3
  BY DEF secretEnAttente
<1>2. l1 \in Ligne /\ Semblable(l1) /\ l1.secret = s
  BY DEF Ligne, Secrets
<1> HIDE DEF l1
<1>3. l2 \in Ligne /\ Semblable(l2) /\ l2.secret = s
  BY <1>2 DEF Ligne
<1> HIDE DEF l2
<1>4. l3 \in Ligne /\ Semblable(l3) /\ l3.secret = s
  BY <1>3 DEF Ligne
<1> QED
  BY <1>1, <1>4

LEMMA ConnexionLibreTypee ==
  /\ ConnexionLibre \in Connexion
  /\ ConnexionLibre.code = Rien /\ ConnexionLibre.etat = "libre"
BY LigneVideTypee DEF ConnexionLibre, Connexion

\* The sign-in once findForAuthentication has answered.
connexionLue(c, l) ==
  [ConnexionLibre EXCEPT !.etat = "motDePasse", !.sub = c, !.lu = l]

LEMMA ConnexionLueTypee ==
  ASSUME NEW c \in Comptes, NEW l \in Ligne, NEW e, e = connexionLue(c, l)
  PROVE  /\ e \in Connexion /\ e.etat = "motDePasse" /\ e.sub = c /\ e.lu = l
         /\ e.code = Rien
BY DEF connexionLue, ConnexionLibre, Connexion

LEMMA ConnexionLivreeTypee ==
  ASSUME NEW c \in Comptes, NEW e,
         e = [ConnexionLibre EXCEPT !.etat = "livraison", !.sub = c]
  PROVE  e \in Connexion /\ e.etat = "livraison" /\ e.sub = c /\ e.code = Rien
BY LigneVideTypee DEF ConnexionLibre, Connexion

LEMMA ApresIdentiteTypee ==
  ASSUME NEW c \in Comptes, NEW l \in Ligne, NEW e, e = ApresIdentite(c, l)
  PROVE  /\ e \in Connexion /\ e.etat \in {"libre", "emettre", "enrolement"}
         /\ e.etat # "libre" => e.sub = c
         /\ e.etat = "emettre" => e.lu = l
         /\ e.code = Rien
BY LigneVideTypee DEF ConnexionLibre, ApresIdentite, Connexion

------------------------------------------------------------------------------
(* The forms a step takes.                                                   *)

\* Time, operations and the administrators' references: no account, sign-in,
\* token or command changes.
Repos ==
  /\ UNCHANGED <<compte, connexion, jetons, ligne, verrou, appel, graines>>
  /\ cle' \in 1..MaxCle /\ cle <= cle'
  /\ defis' \subseteq defis

\* The sign-in x reads, and becomes e.
Lecture(x, e) ==
  /\ UNCHANGED <<compte, jetons, ligne, verrou, appel, graines, cle>>
  /\ connexion' = [connexion EXCEPT ![x] = e]
  /\ e \in Connexion
  /\ e.etat # "libre" => e.sub \in Comptes /\ compte[e.sub].existe
  /\ e.etat \in EtatsAvecLigne => Fidele(e.lu, compte[e.sub])
  /\ e.etat # "confirmer" /\ (e.etat = "emettre" => e.code = Rien)
  /\ e.etat = "consommer" => e.code \in Code
  /\ e.code # Rien => e.code.secret <= graines
  /\ \A d \in defis' : d \in Defi /\ compte[d.sub].existe

LEMMA FideleReflexif ==
  ASSUME NEW l \in Ligne, l.existe
  PROVE  Fidele(l, l)
BY DEF Fidele, Ligne

LEMMA DefisTypes ==
  ASSUME NEW c \in Comptes, NEW l \in Ligne, compte[c].existe,
         Typed, Souvenirs,
         defis' \subseteq defis \cup DefiApresIdentite(c, l)
  PROVE  \A d \in defis' : d \in Defi /\ compte[d.sub].existe
BY DEF Typed, Souvenirs, DefiApresIdentite, Defi

LEMMA LectureForme ==
  ASSUME IInv, NEW x \in Connexions,
         \/ \E c \in Comptes : LireCompte(x, c)
         \/ \E valide \in BOOLEAN : ComparerMotDePasse(x, valide)
         \/ \E d \in defis, p \in Pas :
              PresenterCode(x, d, [secret |-> compte[d.sub].secret, pas |-> p])
         \/ \E j \in DOMAIN livraisons : Echanger(x, j)
         \/ LireLivre(x)
  PROVE  \E e : Lecture(x, e)
<1> USE DEF IInv
<1>1. ASSUME NEW c \in Comptes, LireCompte(x, c)
      PROVE  \E e : Lecture(x, e)
  <2> DEFINE e == connexion'[x]
  <2>1. compte[c] \in Ligne /\ compte[c].existe
    BY <1>1 DEF Typed, LireCompte
  <2>3. /\ UNCHANGED <<compte, jetons, ligne, verrou, appel, graines, cle, defis>>
        /\ connexion' = [connexion EXCEPT ![x] = e] /\ e = connexionLue(c, compte[c])
    BY <1>1 DEF LireCompte, Suite, comptesVars, Typed, connexionLue
  <2> HIDE DEF e
  <2>2. /\ e \in Connexion /\ e.etat = "motDePasse" /\ e.sub = c /\ e.lu = compte[c]
        /\ e.code = Rien
    BY <2>1, <2>3, ConnexionLueTypee
  <2>4. Lecture(x, e)
    BY <2>1, <2>2, <2>3, FideleReflexif DEF Lecture, Typed, Souvenirs
  <2> QED
    BY <2>4
<1>2. ASSUME NEW valide \in BOOLEAN, ComparerMotDePasse(x, valide)
      PROVE  \E e : Lecture(x, e)
  <2> DEFINE k == connexion[x]
             e == connexion'[x]
  <2>1. /\ k.etat = "motDePasse" /\ k.sub \in Comptes /\ k.lu \in Ligne
        /\ compte[k.sub].existe /\ Fidele(k.lu, compte[k.sub])
    BY <1>2 DEF ComparerMotDePasse, Typed, Souvenirs, EtatsAvecLigne, Connexion
  <2>2. \/ connexion' = [connexion EXCEPT ![x] = ApresIdentite(k.sub, k.lu)]
        \/ connexion' = [connexion EXCEPT ![x] = ConnexionLibre]
    BY <1>2 DEF ComparerMotDePasse, Suite
  <2>3. /\ connexion' = [connexion EXCEPT ![x] = e]
        /\ e = ApresIdentite(k.sub, k.lu) \/ e = ConnexionLibre
    BY <2>2 DEF Typed
  <2>4. /\ e \in Connexion /\ e.etat \in {"libre", "emettre", "enrolement"}
        /\ e.etat # "libre" => e.sub = k.sub
        /\ e.etat = "emettre" => e.lu = k.lu
        /\ e.code = Rien
    BY <2>1, <2>3, ApresIdentiteTypee, ConnexionLibreTypee
  <2>5. /\ UNCHANGED <<compte, jetons, ligne, verrou, appel, graines, cle>>
        /\ defis' \subseteq defis \cup DefiApresIdentite(k.sub, k.lu)
    BY <1>2 DEF ComparerMotDePasse, comptesVars
  <2>6. \A d \in defis' : d \in Defi /\ compte[d.sub].existe
    BY <2>1, <2>5, DefisTypes
  <2> HIDE DEF e
  <2>7. Lecture(x, e)
    BY <2>1, <2>3, <2>4, <2>5, <2>6 DEF Lecture, EtatsAvecLigne
  <2> QED
    BY <2>7
<1>3. ASSUME NEW d \in defis, NEW p \in Pas,
             PresenterCode(x, d, [secret |-> compte[d.sub].secret, pas |-> p])
      PROVE  \E e : Lecture(x, e)
  <2> DEFINE code == [secret |-> compte[d.sub].secret, pas |-> p]
             e == [etat |-> "consommer", sub |-> d.sub, but |-> d.but,
                   code |-> code, lu |-> compte[d.sub]]
  <2>1. /\ d \in Defi /\ d.sub \in Comptes /\ compte[d.sub] \in Ligne
        /\ compte[d.sub].existe
    BY DEF Typed, Souvenirs, Defi
  <2>2. compte[d.sub].secret \in Nat /\ compte[d.sub].secret <= graines
    BY <1>3, <2>1 DEF PresenterCode, Codes, Graines, Ligne, Secrets
  <2>3. code \in Code /\ code.secret <= graines
    BY <2>2 DEF Code, Secrets
  <2>4. /\ UNCHANGED <<compte, jetons, ligne, verrou, appel, graines, cle, defis>>
        /\ connexion' = [connexion EXCEPT ![x] = e]
    BY <1>3 DEF PresenterCode, Suite, comptesVars
  <2> HIDE DEF code
  <2>5. /\ e \in Connexion /\ e.etat = "consommer" /\ e.sub = d.sub
        /\ e.lu = compte[d.sub] /\ e.code = code
    BY <2>1, <2>3 DEF Connexion, Defi
  <2> HIDE DEF e
  <2>6. Lecture(x, e)
    BY <2>1, <2>3, <2>4, <2>5, FideleReflexif DEF Lecture, Typed, Souvenirs
  <2> QED
    BY <2>6
<1>4. ASSUME NEW j \in DOMAIN livraisons, Echanger(x, j)
      PROVE  \E e : Lecture(x, e)
  <2> DEFINE c == livraisons[j]
             e == [ConnexionLibre EXCEPT !.etat = "livraison", !.sub = c]
  <2>1. c \in Comptes /\ compte[c].existe /\ compte[c] \in Ligne
    BY DEF Livrees, Typed
  <2>2. e \in Connexion /\ e.etat = "livraison" /\ e.sub = c /\ e.code = Rien
    BY <2>1, ConnexionLivreeTypee
  <2>3. /\ UNCHANGED <<compte, jetons, ligne, verrou, appel, graines, cle, defis>>
        /\ connexion' = [connexion EXCEPT ![x] = e]
    BY <1>4 DEF Echanger, Suite, comptesVars
  <2> HIDE DEF e
  <2>4. Lecture(x, e)
    BY <2>1, <2>2, <2>3 DEF Lecture, Typed, Souvenirs, EtatsAvecLigne
  <2> QED
    BY <2>4
<1>5. ASSUME LireLivre(x)
      PROVE  \E e : Lecture(x, e)
  <2> DEFINE c == connexion[x].sub
             e == connexion'[x]
  <2>1. c \in Comptes /\ compte[c] \in Ligne /\ compte[c].existe
    BY <1>5 DEF LireLivre, Typed, Souvenirs
  <2>2. \/ connexion' = [connexion EXCEPT ![x] = ApresIdentite(c, compte[c])]
        \/ connexion' = [connexion EXCEPT ![x] = ConnexionLibre]
    BY <1>5 DEF LireLivre, Suite
  <2>3. /\ connexion' = [connexion EXCEPT ![x] = e]
        /\ e = ApresIdentite(c, compte[c]) \/ e = ConnexionLibre
    BY <2>2 DEF Typed
  <2>4. /\ e \in Connexion /\ e.etat \in {"libre", "emettre", "enrolement"}
        /\ e.etat # "libre" => e.sub = c
        /\ e.etat = "emettre" => e.lu = compte[c]
        /\ e.code = Rien
    BY <2>1, <2>3, ApresIdentiteTypee, ConnexionLibreTypee
  <2>5. /\ UNCHANGED <<compte, jetons, ligne, verrou, appel, graines, cle>>
        /\ defis' \subseteq defis \cup DefiApresIdentite(c, compte[c])
    BY <1>5 DEF LireLivre, comptesVars
  <2>6. \A d \in defis' : d \in Defi /\ compte[d.sub].existe
    BY <2>1, <2>5, DefisTypes
  <2> HIDE DEF e
  <2>7. Lecture(x, e)
    BY <2>1, <2>3, <2>4, <2>5, <2>6, FideleReflexif DEF Lecture, EtatsAvecLigne
  <2> QED
    BY <2>7
<1> QED
  BY <1>1, <1>2, <1>3, <1>4, <1>5

\* The forms together.
LEMMA Formes ==
  ASSUME IInv, [Next]_vars
  PROVE  \/ Repos
         \/ \E x \in Connexions : \E e : Lecture(x, e)
         \/ \E x \in Connexions :
              SInscrire(x) \/ ConsommerPas(x) \/ ConfirmerSecret(x) \/ Emettre(x)
         \/ \E a \in Appels : AvancerAppel(a) /\ UNCHANGED sessionsVars
         \/ \E a \in Appels, t \in jetons, op \in Operations, c \in Comptes,
               d \in Demandes \cup {Rien} :
              Demander(a, t.sub, op, c, d) /\ UNCHANGED sessionsVars
         \/ \E a \in Appels, c \in Comptes, d \in Demandes :
              Creer(a, c, d) /\ UNCHANGED sessionsVars
<1>1. CASE UNCHANGED vars
  BY <1>1 DEF Repos, vars, comptesVars, sessionsVars, IInv, Typed
<1>2. ASSUME NEW x \in Connexions, Connecter(x)
      PROVE  \/ \E e : Lecture(x, e)
             \/ SInscrire(x) \/ ConsommerPas(x) \/ ConfirmerSecret(x) \/ Emettre(x)
  BY <1>2, LectureForme DEF Connecter
<1>3. ASSUME NEW a \in Appels, Administrer(a)
      PROVE  \/ Repos
             \/ AvancerAppel(a) /\ UNCHANGED sessionsVars
             \/ \E t \in jetons, op \in Operations, c \in Comptes,
                   d \in Demandes \cup {Rien} :
                  Demander(a, t.sub, op, c, d) /\ UNCHANGED sessionsVars
             \/ \E c \in Comptes, d \in Demandes :
                  Creer(a, c, d) /\ UNCHANGED sessionsVars
  <2>1. ASSUME NEW t \in jetons, NEW r \in Entreprises \cup Banques,
               ReferenceAdmise(a, t, r)
        PROVE  Repos
    BY <2>1 DEF ReferenceAdmise, CreerReference, Repos, sessionsVars, IInv, Typed
  <2> QED
    BY <1>3, <2>1 DEF Administrer, DemandeAdmise, CreationAdmise, AppelAvance
<1>4. ASSUME NEW t \in jetons, SeDeconnecter(t) PROVE Repos
  BY <1>4 DEF SeDeconnecter, Entrer, Repos, comptesVars, IInv, Typed
<1>5. CASE CommencerOidc
  BY <1>5 DEF CommencerOidc, Repos, comptesVars, IInv, Typed
<1>6. ASSUME NEW c \in Comptes, NEW vouee \in BOOLEAN, RetourOidc(c, vouee)
      PROVE  Repos
  BY <1>6 DEF RetourOidc, Entrer, Repos, comptesVars, IInv, Typed
<1>7. CASE JetonExpire
  BY <1>7 DEF JetonExpire, Repos, comptesVars, IInv, Typed
<1>8. CASE ReferenceTemporaireExpire
  BY <1>8 DEF ReferenceTemporaireExpire, Repos, comptesVars, IInv, Typed
<1>9. CASE PasSuivant
  BY <1>9 DEF PasSuivant, Repos, comptesVars, IInv, Typed
<1>10. CASE Rotation
  BY <1>10, SessionsAssumption DEF Rotation, Repos, comptesVars, IInv, Typed
<1> QED
  BY <1>1, <1>2, <1>3, <1>4, <1>5, <1>6, <1>7, <1>8, <1>9, <1>10 DEF Next

------------------------------------------------------------------------------
(* What a step does to the rows.                                             *)

\* The row of c becomes m.
Change(c, m) ==
  /\ c \in Comptes
  /\ compte' = [compte EXCEPT ![c] = m]
  /\ m \in Ligne /\ m.existe
  /\ Evolution(compte[c], m)
  /\ m.secret \in {Rien, compte[c].secret, graines + 1}

LEMMA EcrireChange ==
  ASSUME IInv, NEW a \in Appels, Ecrire(a)
  PROVE  Change(appel[a].cible, ligneEcrite(compte[appel[a].cible], appel[a]))
<1> DEFINE c == appel[a].cible
           l == compte[c]
           m == ligneEcrite(l, appel[a])
<1>1. c \in Comptes /\ appel[a] \in Appel /\ l \in Ligne
  BY DEF IInv, Typed, Ecrire
<1>2. appel[a].op = "modifier" => appel[a].demande \in Demandes
  BY DEF IInv, Verrous, VerrouDe, Ecrire
<1>6. l.existe
  BY DEF IInv, Verrous, VerrouDe, Ecrire, Lue
<1>3. /\ m \in Ligne
      /\ m.existe = l.existe /\ m.version = l.version + 1
      /\ (m.secret = l.secret /\ m.pas = l.pas) \/ m.secret = Rien
  BY <1>1, <1>2, EcritureTypee
<1>4. compte' = [compte EXCEPT ![c] = m]
  BY DEF Ecrire
<1> HIDE DEF m
<1>5. Evolution(l, m)
  BY <1>1, <1>3 DEF Evolution, Fidele, Ligne
<1> QED
  BY <1>1, <1>3, <1>4, <1>5, <1>6 DEF Change, m

LEMMA CreerChange ==
  ASSUME IInv, NEW a \in Appels, NEW c \in Comptes, NEW d \in Demandes, Creer(a, c, d)
  PROVE  \/ compte' = compte
         \/ /\ Change(c, ligneCreee(d)) /\ ~compte[c].existe
            /\ ligneCreee(d).secret = Rien
<1>1. CASE compte' = compte
  BY <1>1
<1>2. CASE compte' # compte
  <2>1. /\ compte' = [compte EXCEPT ![c] = ligneCreee(d)]
        /\ d.roles # Rien /\ ~compte[c].existe
    BY <1>2 DEF Creer, ligneCreee
  <2>2. ligneCreee(d) \in Ligne /\ ligneCreee(d).existe /\ ligneCreee(d).secret = Rien
    BY <2>1, CreationTypee
  <2> QED
    BY <2>1, <2>2 DEF Change, Evolution
<1> QED
  BY <1>1, <1>2

LEMMA SInscrireChange ==
  ASSUME IInv, NEW x \in Connexions, SInscrire(x)
  PROVE  LET c == connexion[x].sub
             m == secretEnAttente(compte[c], graines + 1)
         IN Change(c, m) /\ m.secret = graines + 1 /\ m.existe
<1> DEFINE c == connexion[x].sub
           l == compte[c]
           m == secretEnAttente(l, graines + 1)
<1>1. c \in Comptes /\ l \in Ligne /\ graines + 1 \in Nat /\ l.existe
  BY DEF IInv, Typed, SInscrire, Souvenirs
<1>2. /\ m \in Ligne
      /\ m.existe = l.existe /\ m.actif = l.actif /\ m.version = l.version
      /\ m.roles = l.roles /\ m.entreprise = l.entreprise /\ m.banque = l.banque
      /\ m.secret = graines + 1
  BY <1>1, SecretTypee
<1>3. l.secret # graines + 1
  <2>1. l.secret # Rien => l.secret <= graines
    BY <1>1 DEF IInv, Codes, Graines
  <2>2. l.secret \in Nat \cup {Rien}
    BY <1>1 DEF Ligne, Secrets
  <2> QED
    BY <1>1, <2>1, <2>2, ComptesAssumption DEF IInv, Typed
<1>4. compte' = [compte EXCEPT ![c] = m]
  BY DEF SInscrire
<1> HIDE DEF m
<1>5. Evolution(l, m)
  BY <1>1, <1>2, <1>3 DEF Evolution, Fidele, Ligne
<1> QED
  BY <1>1, <1>2, <1>4, <1>5 DEF Change, m

LEMMA ConsommerPasChange ==
  ASSUME IInv, NEW x \in Connexions, ConsommerPas(x)
  PROVE  LET k == connexion[x]
             m == [compte[k.sub] EXCEPT !.pas = k.code.pas]
         IN \/ compte' = compte /\ connexion' = [connexion EXCEPT ![x] = ConnexionLibre]
            \/ /\ Change(k.sub, m)
               /\ compte[k.sub].pas = 0 \/ compte[k.sub].pas < k.code.pas
               /\ m.secret = compte[k.sub].secret /\ m.pas = k.code.pas
<1> DEFINE k == connexion[x]
           l == compte[k.sub]
           m == [l EXCEPT !.pas = k.code.pas]
<1>1. k.sub \in Comptes /\ l \in Ligne /\ k.code.pas \in Nat /\ l.existe
  BY DEF IInv, Typed, ConsommerPas, Code, Pas, Souvenirs
<1>2. CASE ~pasConsommable(l.pas, k.code.pas)
  BY <1>2 DEF ConsommerPas, Suite
<1>3. CASE pasConsommable(l.pas, k.code.pas)
  <2>1. compte' = [compte EXCEPT ![k.sub] = m]
    BY <1>3 DEF ConsommerPas
  <2>2. l.pas = 0 \/ l.pas < k.code.pas
    BY <1>3 DEF pasConsommable
  <2>3. /\ m \in Ligne /\ m.secret = l.secret /\ m.pas = k.code.pas
        /\ m.existe = l.existe /\ m.version = l.version /\ m.roles = l.roles
        /\ m.actif = l.actif /\ m.entreprise = l.entreprise /\ m.banque = l.banque
    BY <1>1 DEF Ligne
  <2> HIDE DEF m
  <2>4. Evolution(l, m)
    BY <1>1, <2>2, <2>3 DEF Evolution, Fidele, Ligne
  <2> QED
    BY <1>1, <2>1, <2>2, <2>3, <2>4 DEF Change, m
<1> QED
  BY <1>2, <1>3

LEMMA ConfirmerSecretChange ==
  ASSUME IInv, NEW x \in Connexions, ConfirmerSecret(x)
  PROVE  LET c == connexion[x].sub
             m == [compte[c] EXCEPT !.confirme = TRUE]
         IN Change(c, m) /\ m.secret = compte[c].secret /\ m.pas = compte[c].pas
<1> DEFINE c == connexion[x].sub
           l == compte[c]
           m == [l EXCEPT !.confirme = TRUE]
<1>1. c \in Comptes /\ l \in Ligne /\ l.existe
  BY DEF IInv, Typed, ConfirmerSecret, Souvenirs
<1>2. compte' = [compte EXCEPT ![c] = m]
  BY DEF ConfirmerSecret
<1>3. /\ m \in Ligne /\ m.secret = l.secret /\ m.pas = l.pas
      /\ m.existe = l.existe /\ m.version = l.version /\ m.roles = l.roles
      /\ m.actif = l.actif /\ m.entreprise = l.entreprise /\ m.banque = l.banque
  BY <1>1 DEF Ligne
<1> HIDE DEF m
<1>4. Evolution(l, m)
  BY <1>1, <1>3 DEF Evolution, Fidele, Ligne
<1> QED
  BY <1>1, <1>2, <1>3, <1>4 DEF Change, m

LEMMA Rangees ==
  ASSUME IInv, [Next]_vars
  PROVE  /\ compte' \in [Comptes -> Ligne]
         /\ \A c \in Comptes : Evolution(compte[c], compte'[c])
         /\ \A c \in Comptes : compte'[c].actif => compte'[c].existe
         /\ \A c \in Comptes : compte'[c].secret \in {Rien, compte[c].secret, graines + 1}
<1> DEFINE Conclusion ==
      /\ compte' \in [Comptes -> Ligne]
      /\ \A c \in Comptes : Evolution(compte[c], compte'[c])
      /\ \A c \in Comptes : compte'[c].actif => compte'[c].existe
      /\ \A c \in Comptes : compte'[c].secret \in {Rien, compte[c].secret, graines + 1}
<1>1. \A c \in Comptes : Evolution(compte[c], compte[c])
  BY DEF IInv, Typed, Evolution, Fidele, Ligne
<1>2. ASSUME compte' = compte PROVE Conclusion
  BY <1>1, <1>2 DEF IInv, Typed
<1>3. ASSUME NEW c, NEW m, Change(c, m) PROVE Conclusion
  BY <1>1, <1>3 DEF IInv, Typed, Change
<1> HIDE DEF Conclusion
<1>4. ASSUME Repos PROVE Conclusion
  BY <1>2, <1>4 DEF Repos
<1>5. ASSUME \E x \in Connexions : \E e : Lecture(x, e) PROVE Conclusion
  BY <1>2, <1>5 DEF Lecture
<1>6. ASSUME NEW x \in Connexions,
             SInscrire(x) \/ ConsommerPas(x) \/ ConfirmerSecret(x) \/ Emettre(x)
      PROVE  Conclusion
  BY <1>2, <1>3, <1>6, SInscrireChange, ConsommerPasChange, ConfirmerSecretChange
     DEF Emettre, comptesVars
<1>7. ASSUME NEW a \in Appels, AvancerAppel(a) PROVE Conclusion
  <2>1. CASE Ecrire(a)
    BY <1>3, <2>1, EcrireChange
  <2> QED
    BY <1>2, <1>7, <2>1 DEF AvancerAppel, Verrouiller, LireCible, CompterSuperAdmins
<1>8. ASSUME NEW a, NEW s, NEW op, NEW c, NEW d, Demander(a, s, op, c, d)
      PROVE  Conclusion
  BY <1>2, <1>8 DEF Demander
<1>9. ASSUME NEW a \in Appels, NEW c \in Comptes, NEW d \in Demandes, Creer(a, c, d)
      PROVE  Conclusion
  BY <1>2, <1>3, <1>9, CreerChange
<1> QED
  BY <1>4, <1>5, <1>6, <1>7, <1>8, <1>9, Formes DEF Conclusion

------------------------------------------------------------------------------
THEOREM TypedInit == Init => Typed
BY ComptesAssumption, SessionsAssumption, LigneVideTypee, FS_CardinalityType
   DEF Init, ComptesInit, Typed, Appel, AppelLibre, Etapes, Operations,
       Connexion, ConnexionLibre

THEOREM TypedStep ==
  ASSUME IInv, [Next]_vars
  PROVE  Typed'
<1> DEFINE Lignes == /\ compte' \in [Comptes -> Ligne]
                     /\ \A c \in Comptes : compte'[c].actif => compte'[c].existe
<1>1. Lignes
  BY Rangees
<1> HIDE DEF Lignes
<1>2. CASE Repos
  <2>1. /\ UNCHANGED <<connexion, jetons, ligne, verrou, appel, graines>>
        /\ cle' \in 1..MaxCle /\ defis' \subseteq defis
    BY <1>2 DEF Repos
  <2> QED
    BY <1>1, <2>1 DEF IInv, Typed, Lignes
<1>3. ASSUME NEW x \in Connexions, NEW e, Lecture(x, e) PROVE Typed'
  <2>1. /\ UNCHANGED <<jetons, ligne, verrou, appel, graines, cle>>
        /\ connexion' = [connexion EXCEPT ![x] = e]
        /\ e \in Connexion
        /\ e.etat # "libre" => e.sub \in Comptes
        /\ e.etat = "consommer" => e.code \in Code
        /\ defis' \subseteq Defi
    BY <1>3 DEF Lecture
  <2> QED
    BY <1>1, <2>1 DEF IInv, Typed, Lignes
<1>4. ASSUME NEW x \in Connexions, SInscrire(x) PROVE Typed'
  <2>1. connexion[x].sub \in Comptes /\ graines' \in Nat
    BY <1>4 DEF IInv, Typed, SInscrire
  <2>2. defis' \subseteq Defi
    BY <1>4, <2>1 DEF IInv, Typed, SInscrire, Defi
  <2>3. /\ UNCHANGED <<appel, ligne, verrou, jetons, cle>>
        /\ connexion' = [connexion EXCEPT ![x] = ConnexionLibre]
    BY <1>4 DEF SInscrire, Finir, Suite
  <2> QED
    BY <1>1, <2>1, <2>2, <2>3, ConnexionLibreTypee DEF IInv, Typed, Lignes
<1>5. ASSUME NEW x \in Connexions, ConsommerPas(x) PROVE Typed'
  <2> DEFINE k == connexion[x]
             e == connexion'[x]
  <2>1. k \in Connexion /\ k.sub \in Comptes
    BY <1>5 DEF IInv, Typed, ConsommerPas
  <2>2. /\ UNCHANGED <<appel, ligne, verrou, jetons, cle, graines, defis>>
        /\ connexion' = [connexion EXCEPT ![x] = e]
        /\ \/ e = ConnexionLibre
           \/ e = [k EXCEPT !.etat = IF k.but = "mfa_setup" THEN "confirmer" ELSE "emettre"]
    BY <1>5 DEF ConsommerPas, Suite, IInv, Typed
  <2>3. e \in Connexion /\ (e.etat # "libre" => e.sub \in Comptes) /\ e.etat # "consommer"
    BY <2>1, <2>2, ConnexionLibreTypee DEF Connexion
  <2> HIDE DEF e
  <2> QED
    BY <1>1, <2>2, <2>3 DEF IInv, Typed, Lignes
<1>6. ASSUME NEW x \in Connexions, ConfirmerSecret(x) PROVE Typed'
  <2> DEFINE k == connexion[x]
             e == [k EXCEPT !.etat = "emettre"]
  <2>1. k \in Connexion /\ k.sub \in Comptes
    BY <1>6 DEF IInv, Typed, ConfirmerSecret
  <2>2. /\ UNCHANGED <<appel, ligne, verrou, jetons, cle, graines, defis>>
        /\ connexion' = [connexion EXCEPT ![x] = e]
    BY <1>6 DEF ConfirmerSecret, Suite
  <2>3. e \in Connexion /\ e.sub \in Comptes /\ e.etat = "emettre"
    BY <2>1 DEF Connexion
  <2> HIDE DEF e
  <2> QED
    BY <1>1, <2>2, <2>3 DEF IInv, Typed, Lignes
<1>7. ASSUME NEW x \in Connexions, Emettre(x) PROVE Typed'
  <2> DEFINE k == connexion[x]
             j == NouveauJeton(k.sub, k.lu, k.code)
  <2>1. k \in Connexion /\ k.sub \in Comptes
    BY <1>7 DEF IInv, Typed, Emettre
  <2>2. Cardinality(jetons) + 1 \in Nat
    BY FS_CardinalityType DEF IInv, Typed
  <2>3. j \in Jeton
    BY <2>1, <2>2 DEF NouveauJeton, Jeton, Connexion, Ligne, IInv, Typed
  <2>4. /\ UNCHANGED <<appel, ligne, verrou, cle, graines, defis>>
        /\ jetons' = jetons \cup {j}
        /\ connexion' = [connexion EXCEPT ![x] = ConnexionLibre]
    BY <1>7 DEF Emettre, Finir, Suite, comptesVars
  <2> HIDE DEF j
  <2>5. IsFiniteSet(jetons')
    BY <2>4, FS_AddElement DEF IInv, Typed
  <2> QED
    BY <1>1, <2>3, <2>4, <2>5, ConnexionLibreTypee DEF IInv, Typed, Lignes
<1>8. ASSUME NEW a \in Appels, AvancerAppel(a), UNCHANGED sessionsVars PROVE Typed'
  <2> DEFINE ap == appel'[a]
  <2>0. appel[a] \in Appel /\ AppelLibre \in Appel /\ AppelLibre.etat = "libre"
    BY LigneVideTypee DEF IInv, Typed, AppelLibre, Appel, Etapes, Operations
  <2>1. /\ UNCHANGED <<connexion, jetons, cle, graines, defis>>
        /\ appel' = [appel EXCEPT ![a] = ap]
    BY <1>8 DEF sessionsVars, IInv, Typed, AvancerAppel, Verrouiller, LireCible,
                CompterSuperAdmins, Ecrire
  <2>2. /\ ligne' \in [Comptes -> Appels \cup {Rien}]
        /\ verrou' \in Appels \cup {Rien}
    BY <1>8 DEF IInv, Typed, AvancerAppel, Verrouiller, LireCible,
                CompterSuperAdmins, Ecrire
  <2>3. ap \in Appel /\ (ap.etat # "libre" => ap.cible \in Comptes)
    <3>1. CASE Verrouiller(a)
      <4>1. ap = [appel[a] EXCEPT !.etat = "verrouille"] /\ appel[a].cible \in Comptes
        BY <3>1 DEF Verrouiller, IInv, Typed
      <4> HIDE DEF ap
      <4> QED
        BY <2>0, <4>1 DEF Appel, Etapes
    <3>2. CASE LireCible(a)
      <4>1. appel[a].cible \in Comptes
        BY <3>2 DEF LireCible, IInv, Typed
      <4>2. ap = AppelLibre \/ ap = [appel[a] EXCEPT !.etat = "lu", !.lu = compte[appel[a].cible]]
        BY <3>2 DEF LireCible, IInv, Typed
      <4>3. compte[appel[a].cible] \in Ligne
        BY <4>1 DEF IInv, Typed
      <4> HIDE DEF ap
      <4>4. CASE ap = [appel[a] EXCEPT !.etat = "lu", !.lu = compte[appel[a].cible]]
        <5> DEFINE e1 == [appel[a] EXCEPT !.etat = "lu"]
        <5>1. e1 \in Appel /\ e1.cible = appel[a].cible
          BY <2>0 DEF Appel, Etapes
        <5>2. ap = [e1 EXCEPT !.lu = compte[appel[a].cible]]
          BY <4>4
        <5> HIDE DEF e1
        <5> QED
          BY <4>1, <4>3, <5>1, <5>2 DEF Appel
      <4> QED
        BY <2>0, <4>2, <4>4
    <3>3. CASE CompterSuperAdmins(a)
      <4>1. appel[a].cible \in Comptes
        BY <3>3 DEF CompterSuperAdmins, IInv, Typed
      <4>2. ap = AppelLibre \/ ap = [appel[a] EXCEPT !.etat = "compte"]
        BY <3>3 DEF CompterSuperAdmins, IInv, Typed
      <4> HIDE DEF ap
      <4> QED
        BY <2>0, <4>1, <4>2 DEF Appel, Etapes
    <3>4. CASE Ecrire(a)
      BY <2>0, <3>4 DEF Ecrire, IInv, Typed
    <3> QED
      BY <1>8, <3>1, <3>2, <3>3, <3>4 DEF AvancerAppel
  <2> HIDE DEF ap
  <2> QED
    BY <1>1, <2>1, <2>2, <2>3 DEF IInv, Typed, Lignes
<1>9. ASSUME NEW a \in Appels, NEW t \in jetons, NEW op \in Operations,
             NEW c \in Comptes, NEW d \in Demandes \cup {Rien},
             Demander(a, t.sub, op, c, d), UNCHANGED sessionsVars
      PROVE  Typed'
  <2> DEFINE ap == [etat |-> "demande", op |-> op, acteur |-> t.sub, cible |-> c,
                    demande |-> d, lu |-> LigneVide]
  <2>1. t.sub \in Comptes
    BY DEF IInv, Typed, Jeton
  <2>2. ap \in Appel /\ ap.cible \in Comptes
    BY <2>1, LigneVideTypee DEF Appel, Etapes
  <2>3. /\ UNCHANGED <<ligne, verrou, connexion, jetons, cle, graines, defis>>
        /\ appel' = appel \/ appel' = [appel EXCEPT ![a] = ap]
    BY <1>9 DEF Demander, sessionsVars
  <2> HIDE DEF ap
  <2> QED
    BY <1>1, <2>2, <2>3 DEF IInv, Typed, Lignes
<1>10. ASSUME NEW a \in Appels, NEW c \in Comptes, NEW d \in Demandes,
              Creer(a, c, d), UNCHANGED sessionsVars
       PROVE  Typed'
  BY <1>1, <1>10 DEF Creer, sessionsVars, IInv, Typed, Lignes
<1> QED
  BY <1>2, <1>3, <1>4, <1>5, <1>6, <1>7, <1>8, <1>9, <1>10, Formes

------------------------------------------------------------------------------
THEOREM VerrousStep ==
  ASSUME IInv, [Next]_vars
  PROVE  Verrous'
<1> SUFFICES ASSUME NEW b \in Appels PROVE VerrouDe(b)'
  BY DEF Verrous
<1> DEFINE c == appel[b].cible
<1>0. /\ VerrouDe(b) /\ appel[b] \in Appel
      /\ verrou \in Appels \cup {Rien} /\ ligne \in [Comptes -> Appels \cup {Rien}]
      /\ appel[b].etat # "libre" => c \in Comptes
      /\ Rien \notin Appels
  BY ComptesAssumption DEF IInv, Typed, Verrous
\* A step that leaves the commands and the locks alone, and b's row if b read it.
<1>1. ASSUME UNCHANGED <<appel, verrou, ligne>>,
             Lue(b) => compte'[c] = compte[c]
      PROVE  VerrouDe(b)'
  BY <1>0, <1>1 DEF VerrouDe, Lue, Transaction
<1>2. CASE Repos
  BY <1>1, <1>2 DEF Repos
<1>3. ASSUME NEW x \in Connexions, NEW e, Lecture(x, e) PROVE VerrouDe(b)'
  BY <1>1, <1>3 DEF Lecture
<1>4. ASSUME NEW d, NEW m, Change(d, m), ligne[d] = Rien, UNCHANGED <<appel, verrou, ligne>>
      PROVE  VerrouDe(b)'
  <2>1. Lue(b) => c # d /\ c \in Comptes
    BY <1>0, <1>4 DEF VerrouDe, Lue
  <2> QED
    BY <1>1, <1>4, <2>1 DEF Change, IInv, Typed
<1>5. ASSUME NEW x \in Connexions, SInscrire(x) PROVE VerrouDe(b)'
  <2>1. ligne[connexion[x].sub] = Rien /\ UNCHANGED <<appel, verrou, ligne>>
    BY <1>5 DEF SInscrire
  <2> QED
    BY <1>4, <1>5, <2>1, SInscrireChange
<1>6. ASSUME NEW x \in Connexions, ConsommerPas(x) PROVE VerrouDe(b)'
  <2>1. ligne[connexion[x].sub] = Rien /\ UNCHANGED <<appel, verrou, ligne>>
    BY <1>6 DEF ConsommerPas
  <2> QED
    BY <1>1, <1>4, <1>6, <2>1, ConsommerPasChange
<1>7. ASSUME NEW x \in Connexions, ConfirmerSecret(x) PROVE VerrouDe(b)'
  <2>1. ligne[connexion[x].sub] = Rien /\ UNCHANGED <<appel, verrou, ligne>>
    BY <1>7 DEF ConfirmerSecret
  <2> QED
    BY <1>4, <1>7, <2>1, ConfirmerSecretChange
<1>8. ASSUME NEW x \in Connexions, Emettre(x) PROVE VerrouDe(b)'
  BY <1>1, <1>8 DEF Emettre, comptesVars
<1>9. ASSUME NEW a \in Appels, Verrouiller(a) PROVE VerrouDe(b)'
  <2>1. /\ appel[a].etat = "demande" /\ appel[a].op \in {"modifier", "anonymiser"}
        /\ verrou = Rien /\ verrou' = a
        /\ appel' = [appel EXCEPT ![a].etat = "verrouille"]
        /\ UNCHANGED <<compte, ligne>>
    BY <1>9 DEF Verrouiller, VerrouLibre
  <2>2. CASE b = a
    <3>1. /\ appel'[b].etat = "verrouille" /\ appel'[b].op = appel[b].op
          /\ appel'[b].demande = appel[b].demande
      BY <2>1, <2>2 DEF IInv, Typed, Appel
    <3> QED
      BY <1>0, <2>1, <2>2, <3>1 DEF VerrouDe, Lue, Transaction
  <2>3. CASE b # a
    <3>1. appel'[b] = appel[b]
      BY <2>1, <2>3 DEF IInv, Typed
    <3> QED
      BY <1>0, <2>1, <2>3, <3>1 DEF VerrouDe, Lue, Transaction
  <2> QED
    BY <2>2, <2>3
<1>10. ASSUME NEW a \in Appels, LireCible(a) PROVE VerrouDe(b)'
  <2> DEFINE d == appel[a].cible
             refus == refuseApresLecture(appel[a].op, compte[d], appel[a].demande)
  <2>0. VerrouDe(a) /\ d \in Comptes /\ appel[a] \in Appel
    BY <1>10 DEF LireCible, IInv, Typed, Verrous
  <2>1. CASE b # a
    <3>1. /\ appel'[b] = appel[b] /\ compte' = compte
          /\ ligne[d] = Rien
          /\ ligne' = ligne \/ ligne' = [ligne EXCEPT ![d] = a]
          /\ verrou' = verrou \/ (verrou' = Rien /\ verrou = a)
      BY <1>10, <2>1 DEF LireCible, IInv, Typed
    <3>2. Lue(b) => c # d /\ c \in Comptes
      BY <1>0, <3>1 DEF VerrouDe, Lue
    <3>3. Lue(b) => ligne'[c] = ligne[c]
      BY <1>0, <2>0, <3>1, <3>2
    <3> QED
      BY <1>0, <2>1, <3>1, <3>3 DEF VerrouDe, Lue, Transaction
  <2>2. CASE b = a /\ refus
    <3>1. /\ appel'[b] = AppelLibre
          /\ verrou' = IF verrou = a THEN Rien ELSE verrou
      BY <1>10, <2>2 DEF LireCible, IInv, Typed
    <3> QED
      BY <1>0, <2>2, <3>1 DEF VerrouDe, Lue, Transaction, AppelLibre
  <2>3. CASE b = a /\ ~refus
    <3>1. /\ appel' = [appel EXCEPT ![a] = [@ EXCEPT !.etat = "lu", !.lu = compte[d]]]
          /\ verrou' = verrou /\ compte' = compte
          /\ ligne' = [ligne EXCEPT ![d] = a]
          /\ \/ appel[a].etat = "verrouille"
             \/ appel[a].etat = "demande" /\ appel[a].op \in {"motDePasse", "mfa"}
      BY <1>10, <2>3 DEF LireCible
    <3>2. /\ appel'[a].etat = "lu" /\ appel'[a].lu = compte[d]
          /\ appel'[a].op = appel[a].op /\ appel'[a].cible = d
          /\ appel'[a].demande = appel[a].demande
      BY <2>0, <3>1 DEF IInv, Typed, Appel
    <3>3. compte[d].existe /\ ligne'[d] = a
      BY <1>0, <2>0, <2>3, <3>1 DEF refuseApresLecture
    <3> QED
      BY <1>0, <2>0, <2>3, <3>1, <3>2, <3>3 DEF VerrouDe, Lue, Transaction
  <2> QED
    BY <2>1, <2>2, <2>3
\* A command that ends gives back what it held.
<1>11. ASSUME NEW a \in Appels, Lue(a),
              appel' = [appel EXCEPT ![a] = AppelLibre],
              verrou' = IF verrou = a THEN Rien ELSE verrou,
              ligne' = [ligne EXCEPT ![appel[a].cible] = Rien],
              Lue(b) /\ b # a => compte'[c] = compte[c]
       PROVE  VerrouDe(b)'
  <2> DEFINE d == appel[a].cible
  <2>0. VerrouDe(a) /\ d \in Comptes
    BY <1>11 DEF IInv, Typed, Verrous, Lue
  <2>1. CASE b = a
    <3>1. appel'[b] = AppelLibre
      BY <1>11, <2>1 DEF IInv, Typed
    <3> QED
      BY <1>0, <1>11, <2>1, <3>1 DEF VerrouDe, Lue, Transaction, AppelLibre
  <2>2. CASE b # a
    <3>1. appel'[b] = appel[b]
      BY <1>11, <2>2 DEF IInv, Typed
    <3>2. Lue(b) => ligne'[c] = ligne[c]
      BY <1>0, <1>11, <2>0, <2>2 DEF VerrouDe, Lue
    <3> QED
      BY <1>0, <1>11, <2>2, <3>1, <3>2 DEF VerrouDe, Lue, Transaction
  <2> QED
    BY <2>1, <2>2
<1>12. ASSUME NEW a \in Appels, CompterSuperAdmins(a) PROVE VerrouDe(b)'
  <2>0. /\ VerrouDe(a) /\ Lue(a) /\ Transaction(a) /\ verrou = a /\ compte' = compte
        /\ appel[a] \in Appel
    BY <1>12 DEF CompterSuperAdmins, Verrous, VerrouDe, IInv, Lue, Transaction, Typed
  <2>1. CASE appel' = [appel EXCEPT ![a] = AppelLibre]
             /\ verrou' = Rien /\ ligne' = [ligne EXCEPT ![appel[a].cible] = Rien]
    BY <1>11, <2>0, <2>1
  <2>2. CASE appel' = [appel EXCEPT ![a] = [@ EXCEPT !.etat = "compte"]]
             /\ verrou' = verrou /\ ligne' = ligne
    <3>1. CASE b = a
      <4>1. /\ appel'[b].etat = "compte" /\ appel'[b].op = appel[b].op
            /\ appel'[b].cible = c /\ appel'[b].lu = appel[b].lu
            /\ appel'[b].demande = appel[b].demande
        BY <2>0, <2>2, <3>1 DEF IInv, Typed, Appel
      <4> QED
        BY <1>0, <1>12, <2>0, <2>2, <3>1, <4>1 DEF VerrouDe, Lue, Transaction, CompterSuperAdmins
    <3>2. CASE b # a
      <4>1. appel'[b] = appel[b]
        BY <2>2, <3>2 DEF IInv, Typed
      <4> QED
        BY <1>0, <2>0, <2>2, <4>1 DEF VerrouDe, Lue, Transaction
    <3> QED
      BY <3>1, <3>2
  <2> QED
    BY <1>12, <2>1, <2>2 DEF CompterSuperAdmins
<1>13. ASSUME NEW a \in Appels, Ecrire(a) PROVE VerrouDe(b)'
  <2>1. /\ VerrouDe(a) /\ Lue(a) /\ appel[a].cible \in Comptes
        /\ appel' = [appel EXCEPT ![a] = AppelLibre]
        /\ verrou' = IF verrou = a THEN Rien ELSE verrou
        /\ ligne' = [ligne EXCEPT ![appel[a].cible] = Rien]
    BY <1>13 DEF Ecrire, Lue, IInv, Typed, Verrous
  <2>2. Lue(b) /\ b # a => c # appel[a].cible
    BY <1>0, <2>1 DEF VerrouDe
  <2>3. Lue(b) /\ b # a => compte'[c] = compte[c]
    BY <1>0, <1>13, <2>2 DEF Ecrire, IInv, Typed, Lue
  <2> QED
    BY <1>11, <2>1, <2>3
<1>14. ASSUME NEW a \in Appels, NEW s, NEW op, NEW d,
              NEW m \in Demandes \cup {Rien}, Demander(a, s, op, d, m)
       PROVE  VerrouDe(b)'
  <2>1. CASE b # a \/ appel' = appel
    <3>1. appel'[b] = appel[b] /\ UNCHANGED <<compte, verrou, ligne>>
      BY <1>14, <2>1 DEF Demander, IInv, Typed
    <3> QED
      BY <1>0, <3>1 DEF VerrouDe, Lue, Transaction
  <2>2. CASE b = a /\ appel' # appel
    <3>1. /\ appel'[b] = [etat |-> "demande", op |-> op, acteur |-> s, cible |-> d,
                          demande |-> m, lu |-> LigneVide]
          /\ appel[b].etat = "libre" /\ UNCHANGED <<compte, verrou, ligne>>
          /\ op = "modifier" => m \in Demandes
      BY <1>14, <2>2 DEF Demander, IInv, Typed
    <3> QED
      BY <1>0, <3>1 DEF VerrouDe, Lue, Transaction
  <2> QED
    BY <2>1, <2>2
<1>15. ASSUME NEW a \in Appels, NEW d \in Comptes, NEW m \in Demandes, Creer(a, d, m)
       PROVE  VerrouDe(b)'
  <2>1. UNCHANGED <<appel, verrou, ligne>>
    BY <1>15 DEF Creer
  <2>2. Lue(b) => compte'[c] = compte[c]
    BY <1>0, <1>15, CreerChange DEF Change, IInv, Typed, VerrouDe, Lue
  <2> QED
    BY <1>1, <2>1, <2>2
<1> QED
  BY <1>2, <1>3, <1>5, <1>6, <1>7, <1>8, <1>9, <1>10, <1>12, <1>13, <1>14, <1>15, Formes
     DEF AvancerAppel

------------------------------------------------------------------------------
(* The last super administrator.                                             *)

\* The writes that may take the account s away.
Retrait(a, s) ==
  /\ Ecrire(a) /\ appel[a].etat = "compte" /\ appel[a].cible = s
  /\ retire(appel[a].op, appel[a].lu, appel[a].demande)

\* Nothing else does.
LEMMA SuperAdminGarde ==
  ASSUME IInv, [Next]_vars, NEW s \in Comptes, superAdminActif(s)
  PROVE  superAdminActif(s)' \/ \E a \in Appels : Retrait(a, s)
<1>0. compte[s] \in Ligne /\ compte[s].existe
  BY DEF IInv, Typed, superAdminActif
<1>1. ASSUME compte'[s] = compte[s] PROVE superAdminActif(s)'
  BY <1>1 DEF superAdminActif
<1>2. CASE Repos
  BY <1>1, <1>2 DEF Repos
<1>3. ASSUME NEW x \in Connexions, NEW e, Lecture(x, e) PROVE superAdminActif(s)'
  BY <1>1, <1>3 DEF Lecture
<1>4. ASSUME NEW x \in Connexions, SInscrire(x) PROVE superAdminActif(s)'
  <2> DEFINE c == connexion[x].sub
             m == secretEnAttente(compte[c], graines + 1)
  <2>1. c \in Comptes /\ compte[c] \in Ligne /\ graines + 1 \in Nat
    BY <1>4 DEF SInscrire, IInv, Typed
  <2>2. m.actif = compte[c].actif /\ m.roles = compte[c].roles
    BY <2>1, SecretTypee
  <2>3. compte' = [compte EXCEPT ![c] = m]
    BY <1>4 DEF SInscrire
  <2> HIDE DEF m
  <2> QED
    BY <2>1, <2>2, <2>3 DEF superAdminActif, IInv, Typed
<1>5. ASSUME NEW x \in Connexions, ConsommerPas(x) PROVE superAdminActif(s)'
  <2>1. \/ compte' = compte
        \/ compte' = [compte EXCEPT ![connexion[x].sub].pas = connexion[x].code.pas]
    BY <1>5 DEF ConsommerPas
  <2> QED
    BY <1>0, <1>1, <2>1 DEF superAdminActif, IInv, Typed, Ligne
<1>6. ASSUME NEW x \in Connexions, ConfirmerSecret(x) PROVE superAdminActif(s)'
  <2>1. compte' = [compte EXCEPT ![connexion[x].sub].confirme = TRUE]
    BY <1>6 DEF ConfirmerSecret
  <2> QED
    BY <1>0, <2>1 DEF superAdminActif, IInv, Typed, Ligne
<1>7. ASSUME NEW x \in Connexions, Emettre(x) PROVE superAdminActif(s)'
  BY <1>1, <1>7 DEF Emettre, comptesVars
<1>8. ASSUME NEW a \in Appels, AvancerAppel(a)
      PROVE  superAdminActif(s)' \/ Retrait(a, s)
  <2>1. CASE compte' = compte
    BY <1>1, <2>1
  <2>2. CASE Ecrire(a) /\ ~Retrait(a, s)
    <3> DEFINE ap == appel[a]
               m == ligneEcrite(compte[ap.cible], ap)
    <3>1. /\ VerrouDe(a) /\ ap \in Appel /\ ap.cible \in Comptes
          /\ compte' = [compte EXCEPT ![ap.cible] = m]
      BY <2>2 DEF Ecrire, IInv, Verrous, Typed
    <3>2. CASE ap.cible # s
      BY <1>1, <3>1, <3>2
    <3>3. CASE ap.cible = s
      <4>1. ap.op = "modifier" => ap.demande \in Demandes
        BY <2>2, <3>1 DEF Ecrire, VerrouDe
      <4>2. ap.op \in {"modifier", "anonymiser"}
              => ap.lu = compte[s] /\ ~retire(ap.op, compte[s], ap.demande)
        BY <2>2, <3>1, <3>3 DEF Ecrire, VerrouDe, Lue, Retrait
      <4>3. m.actif /\ "SUPER_ADMIN" \in m.roles
        BY <1>0, <3>1, <3>3, <4>1, <4>2, EcritureProtegee DEF superAdminActif
      <4>4. compte'[s] = m
        BY <3>1, <3>3 DEF IInv, Typed
      <4> QED
        BY <4>3, <4>4 DEF superAdminActif
    <3> QED
      BY <3>2, <3>3
  <2> QED
    BY <1>8, <2>1, <2>2 DEF AvancerAppel, Verrouiller, LireCible, CompterSuperAdmins
<1>9. ASSUME NEW a, NEW t, NEW op, NEW c, NEW d, Demander(a, t, op, c, d)
      PROVE  superAdminActif(s)'
  BY <1>1, <1>9 DEF Demander
<1>10. ASSUME NEW a \in Appels, NEW c \in Comptes, NEW d \in Demandes, Creer(a, c, d)
       PROVE  superAdminActif(s)'
  <2>1. compte' = compte \/ (Change(c, ligneCreee(d)) /\ c # s)
    BY <1>0, <1>10, CreerChange
  <2> QED
    BY <1>1, <2>1 DEF Change, IInv, Typed
<1> QED
  BY <1>2, <1>3, <1>4, <1>5, <1>6, <1>7, <1>8, <1>9, <1>10, Formes

\* Counting more than one leaves one besides any account.
LEMMA UnAutre ==
  ASSUME NEW c, Cardinality(superAdminsActifs) > 1
  PROVE  \E s \in Comptes : superAdminActif(s) /\ s # c
<1>1. IsFiniteSet(superAdminsActifs)
  BY ComptesAssumption, FS_Subset DEF superAdminsActifs
<1>2. SUFFICES ASSUME \A s \in Comptes : superAdminActif(s) => s = c
               PROVE  FALSE
  OBVIOUS
<1>3. superAdminsActifs \subseteq {c}
  BY <1>2 DEF superAdminsActifs, superAdminActif
<1>4. Cardinality(superAdminsActifs) <= 1
  <2>1. IsFiniteSet({c}) /\ Cardinality({c}) = 1
    BY FS_Singleton
  <2>2. superAdminsActifs \in SUBSET {c}
    BY <1>3
  <2>3. Cardinality(superAdminsActifs) <= Cardinality({c})
    BY <2>1, <2>2, FS_Subset
  <2> QED
    BY <2>1, <2>3
<1> QED
  BY <1>1, <1>4, FS_CardinalityType

THEOREM ProtectionStep ==
  ASSUME IInv, [Next]_vars
  PROVE  Protection'
<1> SUFFICES ASSUME NEW b \in Appels PROVE ProtectionDe(b)'
  BY DEF Protection
<1>0. ProtectionDe(b) /\ VerrouDe(b) /\ appel[b] \in Appel
  BY DEF IInv, Protection, Verrous, Typed
<1>1. ASSUME appel'[b] = appel[b] PROVE ProtectionDe(b)'
  <2> SUFFICES ASSUME /\ appel[b].etat = "compte"
                      /\ retire(appel[b].op, appel[b].lu, appel[b].demande)
                      /\ "SUPER_ADMIN" \in appel[b].lu.roles
               PROVE  \E s \in Comptes : superAdminActif(s)' /\ s # appel[b].cible
    BY <1>1 DEF ProtectionDe, retire, prochainsRoles
  <2>1. PICK s \in Comptes : superAdminActif(s) /\ s # appel[b].cible
    BY <1>0 DEF ProtectionDe
  <2>2. ASSUME NEW a \in Appels, Retrait(a, s) PROVE FALSE
    <3>1. VerrouDe(a) /\ appel[a].etat = "compte" /\ appel'[a] = AppelLibre
      BY <2>2 DEF Retrait, Ecrire, IInv, Verrous, Typed
    <3>2. verrou = a /\ verrou = b
      BY <1>0, <3>1 DEF VerrouDe, Lue, Transaction
    <3> QED
      BY <1>1, <3>1, <3>2 DEF AppelLibre
  <2> QED
    BY <2>1, <2>2, SuperAdminGarde
<1>2. ASSUME NEW e, appel' = [appel EXCEPT ![b] = e], e.etat # "compte" PROVE ProtectionDe(b)'
  BY <1>2 DEF ProtectionDe, IInv, Typed
<1>3. CASE Repos
  BY <1>1, <1>3 DEF Repos
<1>4. ASSUME NEW x \in Connexions, NEW e, Lecture(x, e) PROVE ProtectionDe(b)'
  BY <1>1, <1>4 DEF Lecture
<1>5. ASSUME NEW x \in Connexions,
             SInscrire(x) \/ ConsommerPas(x) \/ ConfirmerSecret(x) \/ Emettre(x)
      PROVE  ProtectionDe(b)'
  BY <1>1, <1>5 DEF SInscrire, ConsommerPas, ConfirmerSecret, Emettre, comptesVars
<1>6. ASSUME NEW a \in Appels, AvancerAppel(a), a # b PROVE ProtectionDe(b)'
  BY <1>1, <1>6 DEF AvancerAppel, Verrouiller, LireCible, CompterSuperAdmins, Ecrire, IInv, Typed
<1>7. CASE Verrouiller(b)
  <2>1. appel'[b].etat = "verrouille"
    BY <1>0, <1>7 DEF Verrouiller, IInv, Typed, Appel
  <2> QED
    BY <2>1 DEF ProtectionDe
<1>8. CASE LireCible(b)
  <2>1. appel'[b].etat # "compte"
    BY <1>0, <1>8 DEF LireCible, IInv, Typed, Appel, AppelLibre
  <2> QED
    BY <2>1 DEF ProtectionDe
<1>9. CASE CompterSuperAdmins(b)
  <2>1. CASE appel'[b] = AppelLibre
    BY <2>1 DEF ProtectionDe, AppelLibre
  <2>2. CASE appel'[b] # AppelLibre
    <3>1. /\ appel' = [appel EXCEPT ![b] = [@ EXCEPT !.etat = "compte"]]
          /\ UNCHANGED compte
          /\ retire(appel[b].op, appel[b].lu, appel[b].demande)
               => canDeactivateUser(appel[b].acteur, appel[b].cible, appel[b].lu.roles,
                                    Cardinality(superAdminsActifs))
      BY <1>9, <2>2 DEF CompterSuperAdmins, IInv, Typed
    <3>2. /\ appel'[b].op = appel[b].op /\ appel'[b].lu = appel[b].lu
          /\ appel'[b].demande = appel[b].demande /\ appel'[b].cible = appel[b].cible
      BY <1>0, <3>1 DEF IInv, Typed, Appel
    <3>3. retire(appel[b].op, appel[b].lu, appel[b].demande)
            /\ "SUPER_ADMIN" \in appel[b].lu.roles
          => \E s \in Comptes : superAdminActif(s) /\ s # appel[b].cible
      BY <3>1, UnAutre DEF canDeactivateUser
    <3> QED
      BY <3>1, <3>2, <3>3 DEF ProtectionDe, superAdminActif, retire, prochainsRoles
  <2> QED
    BY <2>1, <2>2
<1>10. CASE Ecrire(b)
  <2>1. appel'[b].etat # "compte"
    BY <1>10 DEF Ecrire, IInv, Typed, AppelLibre
  <2> QED
    BY <2>1 DEF ProtectionDe
<1>11. ASSUME NEW a \in Appels, NEW t, NEW op, NEW c, NEW d, Demander(a, t, op, c, d)
       PROVE  ProtectionDe(b)'
  <2>1. appel'[b] = appel[b] \/ appel'[b].etat = "demande"
    BY <1>11 DEF Demander, IInv, Typed
  <2> QED
    BY <1>1, <2>1 DEF ProtectionDe
<1>12. ASSUME NEW a, NEW c, NEW d, Creer(a, c, d) PROVE ProtectionDe(b)'
  BY <1>1, <1>12 DEF Creer
<1> QED
  BY <1>3, <1>4, <1>5, <1>6, <1>7, <1>8, <1>9, <1>10, <1>11, <1>12, Formes DEF AvancerAppel

THEOREM DernierStep ==
  ASSUME IInv, [Next]_vars
  PROVE  DernierSuperAdmin'
<1>1. PICK s \in Comptes : superAdminActif(s)
  BY DEF IInv, DernierSuperAdmin, superAdminsActifs, superAdminActif
<1>2. CASE superAdminActif(s)'
  BY <1>2 DEF DernierSuperAdmin, superAdminsActifs, superAdminActif
<1>3. ASSUME NEW a \in Appels, Retrait(a, s) PROVE DernierSuperAdmin'
  <2>1. VerrouDe(a) /\ ProtectionDe(a) /\ Lue(a)
    BY <1>3 DEF Retrait, IInv, Verrous, Protection, Lue
  <2>2. "SUPER_ADMIN" \in appel[a].lu.roles
    BY <1>1, <1>3, <2>1 DEF VerrouDe, Retrait, superAdminActif
  <2>3. PICK u \in Comptes : superAdminActif(u) /\ u # s
    BY <1>3, <2>1, <2>2 DEF ProtectionDe, Retrait
  <2>4. compte'[u] = compte[u]
    BY <1>3, <2>3 DEF Retrait, Ecrire, IInv, Typed
  <2> QED
    BY <2>3, <2>4 DEF DernierSuperAdmin, superAdminsActifs, superAdminActif
<1> QED
  BY <1>1, <1>2, <1>3, SuperAdminGarde

------------------------------------------------------------------------------
(* What sign-ins and tokens remember.                                        *)

LEMMA FideleEnsuite ==
  ASSUME NEW r, r.version \in Nat, NEW l \in Ligne, NEW m \in Ligne,
         Fidele(r, l), Evolution(l, m)
  PROVE  Fidele(r, m)
BY DEF Fidele, Evolution, Ligne

THEOREM SouvenirsStep ==
  ASSUME IInv, [Next]_vars
  PROVE  Souvenirs'
<1> DEFINE JetonsFideles == \A t \in jetons : Fidele(t, compte'[t.sub]) /\ t.cle <= cle
           Signature(x) ==
             /\ connexion[x].etat # "libre" => compte'[connexion[x].sub].existe
             /\ connexion[x].etat \in EtatsAvecLigne =>
                  Fidele(connexion[x].lu, compte'[connexion[x].sub])
           Signatures == \A x \in Connexions : Signature(x)
           DefisConnus == \A d \in defis : compte'[d.sub].existe
\* What was remembered is still of the rows as they are after the step.
<1>1. JetonsFideles
  <2> SUFFICES ASSUME NEW t \in jetons PROVE Fidele(t, compte'[t.sub]) /\ t.cle <= cle
    OBVIOUS
  <2>1. /\ t.sub \in Comptes /\ t.version \in Nat
        /\ Fidele(t, compte[t.sub]) /\ t.cle <= cle
    BY DEF IInv, Typed, Souvenirs, Jeton
  <2>2. compte[t.sub] \in Ligne /\ compte'[t.sub] \in Ligne
        /\ Evolution(compte[t.sub], compte'[t.sub])
    BY <2>1, Rangees DEF IInv, Typed
  <2> QED
    BY <2>1, <2>2, FideleEnsuite
<1>2. Signatures
  <2> SUFFICES ASSUME NEW x \in Connexions, connexion[x].etat # "libre"
               PROVE  Signature(x)
    BY DEF EtatsAvecLigne
  <2> DEFINE c == connexion[x].sub
  <2>1. /\ c \in Comptes /\ compte[c].existe /\ connexion[x].lu.version \in Nat
        /\ connexion[x].etat \in EtatsAvecLigne => Fidele(connexion[x].lu, compte[c])
    BY DEF IInv, Typed, Souvenirs, Connexion, Ligne
  <2>2. compte[c] \in Ligne /\ compte'[c] \in Ligne /\ Evolution(compte[c], compte'[c])
    BY <2>1, Rangees DEF IInv, Typed
  <2> QED
    BY <2>1, <2>2, FideleEnsuite DEF Evolution, Fidele
<1>3. DefisConnus
  <2> SUFFICES ASSUME NEW d \in defis PROVE compte'[d.sub].existe
    OBVIOUS
  <2>1. d.sub \in Comptes /\ compte[d.sub].existe
    BY DEF IInv, Typed, Souvenirs, Defi
  <2> QED
    BY <2>1, Rangees DEF Evolution, Fidele
\* A step that changes at most the sign-in x, which becomes e.
<1>4. ASSUME NEW x \in Connexions, NEW e,
             connexion' = [connexion EXCEPT ![x] = e],
             UNCHANGED <<jetons, cle>>,
             e.etat # "libre" => compte'[e.sub].existe,
             e.etat \in EtatsAvecLigne => Fidele(e.lu, compte'[e.sub]),
             \A d \in defis' : compte'[d.sub].existe
      PROVE  Souvenirs'
  <2>1. \A y \in Connexions : connexion'[y] = IF y = x THEN e ELSE connexion[y]
    BY <1>4 DEF IInv, Typed
  <2> HIDE DEF JetonsFideles, DefisConnus
  <2>2. \A y \in Connexions :
          /\ connexion'[y].etat # "libre" => compte'[connexion'[y].sub].existe
          /\ connexion'[y].etat \in EtatsAvecLigne =>
               Fidele(connexion'[y].lu, compte'[connexion'[y].sub])
    BY <1>2, <1>4, <2>1
  <2>3. \A t \in jetons' : Fidele(t, compte'[t.sub]) /\ t.cle <= cle'
    BY <1>1, <1>4 DEF JetonsFideles
  <2> QED
    BY <1>4, <2>2, <2>3 DEF Souvenirs, Fidele
<1>5. CASE Repos
  <2>1. \A t \in jetons' : Fidele(t, compte'[t.sub]) /\ t.cle <= cle'
    BY <1>1, <1>5 DEF Repos, IInv, Typed, Jeton
  <2>2. \A y \in Connexions :
          /\ connexion'[y].etat # "libre" => compte'[connexion'[y].sub].existe
          /\ connexion'[y].etat \in EtatsAvecLigne =>
               Fidele(connexion'[y].lu, compte'[connexion'[y].sub])
    BY <1>2, <1>5 DEF Repos
  <2>3. \A d \in defis' : compte'[d.sub].existe
    BY <1>3, <1>5 DEF Repos
  <2> QED
    BY <2>1, <2>2, <2>3 DEF Souvenirs, Fidele
<1>6. ASSUME NEW x \in Connexions, NEW e, Lecture(x, e) PROVE Souvenirs'
  BY <1>4, <1>6 DEF Lecture
<1>7. ASSUME NEW x \in Connexions, SInscrire(x) PROVE Souvenirs'
  <2>1. /\ connexion' = [connexion EXCEPT ![x] = ConnexionLibre]
        /\ UNCHANGED <<jetons, cle>>
        /\ defis' = defis \cup {[sub |-> connexion[x].sub, but |-> "mfa_setup"]}
        /\ connexion[x].etat # "libre"
    BY <1>7 DEF SInscrire, Finir, Suite
  <2>2. compte'[connexion[x].sub].existe
    BY <1>2, <2>1
  <2>3. \A d \in defis' : compte'[d.sub].existe
    BY <1>3, <2>1, <2>2
  <2>4. ConnexionLibre.etat = "libre"
    BY DEF ConnexionLibre
  <2> QED
    BY <1>4, <2>1, <2>3, <2>4 DEF EtatsAvecLigne
<1>8. ASSUME NEW x \in Connexions, ConsommerPas(x) PROVE Souvenirs'
  <2> DEFINE k == connexion[x]
             e == connexion'[x]
  <2>1. /\ connexion' = [connexion EXCEPT ![x] = e]
        /\ \/ e = ConnexionLibre
           \/ e = [k EXCEPT !.etat = IF k.but = "mfa_setup" THEN "confirmer" ELSE "emettre"]
        /\ UNCHANGED <<jetons, cle, defis>> /\ k.etat = "consommer"
    BY <1>8 DEF ConsommerPas, Suite, IInv, Typed
  <2>2. e.etat = "libre" \/ (e.sub = k.sub /\ e.lu = k.lu)
    BY <2>1 DEF ConnexionLibre, IInv, Typed, Connexion
  <2>3. compte'[k.sub].existe /\ Fidele(k.lu, compte'[k.sub])
    BY <1>2, <2>1 DEF EtatsAvecLigne
  <2> HIDE DEF e
  <2> QED
    BY <1>3, <1>4, <2>1, <2>2, <2>3 DEF EtatsAvecLigne
<1>9. ASSUME NEW x \in Connexions, ConfirmerSecret(x) PROVE Souvenirs'
  <2> DEFINE k == connexion[x]
             e == [k EXCEPT !.etat = "emettre"]
  <2>1. /\ connexion' = [connexion EXCEPT ![x] = e]
        /\ UNCHANGED <<jetons, cle, defis>> /\ k.etat = "confirmer"
    BY <1>9 DEF ConfirmerSecret, Suite
  <2>2. e.sub = k.sub /\ e.lu = k.lu
    BY DEF IInv, Typed, Connexion
  <2>3. compte'[k.sub].existe /\ Fidele(k.lu, compte'[k.sub])
    BY <1>2, <2>1 DEF EtatsAvecLigne
  <2> HIDE DEF e
  <2> QED
    BY <1>3, <1>4, <2>1, <2>2, <2>3
<1>10. ASSUME NEW x \in Connexions, Emettre(x) PROVE Souvenirs'
  <2> DEFINE k == connexion[x]
             j == NouveauJeton(k.sub, k.lu, k.code)
  <2>1. /\ connexion' = [connexion EXCEPT ![x] = ConnexionLibre]
        /\ jetons' = jetons \cup {j}
        /\ UNCHANGED <<cle, defis>> /\ k.etat = "emettre"
    BY <1>10 DEF Emettre, Finir, Suite, comptesVars
  <2>2. Fidele(k.lu, compte'[k.sub])
    BY <1>2, <2>1 DEF EtatsAvecLigne
  <2>3. Fidele(j, compte'[j.sub]) /\ j.cle <= cle
    BY <2>2 DEF Fidele, NouveauJeton, IInv, Typed
  <2> HIDE DEF j
  <2>4. \A t \in jetons' : Fidele(t, compte'[t.sub]) /\ t.cle <= cle'
    BY <1>1, <2>1, <2>3
  <2>5. \A y \in Connexions :
          /\ connexion'[y].etat # "libre" => compte'[connexion'[y].sub].existe
          /\ connexion'[y].etat \in EtatsAvecLigne =>
               Fidele(connexion'[y].lu, compte'[connexion'[y].sub])
    <3>1. \A y \in Connexions :
            connexion'[y] = IF y = x THEN ConnexionLibre ELSE connexion[y]
      BY <2>1 DEF IInv, Typed
    <3>2. ConnexionLibre.etat = "libre"
      BY DEF ConnexionLibre
    <3> QED
      BY <1>2, <3>1, <3>2 DEF EtatsAvecLigne
  <2> QED
    BY <1>3, <2>1, <2>4, <2>5 DEF Souvenirs, Fidele
<1>11. ASSUME UNCHANGED <<connexion, jetons, cle, defis>> PROVE Souvenirs'
  <2>1. \A t \in jetons' : Fidele(t, compte'[t.sub]) /\ t.cle <= cle'
    BY <1>1, <1>11
  <2>2. \A y \in Connexions :
          /\ connexion'[y].etat # "libre" => compte'[connexion'[y].sub].existe
          /\ connexion'[y].etat \in EtatsAvecLigne =>
               Fidele(connexion'[y].lu, compte'[connexion'[y].sub])
    BY <1>2, <1>11
  <2> QED
    BY <1>3, <1>11, <2>1, <2>2 DEF Souvenirs, Fidele
<1> QED
  BY <1>5, <1>6, <1>7, <1>8, <1>9, <1>10, <1>11, Formes DEF sessionsVars

------------------------------------------------------------------------------
(* Codes.                                                                    *)

THEOREM GrainesStep ==
  ASSUME IInv, [Next]_vars
  PROVE  Graines'
<1>0. graines \in Nat
  BY DEF IInv, Typed
<1>1. ASSUME graines' = graines, jetons' = jetons,
             \A c \in Comptes : compte'[c].secret \in {Rien, compte[c].secret},
             \A y \in Connexions : \/ connexion'[y].code \in {Rien, connexion[y].code}
                                   \/ connexion'[y].code.secret <= graines
      PROVE  Graines'
  BY <1>1 DEF IInv, Codes, Graines
<1>2. CASE Repos
  BY <1>1, <1>2 DEF Repos
<1>3. ASSUME NEW x \in Connexions, NEW e, Lecture(x, e) PROVE Graines'
  <2>1. /\ UNCHANGED <<compte, jetons, graines>>
        /\ connexion' = [connexion EXCEPT ![x] = e]
        /\ e.code # Rien => e.code.secret <= graines
    BY <1>3 DEF Lecture
  <2>2. \A y \in Connexions : connexion'[y] = IF y = x THEN e ELSE connexion[y]
    BY <2>1 DEF IInv, Typed
  <2> QED
    BY <1>1, <2>1, <2>2
<1>4. ASSUME NEW x \in Connexions, SInscrire(x) PROVE Graines'
  <2>1. /\ graines' = graines + 1 /\ jetons' = jetons
        /\ connexion' = [connexion EXCEPT ![x] = ConnexionLibre]
    BY <1>4 DEF SInscrire, Finir, Suite
  <2>2. \A y \in Connexions : connexion'[y] = IF y = x THEN ConnexionLibre ELSE connexion[y]
    BY <2>1 DEF IInv, Typed
  <2>3. \A t \in jetons : t.code # Rien => t.code.secret \in Nat /\ t.code.secret <= graines
    BY DEF IInv, Typed, Codes, Graines, Jeton, Code, Secrets
  <2>4. \A y \in Connexions : connexion[y].code # Rien =>
          connexion[y].code.secret \in Nat /\ connexion[y].code.secret <= graines
    BY DEF IInv, Typed, Codes, Graines, Connexion, Code, Secrets
  <2>5. \A c \in Comptes : compte[c].secret # Rien =>
          compte[c].secret \in Nat /\ compte[c].secret <= graines
    BY DEF IInv, Typed, Codes, Graines, Ligne, Secrets
  <2>6. \A c \in Comptes : compte'[c].secret # Rien => compte'[c].secret <= graines'
    BY <1>0, <2>1, <2>5, Rangees
  <2>7. \A t \in jetons' : t.code # Rien => t.code.secret <= graines'
    BY <1>0, <2>1, <2>3
  <2>8. \A y \in Connexions :
          connexion'[y].code # Rien => connexion'[y].code.secret <= graines'
    BY <1>0, <2>1, <2>2, <2>4 DEF ConnexionLibre
  <2> QED
    BY <2>6, <2>7, <2>8 DEF Graines
<1>5. ASSUME NEW x \in Connexions, ConsommerPas(x) PROVE Graines'
  <2>1. /\ graines' = graines /\ jetons' = jetons
        /\ \/ connexion' = [connexion EXCEPT ![x] = ConnexionLibre]
           \/ connexion' = [connexion EXCEPT ![x] = [connexion[x] EXCEPT
                 !.etat = IF connexion[x].but = "mfa_setup" THEN "confirmer" ELSE "emettre"]]
    BY <1>5 DEF ConsommerPas, Suite
  <2>2. \A y \in Connexions : connexion'[y].code \in {Rien, connexion[y].code}
    BY <2>1 DEF IInv, Typed, Connexion, ConnexionLibre
  <2>3. \A c \in Comptes : compte'[c].secret = compte[c].secret
    BY <1>5, ConsommerPasChange DEF Change, IInv, Typed
  <2> QED
    BY <1>1, <2>1, <2>2, <2>3
<1>6. ASSUME NEW x \in Connexions, ConfirmerSecret(x) PROVE Graines'
  <2>1. /\ graines' = graines /\ jetons' = jetons
        /\ connexion' = [connexion EXCEPT ![x] = [connexion[x] EXCEPT !.etat = "emettre"]]
    BY <1>6 DEF ConfirmerSecret, Suite
  <2>2. \A y \in Connexions : connexion'[y].code \in {Rien, connexion[y].code}
    BY <2>1 DEF IInv, Typed, Connexion
  <2>3. \A c \in Comptes : compte'[c].secret = compte[c].secret
    BY <1>6, ConfirmerSecretChange DEF Change, IInv, Typed
  <2> QED
    BY <1>1, <2>1, <2>2, <2>3
<1>7. ASSUME NEW x \in Connexions, Emettre(x) PROVE Graines'
  <2>1. /\ UNCHANGED <<compte, graines>>
        /\ jetons' = jetons \cup {NouveauJeton(connexion[x].sub, connexion[x].lu, connexion[x].code)}
        /\ connexion' = [connexion EXCEPT ![x] = ConnexionLibre]
    BY <1>7 DEF Emettre, Finir, Suite, comptesVars
  <2>2. \A y \in Connexions : connexion'[y].code \in {Rien, connexion[y].code}
    BY <2>1 DEF IInv, Typed, Connexion, ConnexionLibre
  <2>3. NouveauJeton(connexion[x].sub, connexion[x].lu, connexion[x].code).code = connexion[x].code
    BY DEF NouveauJeton
  <2> QED
    BY <2>1, <2>2, <2>3 DEF IInv, Codes, Graines
<1>8. ASSUME UNCHANGED <<connexion, jetons, graines>>,
             \A c \in Comptes : compte'[c].secret \in {Rien, compte[c].secret}
      PROVE  Graines'
  BY <1>1, <1>8
<1>9. ASSUME NEW a \in Appels, AvancerAppel(a), UNCHANGED sessionsVars PROVE Graines'
  <2>1. CASE Ecrire(a)
    <3> DEFINE c == appel[a].cible
               m == ligneEcrite(compte[c], appel[a])
    <3>1. c \in Comptes /\ appel[a] \in Appel /\ compte[c] \in Ligne
      BY <2>1 DEF IInv, Typed, Ecrire
    <3>2. appel[a].op = "modifier" => appel[a].demande \in Demandes
      BY <2>1 DEF IInv, Verrous, VerrouDe, Ecrire
    <3>3. m.secret \in {Rien, compte[c].secret}
      BY <3>1, <3>2, EcritureTypee
    <3>4. compte' = [compte EXCEPT ![c] = m]
      BY <2>1 DEF Ecrire
    <3> HIDE DEF m
    <3> QED
      BY <1>8, <1>9, <3>1, <3>3, <3>4 DEF sessionsVars, IInv, Typed
  <2> QED
    BY <1>8, <1>9, <2>1
       DEF sessionsVars, AvancerAppel, Verrouiller, LireCible, CompterSuperAdmins
<1>10. ASSUME NEW a, NEW t, NEW op, NEW c, NEW d, Demander(a, t, op, c, d),
              UNCHANGED sessionsVars
       PROVE  Graines'
  BY <1>8, <1>10 DEF Demander, sessionsVars
<1>11. ASSUME NEW a \in Appels, NEW c \in Comptes, NEW d \in Demandes, Creer(a, c, d),
              UNCHANGED sessionsVars
       PROVE  Graines'
  BY <1>8, <1>11, CreerChange DEF Change, IInv, Typed, sessionsVars
<1> QED
  BY <1>2, <1>3, <1>4, <1>5, <1>6, <1>7, <1>9, <1>10, <1>11, Formes

\* A seed known before the step and current after it was current before it, and
\* its consumed step has not gone back.
LEMMA ActuelAvant ==
  ASSUME IInv, [Next]_vars, NEW c \in Comptes, NEW code \in Code,
         code.secret <= graines, compte'[c].secret = code.secret
  PROVE  compte[c].secret = code.secret /\ compte[c].pas <= compte'[c].pas
<1>1. code.secret \in Nat /\ graines \in Nat
  BY DEF Code, Secrets, IInv, Typed
<1>2. code.secret # Rien /\ code.secret # graines + 1
  BY <1>1, ComptesAssumption
<1>3. compte[c].secret = code.secret
  BY <1>2, Rangees
<1> QED
  BY <1>2, <1>3, Rangees DEF Evolution

THEOREM CodesStep ==
  ASSUME IInv, [Next]_vars
  PROVE  CodesConsommes' /\ CodesDistincts'
<1> DEFINE APorte(y) == connexion'[y].etat \in {"confirmer", "emettre"} /\ connexion'[y].code # Rien
           AActuel(c, code) == code # Rien /\ compte'[c].secret = code.secret
\* What the codes of tokens and sign-ins are.
<1>1. \A t \in jetons : /\ t.sub \in Comptes
                        /\ t.code # Rien => t.code \in Code /\ t.code.secret <= graines
  BY DEF IInv, Typed, Jeton, Codes, Graines
<1>2. \A x \in Connexions :
        /\ connexion[x].etat # "libre" => connexion[x].sub \in Comptes
        /\ connexion[x].code # Rien =>
             connexion[x].code \in Code /\ connexion[x].code.secret <= graines
  BY DEF IInv, Typed, Connexion, Codes, Graines
<1>3. \A t \in jetons : AActuel(t.sub, t.code) =>
        /\ Actuel(t.sub, t.code) /\ t.code.pas <= compte'[t.sub].pas
  <2> SUFFICES ASSUME NEW t \in jetons, AActuel(t.sub, t.code)
               PROVE  Actuel(t.sub, t.code) /\ t.code.pas <= compte'[t.sub].pas
    OBVIOUS
  <2>1. Actuel(t.sub, t.code) /\ compte[t.sub].pas <= compte'[t.sub].pas
    BY <1>1, ActuelAvant DEF Actuel
  <2>2. t.code.pas <= compte[t.sub].pas
    BY <2>1 DEF IInv, Codes, CodesConsommes
  <2>3. t.code.pas \in Nat /\ compte[t.sub].pas \in Nat /\ compte'[t.sub].pas \in Nat
    BY <1>1, Rangees DEF IInv, Typed, Ligne, Code, Pas
  <2> QED
    BY <2>1, <2>2, <2>3
<1>4. \A x \in Connexions : Porteuse(x) /\ AActuel(connexion[x].sub, connexion[x].code) =>
        /\ Actuel(connexion[x].sub, connexion[x].code)
        /\ connexion[x].code.pas <= compte'[connexion[x].sub].pas
  <2> SUFFICES ASSUME NEW x \in Connexions, Porteuse(x),
                      AActuel(connexion[x].sub, connexion[x].code)
               PROVE  /\ Actuel(connexion[x].sub, connexion[x].code)
                      /\ connexion[x].code.pas <= compte'[connexion[x].sub].pas
    OBVIOUS
  <2> DEFINE c == connexion[x].sub
             code == connexion[x].code
  <2>0. c \in Comptes /\ code \in Code /\ code.secret <= graines
    BY <1>2 DEF Porteuse
  <2>1. Actuel(c, code) /\ compte[c].pas <= compte'[c].pas
    BY <2>0, ActuelAvant DEF Actuel
  <2>2. code.pas <= compte[c].pas
    BY <2>1 DEF IInv, Codes, CodesConsommes
  <2>3. code.pas \in Nat /\ compte[c].pas \in Nat /\ compte'[c].pas \in Nat
    BY <2>0, Rangees DEF IInv, Typed, Ligne, Code, Pas
  <2> QED
    BY <2>1, <2>2, <2>3
<1>5. /\ \A t, u \in jetons :
           t.sub = u.sub /\ t.code = u.code /\ Actuel(t.sub, t.code) => t = u
      /\ \A t \in jetons, x \in Connexions :
           ~ /\ Porteuse(x) /\ connexion[x].sub = t.sub
             /\ connexion[x].code = t.code /\ Actuel(t.sub, t.code)
      /\ \A x, y \in Connexions :
           /\ Porteuse(x) /\ Porteuse(y) /\ connexion[x].sub = connexion[y].sub
           /\ connexion[x].code = connexion[y].code
           /\ Actuel(connexion[x].sub, connexion[x].code)
           => x = y
  BY DEF IInv, Codes, CodesDistincts
<1> HIDE DEF AActuel
\* A step after which nobody bears a code who did not.
<1>6. ASSUME jetons' = jetons,
             \A y \in Connexions : APorte(y) =>
               /\ Porteuse(y) /\ connexion'[y].sub = connexion[y].sub
               /\ connexion'[y].code = connexion[y].code
      PROVE  CodesConsommes' /\ CodesDistincts'
  <2>1. CodesConsommes'
    BY <1>3, <1>4, <1>6 DEF CodesConsommes, Porteuse, Actuel, AActuel
  <2>2. CodesDistincts'
    <3>1. \A t, u \in jetons :
            t.sub = u.sub /\ t.code = u.code /\ AActuel(t.sub, t.code) => t = u
      BY <1>3, <1>5
    <3>2. \A t \in jetons, x \in Connexions :
           ~ /\ APorte(x) /\ connexion'[x].sub = t.sub
             /\ connexion'[x].code = t.code /\ AActuel(t.sub, t.code)
      BY <1>3, <1>5, <1>6
    <3>3. \A x, y \in Connexions :
           /\ APorte(x) /\ APorte(y) /\ connexion'[x].sub = connexion'[y].sub
           /\ connexion'[x].code = connexion'[y].code
           /\ AActuel(connexion'[x].sub, connexion'[x].code)
           => x = y
      BY <1>4, <1>5, <1>6
    <3> QED
      BY <1>6, <3>1, <3>2, <3>3 DEF CodesDistincts, Porteuse, Actuel, AActuel
  <2> QED
    BY <2>1, <2>2
<1>7. ASSUME UNCHANGED <<jetons, connexion>> PROVE CodesConsommes' /\ CodesDistincts'
  BY <1>6, <1>7 DEF Porteuse
<1>8. CASE Repos
  BY <1>7, <1>8 DEF Repos
<1>9. ASSUME NEW x \in Connexions, NEW e, jetons' = jetons,
             connexion' = [connexion EXCEPT ![x] = e],
             e.etat \notin {"confirmer", "emettre"} \/ e.code = Rien
      PROVE  CodesConsommes' /\ CodesDistincts'
  <2>1. \A y \in Connexions : connexion'[y] = IF y = x THEN e ELSE connexion[y]
    BY <1>9 DEF IInv, Typed
  <2> QED
    BY <1>6, <1>9, <2>1 DEF Porteuse
<1>10. ASSUME NEW x \in Connexions, NEW e, Lecture(x, e)
       PROVE  CodesConsommes' /\ CodesDistincts'
  BY <1>9, <1>10 DEF Lecture
<1>11. ConnexionLibre.etat \notin {"confirmer", "emettre"}
  BY DEF ConnexionLibre
<1>12. ASSUME NEW x \in Connexions, SInscrire(x) PROVE CodesConsommes' /\ CodesDistincts'
  BY <1>9, <1>11, <1>12 DEF SInscrire, Finir, Suite
<1>13. ASSUME NEW x \in Connexions, ConfirmerSecret(x)
       PROVE  CodesConsommes' /\ CodesDistincts'
  <2> DEFINE e == [connexion[x] EXCEPT !.etat = "emettre"]
  <2>1. /\ jetons' = jetons /\ connexion[x].etat = "confirmer"
        /\ connexion' = [connexion EXCEPT ![x] = e]
    BY <1>13 DEF ConfirmerSecret, Suite
  <2>2. e.sub = connexion[x].sub /\ e.code = connexion[x].code
    BY DEF IInv, Typed, Connexion
  <2>3. \A y \in Connexions : connexion'[y] = IF y = x THEN e ELSE connexion[y]
    BY <2>1 DEF IInv, Typed
  <2> HIDE DEF e
  <2> QED
    BY <1>6, <2>1, <2>2, <2>3 DEF Porteuse
<1>14. ASSUME NEW x \in Connexions, ConsommerPas(x)
       PROVE  CodesConsommes' /\ CodesDistincts'
  <2> DEFINE k == connexion[x]
             c == k.sub
             code == k.code
             e == [k EXCEPT !.etat = IF k.but = "mfa_setup" THEN "confirmer" ELSE "emettre"]
  <2>1. jetons' = jetons /\ k.etat = "consommer" /\ code \in Code /\ c \in Comptes
    BY <1>14 DEF ConsommerPas, IInv, Typed
  <2>2. CASE connexion' = [connexion EXCEPT ![x] = ConnexionLibre]
    BY <1>9, <1>11, <2>1, <2>2
  <2>3. CASE /\ connexion' = [connexion EXCEPT ![x] = e]
             /\ pasConsommable(compte[c].pas, code.pas)
             /\ compte' = [compte EXCEPT ![c].pas = code.pas]
    <3>1. e.sub = c /\ e.code = code /\ e.etat \in {"confirmer", "emettre"}
      BY DEF IInv, Typed, Connexion
    <3>2. \A y \in Connexions : connexion'[y] = IF y = x THEN e ELSE connexion[y]
      BY <2>3 DEF IInv, Typed
    <3>3. /\ compte'[c].secret = compte[c].secret /\ compte'[c].pas = code.pas
          /\ compte[c].pas \in Nat /\ code.pas \in Nat \ {0}
      BY <2>1, <2>3 DEF IInv, Typed, Ligne, Code, Pas
    <3>4. compte[c].pas < code.pas
      BY <2>3, <3>3 DEF pasConsommable
    <3> HIDE DEF e
    \* Nobody bears this code: its step is not consumed yet.
    <3>5. \A t \in jetons :
            ~(t.sub = c /\ t.code = code /\ Actuel(c, code))
      BY <3>3, <3>4 DEF IInv, Codes, CodesConsommes
    <3>6. \A y \in Connexions :
            ~(Porteuse(y) /\ connexion[y].sub = c /\ connexion[y].code = code /\ Actuel(c, code))
      BY <3>3, <3>4 DEF IInv, Codes, CodesConsommes
    <3>7. AActuel(c, code) => Actuel(c, code)
      BY <3>3 DEF AActuel, Actuel
    <3>8. \A y \in Connexions : y # x /\ APorte(y) =>
               /\ Porteuse(y) /\ connexion'[y].sub = connexion[y].sub
               /\ connexion'[y].code = connexion[y].code
      BY <3>2 DEF Porteuse
    <3>9. CodesConsommes'
      <4>1. \A t \in jetons : AActuel(t.sub, t.code) => t.code.pas <= compte'[t.sub].pas
        BY <1>3
      <4>2. \A y \in Connexions : APorte(y) /\ AActuel(connexion'[y].sub, connexion'[y].code)
              => connexion'[y].code.pas <= compte'[connexion'[y].sub].pas
        <5> SUFFICES ASSUME NEW y \in Connexions, APorte(y),
                            AActuel(connexion'[y].sub, connexion'[y].code)
                     PROVE  connexion'[y].code.pas <= compte'[connexion'[y].sub].pas
          OBVIOUS
        <5>1. CASE y = x
          BY <3>1, <3>2, <3>3, <5>1
        <5>2. CASE y # x
          BY <1>4, <3>8, <5>2
        <5> QED
          BY <5>1, <5>2
      <4> QED
        BY <2>1, <4>1, <4>2 DEF CodesConsommes, Porteuse, Actuel, AActuel
    <3>10. \A t \in jetons, y \in Connexions :
           ~ /\ APorte(y) /\ connexion'[y].sub = t.sub
             /\ connexion'[y].code = t.code /\ AActuel(t.sub, t.code)
      <4> SUFFICES ASSUME NEW t \in jetons, NEW y \in Connexions, APorte(y),
                          connexion'[y].sub = t.sub, connexion'[y].code = t.code,
                          AActuel(t.sub, t.code)
                   PROVE  FALSE
        OBVIOUS
      <4>1. CASE y = x
        BY <3>1, <3>2, <3>5, <3>7, <4>1
      <4>2. CASE y # x
        BY <1>3, <1>5, <3>8, <4>2
      <4> QED
        BY <4>1, <4>2
    <3>11. \A y, z \in Connexions :
           /\ APorte(y) /\ APorte(z) /\ connexion'[y].sub = connexion'[z].sub
           /\ connexion'[y].code = connexion'[z].code
           /\ AActuel(connexion'[y].sub, connexion'[y].code)
           => y = z
      <4> SUFFICES ASSUME NEW y \in Connexions, NEW z \in Connexions, APorte(y), APorte(z),
                          connexion'[y].sub = connexion'[z].sub,
                          connexion'[y].code = connexion'[z].code,
                          AActuel(connexion'[y].sub, connexion'[y].code), y # z
                   PROVE  FALSE
        OBVIOUS
      <4>1. CASE y = x
        BY <3>1, <3>2, <3>6, <3>7, <3>8, <4>1
      <4>2. CASE z = x
        BY <3>1, <3>2, <3>6, <3>7, <3>8, <4>2
      <4>3. CASE y # x /\ z # x
        BY <1>4, <1>5, <3>8, <4>3
      <4> QED
        BY <4>1, <4>2, <4>3
    <3>12. \A t, u \in jetons :
             t.sub = u.sub /\ t.code = u.code /\ AActuel(t.sub, t.code) => t = u
      BY <1>3, <1>5
    <3>13. CodesDistincts'
      BY <2>1, <3>10, <3>11, <3>12 DEF CodesDistincts, Porteuse, Actuel, AActuel
    <3> QED
      BY <3>9, <3>13
  <2> QED
    BY <1>14, <2>2, <2>3 DEF ConsommerPas, Suite
<1>15. ASSUME NEW x \in Connexions, Emettre(x)
       PROVE  CodesConsommes' /\ CodesDistincts'
  <2> DEFINE k == connexion[x]
             j == NouveauJeton(k.sub, k.lu, k.code)
  <2>1. /\ connexion' = [connexion EXCEPT ![x] = ConnexionLibre]
        /\ jetons' = jetons \cup {j} /\ compte' = compte /\ k.etat = "emettre"
    BY <1>15 DEF Emettre, Finir, Suite, comptesVars
  <2>2. j.sub = k.sub /\ j.code = k.code
    BY DEF NouveauJeton
  <2>3. \A y \in Connexions : connexion'[y] = IF y = x THEN ConnexionLibre ELSE connexion[y]
    BY <2>1 DEF IInv, Typed
  <2>4. \A y \in Connexions : APorte(y) => y # x /\ Porteuse(y) /\ connexion'[y] = connexion[y]
    BY <1>11, <2>3 DEF Porteuse
  <2>5. \A d, code : AActuel(d, code) = Actuel(d, code)
    BY <2>1 DEF AActuel, Actuel
  <2>6. k.code # Rien => Porteuse(x)
    BY <2>1 DEF Porteuse
  <2>7. \A d, code : AActuel(d, code) => code # Rien
    BY DEF AActuel
  <2> HIDE DEF j
  <2>8. CodesConsommes'
    <3>1. \A t \in jetons' : AActuel(t.sub, t.code) => t.code.pas <= compte'[t.sub].pas
      BY <1>3, <1>4, <2>1, <2>2, <2>6, <2>7
    <3>2. \A y \in Connexions : APorte(y) /\ AActuel(connexion'[y].sub, connexion'[y].code)
              => connexion'[y].code.pas <= compte'[connexion'[y].sub].pas
      BY <1>4, <2>4
    <3> QED
      BY <3>1, <3>2 DEF CodesConsommes, Porteuse, Actuel, AActuel
  <2>9. \A t, u \in jetons' :
          t.sub = u.sub /\ t.code = u.code /\ AActuel(t.sub, t.code) => t = u
    BY <1>5, <2>1, <2>2, <2>5, <2>6, <2>7
  <2>10. \A t \in jetons', y \in Connexions :
           ~ /\ APorte(y) /\ connexion'[y].sub = t.sub
             /\ connexion'[y].code = t.code /\ AActuel(t.sub, t.code)
    BY <1>5, <2>1, <2>2, <2>4, <2>5, <2>6, <2>7
  <2>11. \A y, z \in Connexions :
           /\ APorte(y) /\ APorte(z) /\ connexion'[y].sub = connexion'[z].sub
           /\ connexion'[y].code = connexion'[z].code
           /\ AActuel(connexion'[y].sub, connexion'[y].code)
           => y = z
    BY <1>5, <2>4, <2>5
  <2>12. CodesDistincts'
    BY <2>9, <2>10, <2>11 DEF CodesDistincts, Porteuse, Actuel, AActuel
  <2> QED
    BY <2>8, <2>12
<1> QED
  BY <1>7, <1>8, <1>10, <1>12, <1>13, <1>14, <1>15, Formes DEF sessionsVars

------------------------------------------------------------------------------
(* Delivery tokens.                                                          *)

THEOREM LivreesStep ==
  ASSUME IInv, [Next]_vars
  PROVE  Livrees'
<1> DEFINE Encaisse(j) == echanges[j] = 0 \/ (echanges[j] = 1 /\ j \in reclamees \cup perimees)
<1>1. /\ DOMAIN echanges = DOMAIN livraisons
      /\ \A j \in DOMAIN livraisons :
           livraisons[j] \in Comptes /\ compte'[livraisons[j]].existe /\ Encaisse(j)
  BY Rangees DEF IInv, Livrees, Evolution, Fidele
<1>2. ASSUME UNCHANGED <<livraisons, echanges>>, reclamees' = reclamees,
             perimees \subseteq perimees'
      PROVE  Livrees'
  BY <1>1, <1>2 DEF Livrees
<1>3. CASE UNCHANGED vars
  BY <1>2, <1>3 DEF vars, sessionsVars
<1>4. ASSUME NEW x \in Connexions, Connecter(x) PROVE Livrees'
  <2>1. ASSUME NEW j \in DOMAIN livraisons, Echanger(x, j) PROVE Livrees'
    <3>1. PICK balayees \in SUBSET (reclamees \cap perimees) :
            reclamees' = (reclamees \cup {j}) \ balayees
      BY <2>1 DEF Echanger
    <3>2. /\ echanges' = [echanges EXCEPT ![j] = @ + 1]
          /\ UNCHANGED <<livraisons, perimees>> /\ j \notin perimees /\ j \notin reclamees
      BY <2>1 DEF Echanger, reclamable, verifyWithKeys
    <3>3. echanges[j] = 0
      BY <1>1, <3>2
    <3>4. DOMAIN echanges' = DOMAIN echanges
      BY <3>2
    <3>5. echanges'[j] = 1 /\ j \in reclamees'
      BY <1>1, <3>1, <3>2, <3>3
    <3>6. \A i \in DOMAIN livraisons \ {j} :
            /\ echanges'[i] = echanges[i]
            /\ i \in reclamees \cup perimees => i \in reclamees' \cup perimees'
      BY <1>1, <3>1, <3>2
    <3> QED
      BY <1>1, <3>2, <3>4, <3>5, <3>6 DEF Livrees
  <2> QED
    BY <1>2, <1>4, <2>1
       DEF Connecter, LireCompte, ComparerMotDePasse, SInscrire, PresenterCode,
           ConsommerPas, ConfirmerSecret, LireLivre, Emettre
<1>5. ASSUME NEW a \in Appels, Administrer(a) PROVE Livrees'
  BY <1>2, <1>5 DEF Administrer, DemandeAdmise, CreationAdmise, ReferenceAdmise,
                    AppelAvance, sessionsVars
<1>6. ASSUME NEW t \in jetons, SeDeconnecter(t) PROVE Livrees'
  BY <1>2, <1>6 DEF SeDeconnecter
<1>7. CASE CommencerOidc
  BY <1>2, <1>7 DEF CommencerOidc
<1>8. ASSUME NEW c \in Comptes, NEW vouee \in BOOLEAN, RetourOidc(c, vouee) PROVE Livrees'
  <2>1. /\ UNCHANGED <<compte, reclamees, perimees>>
        /\ echanges' = [j \in DOMAIN livraisons' |->
                          IF j \in DOMAIN livraisons THEN echanges[j] ELSE 0]
        /\ \/ livraisons' = livraisons
           \/ livraisons' = issueDeliveryToken(c) /\ compte[c].existe
    BY <1>8 DEF RetourOidc, comptesVars
  <2>2. ASSUME livraisons' = issueDeliveryToken(c)
        PROVE  \A j \in DOMAIN livraisons' :
                 livraisons'[j] = IF j \in DOMAIN livraisons THEN livraisons[j] ELSE c
    BY <2>2 DEF issueDeliveryToken
  <2>3. \A j \in DOMAIN livraisons' :
          /\ j \in DOMAIN livraisons => livraisons'[j] = livraisons[j]
          /\ j \notin DOMAIN livraisons => livraisons'[j] = c /\ compte[c].existe
    BY <2>1, <2>2
  <2> QED
    BY <1>1, <2>1, <2>3 DEF Livrees
<1>9. CASE JetonExpire
  BY <1>2, <1>9 DEF JetonExpire
<1>10. CASE ReferenceTemporaireExpire
  BY <1>2, <1>10 DEF ReferenceTemporaireExpire
<1>11. CASE PasSuivant
  BY <1>2, <1>11 DEF PasSuivant
<1>12. CASE Rotation
  BY <1>2, <1>12 DEF Rotation
<1> QED
  BY <1>3, <1>4, <1>5, <1>6, <1>7, <1>8, <1>9, <1>10, <1>11, <1>12 DEF Next

------------------------------------------------------------------------------
(* The theorems.                                                             *)

LEMMA IInvInit == Init => IInv
<1> SUFFICES ASSUME Init PROVE IInv
  OBVIOUS
<1>1. Typed
  BY TypedInit
<1>2. /\ compte = ComptesInitiaux /\ verrou = Rien
      /\ \A a \in Appels : appel[a] = AppelLibre
      /\ \A x \in Connexions : connexion[x] = ConnexionLibre
      /\ jetons = JetonsInitiaux /\ defis = DefisInitiaux /\ cle = 1
      /\ graines = Cardinality(Comptes)
      /\ livraisons = LivraisonsInitiales
      /\ echanges = [j \in DOMAIN LivraisonsInitiales |-> 0]
  BY DEF Init, ComptesInit
<1>3. Verrous /\ Protection
  BY <1>2, ComptesAssumption DEF Verrous, VerrouDe, Protection, ProtectionDe, Lue, AppelLibre
<1>4. DernierSuperAdmin
  BY <1>2, ComptesAssumption DEF DernierSuperAdmin, superAdminsActifs
<1>5. Souvenirs
  <2>1. \A t \in jetons : Fidele(t, compte[t.sub]) /\ t.cle <= cle
    <3> SUFFICES ASSUME NEW t \in JetonsInitiaux
                 PROVE  Fidele(t, ComptesInitiaux[t.sub]) /\ t.cle <= 1
      BY <1>2
    <3>1. t \in Jeton
      BY SessionsAssumption
    <3> QED
      BY <3>1, SessionsAssumption, ComptesAssumption DEF Fidele, Jeton, Ligne
  <2>2. \A d \in defis : compte[d.sub].existe
    BY <1>2, SessionsAssumption
  <2> QED
    BY <1>2, <2>1, <2>2 DEF Souvenirs, ConnexionLibre, EtatsAvecLigne
<1>6. Codes
  <2>1. \A x \in Connexions : connexion[x].code = Rien
    BY <1>2 DEF ConnexionLibre
  <2>2. Graines
    BY <1>2, <2>1, SessionsAssumption DEF Graines
  <2>3. CodesConsommes
    BY <1>2, <2>1, SessionsAssumption DEF CodesConsommes, Porteuse, Actuel
  <2>4. CodesDistincts
    BY <1>2, <2>1, SessionsAssumption DEF CodesDistincts, Porteuse, Actuel
  <2> QED
    BY <2>2, <2>3, <2>4 DEF Codes
<1>7. Livrees
  BY <1>2, SessionsAssumption DEF Livrees
<1> QED
  BY <1>1, <1>3, <1>4, <1>5, <1>6, <1>7 DEF IInv

LEMMA IInvStep == IInv /\ [Next]_vars => IInv'
<1> SUFFICES ASSUME IInv, [Next]_vars PROVE IInv'
  OBVIOUS
<1>1. Typed' /\ Verrous' /\ Protection' /\ DernierSuperAdmin'
  BY TypedStep, VerrousStep, ProtectionStep, DernierStep
<1>2. Souvenirs' /\ Codes' /\ Livrees'
  BY SouvenirsStep, GrainesStep, CodesStep, LivreesStep DEF Codes
<1> QED
  BY <1>1, <1>2 DEF IInv

THEOREM Invariant == Spec => []IInv
BY IInvInit, IInvStep, PTL DEF Spec

\* The institution is never left without an active super administrator, however
\* many administrators take each other's rights away at the same time.
THEOREM ResteUnSuperAdmin == Spec => []DernierSuperAdmin
<1>1. IInv => DernierSuperAdmin
  BY DEF IInv
<1> QED
  BY <1>1, Invariant, PTL

\* A token the guard lets through carries what the account has now.
THEOREM DroitsAJour == Spec => []DroitsEnVigueur
<1>1. IInv => DroitsEnVigueur
  BY DEF IInv, Souvenirs, Fidele, DroitsEnVigueur, Accepte, sessionEnVigueur
<1> QED
  BY <1>1, Invariant, PTL

\* A code of a seed in force, and a delivery token, open one session.
THEOREM UneSeuleFois == Spec => []UsageUnique
<1>1. IInv => UsageUnique
  <2> SUFFICES ASSUME IInv PROVE UsageUnique
    OBVIOUS
  <2>1. \A t, u \in jetons :
          (/\ t.code # Rien /\ t.code = u.code /\ t.sub = u.sub
           /\ compte[t.sub].secret = t.code.secret) => t = u
    BY DEF IInv, Codes, CodesDistincts, Actuel
  <2>2. \A j \in DOMAIN livraisons : echanges[j] <= 1
    BY DEF IInv, Livrees
  <2> QED
    BY <2>1, <2>2 DEF UsageUnique
<1> QED
  BY <1>1, Invariant, PTL

\* The revocation rows and the expired tokens of a step, and its key.
LEMMA FinDesJetons ==
  ASSUME IInv, [Next]_vars
  PROVE  /\ expires \subseteq expires'
         /\ revoques \ expires \subseteq revoques' \cup expires'
         /\ cle' \in {cle, cle + 1}
<1>1. CASE UNCHANGED vars
  BY <1>1 DEF vars, sessionsVars
<1>2. ASSUME NEW x \in Connexions, Connecter(x)
      PROVE  UNCHANGED <<expires, revoques, cle>>
  BY <1>2 DEF Connecter, LireCompte, ComparerMotDePasse, SInscrire, PresenterCode,
              ConsommerPas, ConfirmerSecret, Echanger, LireLivre, Emettre
<1>3. ASSUME NEW a \in Appels, Administrer(a)
      PROVE  UNCHANGED <<expires, revoques, cle>>
  BY <1>3 DEF Administrer, DemandeAdmise, CreationAdmise, ReferenceAdmise,
              AppelAvance, sessionsVars
<1>4. ASSUME NEW t \in jetons, SeDeconnecter(t)
      PROVE  UNCHANGED <<expires, cle>> /\ revoques \ expires \subseteq revoques'
  BY <1>4 DEF SeDeconnecter, apresRevocation
<1>5. CASE CommencerOidc
  BY <1>5 DEF CommencerOidc
<1>6. ASSUME NEW c \in Comptes, NEW vouee \in BOOLEAN, RetourOidc(c, vouee)
      PROVE  UNCHANGED <<expires, revoques, cle>>
  BY <1>6 DEF RetourOidc
<1>7. CASE JetonExpire
  BY <1>7 DEF JetonExpire
<1>8. CASE ReferenceTemporaireExpire
  BY <1>8 DEF ReferenceTemporaireExpire
<1>9. CASE PasSuivant
  BY <1>9 DEF PasSuivant
<1>10. CASE Rotation
  BY <1>10 DEF Rotation
<1> QED
  BY <1>1, <1>2, <1>3, <1>4, <1>5, <1>6, <1>7, <1>8, <1>9, <1>10 DEF Next

\* A token the guard has stopped letting through stays closed.
THEOREM SessionClose == Spec => JetonMort
<1>1. IInv /\ [Next]_vars => [\A t \in jetons : ~Accepte(t) => ~Accepte(t)']_vars
  <2> SUFFICES ASSUME IInv, [Next]_vars, NEW t \in jetons, ~Accepte(t), Accepte(t)'
               PROVE  FALSE
    OBVIOUS
  <2>1. /\ t \in Jeton /\ compte[t.sub] \in Ligne /\ compte'[t.sub] \in Ligne
        /\ Fidele(t, compte[t.sub]) /\ t.cle <= cle /\ cle \in Nat
        /\ Evolution(compte[t.sub], compte'[t.sub])
    BY Rangees DEF IInv, Typed, Souvenirs, Jeton
  <2>2. /\ t.cle \in {cle', cle' - 1} /\ t.jti \notin expires'
        /\ t.jti \notin revoques'
        /\ compte'[t.sub].existe /\ compte'[t.sub].actif
        /\ compte'[t.sub].version = t.version
    BY DEF Accepte, signatureValide, cleConnue, isRevoked, sessionEnVigueur
  <2>3. cleConnue(t.cle)
    BY <2>1, <2>2, FinDesJetons DEF cleConnue, Jeton
  <2>4. signatureValide(t) /\ ~isRevoked(t)
    BY <2>2, <2>3, FinDesJetons DEF signatureValide, isRevoked
  <2>5. compte[t.sub].version = t.version /\ compte[t.sub].existe
    BY <2>1, <2>2 DEF Fidele, Evolution, Jeton, Ligne
  <2>6. compte[t.sub].actif
    BY <2>1, <2>2, <2>5 DEF Evolution
  <2> QED
    BY <2>4, <2>5, <2>6 DEF Accepte, sessionEnVigueur
<1> QED
  BY <1>1, Invariant, PTL DEF Spec, JetonMort

-----------------------------------------------------------------------------
(* The portals.                                                            *)

LEMMA LesPortails ==
  /\ Portails = {"entrepreneur", "agent", "comite", "direction", "administration",
                 "auditeur", "partenaire"}
  /\ PagesDuPortail("entrepreneur") =
       {"/entrepreneur", "/entrepreneur/programmes", "/entrepreneur/entreprise",
        "/entrepreneur/demande", "/entrepreneur/suivi", "/entrepreneur/suivi/[id]/documents"}
  /\ PagesDuPortail("agent") =
       {"/agent/tableau-de-bord", "/agent/dossiers", "/agent/programmes", "/agent/dossiers/[id]"}
  /\ PagesDuPortail("comite") =
       {"/comite/tableau-de-bord", "/comite/dossiers", "/comite/programmes", "/comite/dossiers/[id]"}
  /\ PagesDuPortail("direction") =
       {"/direction/tableau-de-bord", "/direction/programmes", "/direction/financements",
        "/direction/rapprochements", "/direction/financements/[id]"}
  /\ PagesDuPortail("administration") =
       {"/administration/tableau-de-bord", "/administration/utilisateurs",
        "/administration/recuperation", "/administration/journal"}
  /\ PagesDuPortail("auditeur") =
       {"/auditeur/tableau-de-bord", "/auditeur/programmes", "/auditeur/financements/[id]",
        "/auditeur/dossiers/[id]"}
  /\ PagesDuPortail("partenaire") =
       {"/partenaire/tableau-de-bord", "/partenaire/financements", "/partenaire/operations",
        "/partenaire/financements/[id]"}
<1>1. Portails = {"entrepreneur", "agent", "comite", "direction", "administration",
                  "auditeur", "partenaire"}
  BY DEF Portails, PORTAL_ACCESS
<1>2. PagesDuPortail("entrepreneur") =
       {"/entrepreneur", "/entrepreneur/programmes", "/entrepreneur/entreprise",
        "/entrepreneur/demande", "/entrepreneur/suivi", "/entrepreneur/suivi/[id]/documents"}
  BY DEF PagesDuPortail, PORTAL_ACCESS, PagesDeDetail, Acces
<1>3. PagesDuPortail("agent") =
       {"/agent/tableau-de-bord", "/agent/dossiers", "/agent/programmes", "/agent/dossiers/[id]"}
  BY DEF PagesDuPortail, PORTAL_ACCESS, PagesDeDetail, Acces
<1>4. PagesDuPortail("comite") =
       {"/comite/tableau-de-bord", "/comite/dossiers", "/comite/programmes", "/comite/dossiers/[id]"}
  BY DEF PagesDuPortail, PORTAL_ACCESS, PagesDeDetail, Acces
<1>5. PagesDuPortail("direction") =
       {"/direction/tableau-de-bord", "/direction/programmes", "/direction/financements",
        "/direction/rapprochements", "/direction/financements/[id]"}
  BY DEF PagesDuPortail, PORTAL_ACCESS, PagesDeDetail, Acces
<1>6. PagesDuPortail("administration") =
       {"/administration/tableau-de-bord", "/administration/utilisateurs",
        "/administration/recuperation", "/administration/journal"}
  BY DEF PagesDuPortail, PORTAL_ACCESS, PagesDeDetail, Acces
<1>7. PagesDuPortail("auditeur") =
       {"/auditeur/tableau-de-bord", "/auditeur/programmes", "/auditeur/financements/[id]",
        "/auditeur/dossiers/[id]"}
  BY DEF PagesDuPortail, PORTAL_ACCESS, PagesDeDetail, Acces
<1>8. PagesDuPortail("partenaire") =
       {"/partenaire/tableau-de-bord", "/partenaire/financements", "/partenaire/operations",
        "/partenaire/financements/[id]"}
  BY DEF PagesDuPortail, PORTAL_ACCESS, PagesDeDetail, Acces
<1>9. QED  BY <1>1, <1>2, <1>3, <1>4, <1>5, <1>6, <1>7, <1>8

LEMMA PagesNommees ==
  /\ "aucune" \notin Pages
  /\ "/connexion" \in Pages /\ "/" \in Pages
  /\ ~ EstPortail("/connexion") /\ ~ EstPortail("/")
  /\ \A page \in PagesPartagees : ~ EstPortail(page)
  /\ \A page : EstPortail(page) => page \in Pages
<1>1. \A p \in Portails : {"aucune", "/connexion", "/", "/notifications", "/mes-donnees", "/profil",
                           "/assistance"} \cap PagesDuPortail(p) = {}
  BY LesPortails
<1>2. QED  BY <1>1 DEF Pages, PagesPartagees, EstPortail, resolvePortalFromPath

(* The home of an account is a page.                                       *)
LEMMA AccueilEstUnePage ==
  ASSUME NEW roles
  PROVE  resolveRoleHome(roles) \in SUBSET Pages
<1>1. SUFFICES ASSUME roles \cap RolesConnus # {}
               PROVE  PORTAL_ACCESS[ROLE_HOME_PRIORITY[PremierRole(roles)][2]].homeHref \in Pages
  BY DEF resolveRoleHome
<1> DEFINE nom(i) == ROLE_HOME_PRIORITY[i][1]
           premier(i) == /\ nom(i) \in roles
                         /\ \A j \in DOMAIN ROLE_HOME_PRIORITY : nom(j) \in roles => i <= j
<1>2. DOMAIN ROLE_HOME_PRIORITY = 1 .. 8  BY DEF ROLE_HOME_PRIORITY
<1>3. /\ nom(1) = "SUPER_ADMIN" /\ nom(2) = "DIRECTION_FODIP" /\ nom(3) = "ANALYSTE"
      /\ nom(4) = "AGENT_FODIP" /\ nom(5) = "COMITE_FINANCEMENT" /\ nom(6) = "AUDITEUR"
      /\ nom(7) = "PARTENAIRE_BANCAIRE" /\ nom(8) = "PME"
  BY DEF ROLE_HOME_PRIORITY
<1>4. RolesConnus = {"PME", "AGENT_FODIP", "ANALYSTE", "COMITE_FINANCEMENT", "DIRECTION_FODIP",
                     "AUDITEUR", "PARTENAIRE_BANCAIRE", "SUPER_ADMIN"}
  BY DEF RolesConnus, PermissionsDe
<1>5. \E i \in 1 .. 8 : nom(i) \in roles  BY <1>1, <1>3, <1>4
<1>6. \E i \in 1 .. 8 : premier(i)
  <2> HIDE DEF nom
  <2>1. CASE nom(1) \in roles  BY <1>2, <2>1
  <2>2. CASE nom(1) \notin roles /\ nom(2) \in roles  BY <1>2, <2>2
  <2>3. CASE nom(1) \notin roles /\ nom(2) \notin roles /\ nom(3) \in roles  BY <1>2, <2>3
  <2>4. CASE (\A i \in 1 .. 3 : nom(i) \notin roles) /\ nom(4) \in roles  BY <1>2, <2>4
  <2>5. CASE (\A i \in 1 .. 4 : nom(i) \notin roles) /\ nom(5) \in roles  BY <1>2, <2>5
  <2>6. CASE (\A i \in 1 .. 5 : nom(i) \notin roles) /\ nom(6) \in roles  BY <1>2, <2>6
  <2>7. CASE (\A i \in 1 .. 6 : nom(i) \notin roles) /\ nom(7) \in roles  BY <1>2, <2>7
  <2>8. CASE \A i \in 1 .. 7 : nom(i) \notin roles  BY <1>2, <1>5, <2>8
  <2>9. QED  BY <2>1, <2>2, <2>3, <2>4, <2>5, <2>6, <2>7, <2>8
<1>7. PremierRole(roles) \in 1 .. 8
  BY <1>2, <1>6 DEF PremierRole
<1>8. \A i \in 1 .. 8 : PORTAL_ACCESS[ROLE_HOME_PRIORITY[i][2]].homeHref
                          \in UNION {PagesDuPortail(p) : p \in Portails}
  <2>1. \A i \in 1 .. 8 :
          ROLE_HOME_PRIORITY[i][2] \in Portails
    BY LesPortails DEF ROLE_HOME_PRIORITY
  <2>2. \A p \in Portails : PORTAL_ACCESS[p].homeHref \in PagesDuPortail(p)
    BY LesPortails DEF PORTAL_ACCESS, Acces
  <2>3. QED  BY <2>1, <2>2
<1>9. QED  BY <1>7, <1>8 DEF Pages

-----------------------------------------------------------------------------
(* The tab: PortailSpec, whatever the accounts, the sessions and the pages *)
(* the tab opens first.                                                    *)

Profil(j) == sessions[j].compte

\* The account of the token has a role of the page's portal.
Admis(page, j) == \E p \in resolvePortalFromPath(page) : rolesCanAccessPortal(Profil(j), p)

\* The API refused one of the loads of the page to the account of the request.
Refusee(q) ==
  /\ q.de = "donnees" /\ q.jeton # 0
  /\ \E r \in load(q.page, Profil(q.jeton)) : ~ canActivate(Profil(q.jeton), r)

\* The shell's request is for the page that is mounted, and a load that is still
\* awaited is that of a page on screen.
Suivie(q) ==
  /\ q.jeton <= Len(sessions)
  /\ q.de = "identifiants" => q.compte \in Profils
  /\ q.de = "garde" => q.courante /\ q.page = onglet.page /\ EstPortail(q.page)
  /\ q.de = "garde" /\ q.code = "ok" => q.jeton # 0
  /\ q.code = "403" => Refusee(q)
  /\ q.de = "donnees" /\ q.courante =>
       q.page = onglet.page /\ (EstPortail(q.page) => onglet.valide = q.page)

\* The path the shell has validated is that of the page, for an account of its
\* portal.
Valide ==
  /\ onglet.verifie <= Len(sessions)
  /\ onglet.valide # "aucune" =>
       /\ onglet.valide = onglet.page /\ EstPortail(onglet.page)
       /\ onglet.fraiche /\ onglet.verifie # 0
       /\ Admis(onglet.page, onglet.verifie)

PortailInv ==
  /\ PortailTypeOK
  /\ temoin <= Len(sessions)
  /\ Valide
  /\ \A q \in requetes : Suivie(q)

\* Tokens are only added, and keep their account.
Croissance ==
  /\ sessions' \in Seq([compte: Profils, vive: BOOLEAN])
  /\ Len(sessions') <= MaxSessions /\ Len(sessions) <= Len(sessions')
  /\ \A j \in 1 .. Len(sessions) : sessions'[j].compte = sessions[j].compte
  /\ temoin' \in 0 .. Len(sessions')

(* The fields of a request, and what is asked anew.                        *)
LEMMA ChampsDe ==
  ASSUME PortailTypeOK
  PROVE  /\ Len(sessions) \in Nat /\ MaxSessions \in Nat
         /\ sessions \in Seq([compte: Profils, vive: BOOLEAN])
         /\ \A j \in 1 .. Len(sessions) : sessions[j] \in [compte: Profils, vive: BOOLEAN]
         /\ \A q \in requetes : q \in Requete /\ q.jeton \in Nat
         /\ onglet \in Onglet /\ onglet.verifie \in Nat /\ temoin \in Nat
<1>1. Len(sessions) \in Nat  BY DEF PortailTypeOK
<1>2. \A q \in requetes : q \in Requete  BY DEF PortailTypeOK
<1>3. \A q \in Requete : q.jeton \in Nat  BY DEF Requete, Jetons
<1>4. MaxSessions \in Nat /\ \A o \in Onglet : o.verifie \in Nat
  BY PortailAssumption DEF Onglet, Jetons
<1>5. temoin \in Nat /\ onglet \in Onglet
  BY DEF PortailTypeOK, Jetons
<1>6. \A j \in 1 .. Len(sessions) : sessions[j] \in [compte: Profils, vive: BOOLEAN]
  <2>1. PICK S : S = [compte: Profils, vive: BOOLEAN]  OBVIOUS
  <2>2. sessions \in Seq(S)  BY <2>1 DEF PortailTypeOK
  <2>3. \A j \in 1 .. Len(sessions) : sessions[j] \in S  BY <2>2
  <2>4. QED  BY <2>1, <2>3
<1>7. sessions \in Seq([compte: Profils, vive: BOOLEAN])  BY DEF PortailTypeOK
<1>8. QED  BY <1>1, <1>2, <1>3, <1>4, <1>5, <1>6, <1>7

LEMMA Neuves ==
  ASSUME NEW de \in Sortes, NEW page \in Pages, NEW j \in Jetons, NEW c \in Profils \cup {{}}
  PROVE  LET q == Interroger(de, page, j, c) IN
         /\ q \in Requete
         /\ q.de = de /\ q.page = page /\ q.courante /\ q.jeton = j
         /\ q.compte = c /\ q.code = "attente"
BY DEF Interroger, Requete, CodesReponse

(* A request keeps what is known of it while the page and what the shell   *)
(* has validated stay.                                                     *)
LEMMA SuivieStable ==
  ASSUME PortailTypeOK, Croissance, NEW q \in requetes, Suivie(q),
         onglet'.page = onglet.page, onglet'.valide = onglet.valide
  PROVE  Suivie(q)'
<1>1. q.jeton \in Nat /\ Len(sessions) \in Nat  BY ChampsDe
<1>2. q.jeton <= Len(sessions') /\ Len(sessions') \in Nat
  BY <1>1 DEF Suivie, Croissance
<1>3. q.code = "403" => Refusee(q)'
  <2>1. SUFFICES ASSUME q.code = "403"  PROVE Refusee(q)'  OBVIOUS
  <2>2. Refusee(q) /\ q.jeton \in 1 .. Len(sessions)  BY <1>1, <2>1 DEF Suivie, Refusee
  <2>3. Profil(q.jeton)' = Profil(q.jeton)  BY <2>2 DEF Croissance, Profil
  <2>4. QED  BY <2>2, <2>3 DEF Refusee
<1>4. QED  BY <1>2, <1>3 DEF Suivie

LEMMA ValideStable ==
  ASSUME PortailTypeOK, Croissance, Valide,
         onglet'.page = onglet.page, onglet'.valide = onglet.valide,
         onglet'.fraiche = onglet.fraiche, onglet'.verifie = onglet.verifie
  PROVE  Valide'
<1>1. onglet.verifie \in Nat /\ Len(sessions) \in Nat  BY ChampsDe
<1>2. onglet.verifie <= Len(sessions') /\ Len(sessions') \in Nat
  BY <1>1 DEF Valide, Croissance
<1>3. onglet.valide # "aucune" => Profil(onglet.verifie)' = Profil(onglet.verifie)
  <2>1. SUFFICES ASSUME onglet.valide # "aucune"
                 PROVE  sessions'[onglet.verifie].compte = sessions[onglet.verifie].compte
    BY DEF Profil
  <2>2. onglet.verifie \in 1 .. Len(sessions)  BY <1>1, <2>1 DEF Valide
  <2>3. QED  BY <2>2 DEF Croissance
<1>4. QED  BY <1>2, <1>3 DEF Valide, Admis

(* The tab just mounted.                                                   *)
LEMMA OngletNeuf ==
  ASSUME PortailTypeOK, NEW page \in Pages
  PROVE  LET o == NouvelOnglet(page) IN
         /\ o \in Onglet
         /\ o.page = page /\ o.valide = "aucune" /\ o.verifie = 0 /\ ~ o.motif
<1>1. dernierPortail(page) \in SUBSET Portails
  BY DEF dernierPortail, resolvePortalFromPath, PortailTypeOK, Onglet
<1>2. 0 \in Jetons /\ "/" \in Pages  BY PagesNommees, PortailAssumption DEF Jetons
<1>3. SansPage \in Onglet
  BY <1>2 DEF SansPage, Onglet
<1>4. QED  BY <1>1, <1>3 DEF NouvelOnglet, Onglet, SansPage

(* What the effects of a page ask, once it is mounted.                     *)
LEMMA EffetsSuivis ==
  ASSUME NEW page \in Pages, NEW j \in Jetons, j <= Len(sessions)',
         onglet'.page = page
  PROVE  \A q \in effets(page, j) : q \in Requete /\ Suivie(q)'
<1>1. {} \in Profils \cup {{}}  OBVIOUS
<1>2. ASSUME NEW de \in {"garde", "menu", "carte", "donnees"},
             de = "garde" => EstPortail(page), de = "donnees" => ~ EstPortail(page)
      PROVE  Interroger(de, page, j, {}) \in Requete /\ Suivie(Interroger(de, page, j, {}))'
  <2>1. PICK q : q = Interroger(de, page, j, {})  OBVIOUS
  <2>2. /\ q \in Requete /\ q.de = de /\ q.page = page /\ q.courante /\ q.jeton = j
        /\ q.code = "attente"
    BY <1>1, <2>1, Neuves DEF Sortes
  <2>3. Suivie(q)'  BY <1>2, <2>2 DEF Suivie
  <2>4. QED  BY <2>1, <2>2, <2>3
<1>3. QED  BY <1>2 DEF effets

LEMMA OuvrirInv ==
  ASSUME PortailInv, Croissance, temoin' = temoin,
         evenements' \in 0 .. MaxEvenements,
         NEW page \in Pages, NEW motif \in BOOLEAN, Ouvrir(page, motif)
  PROVE  PortailInv'
<1> DEFINE o == NouvelOnglet(page)
<1>0. PortailTypeOK /\ temoin <= Len(sessions)  BY DEF PortailInv
<1>1. o \in Onglet /\ o.page = page /\ o.valide = "aucune" /\ o.verifie = 0
  BY <1>0, OngletNeuf
<1>2. onglet' = [o EXCEPT !.motif = motif]  BY DEF Ouvrir
<1> HIDE DEF o
<1>3. onglet' \in Onglet /\ onglet'.page = page /\ onglet'.valide = "aucune" /\ onglet'.verifie = 0
  BY <1>1, <1>2 DEF Onglet
<1>4. temoin \in Jetons /\ temoin <= Len(sessions') /\ Len(sessions') \in Nat
  BY <1>0, ChampsDe DEF Croissance, PortailTypeOK
<1>5. \A q \in requetes' : q \in Requete /\ Suivie(q)'
  BY <1>3, <1>4, EffetsSuivis DEF Ouvrir
<1>6. PortailTypeOK'
  BY <1>3, <1>4, <1>5 DEF PortailTypeOK, Croissance, Jetons
<1>7. Valide'  BY <1>3, <1>4 DEF Valide
<1>8. QED  BY <1>4, <1>5, <1>6, <1>7 DEF PortailInv

LEMMA NaviguerInv ==
  ASSUME PortailInv, Croissance,
         evenements' \in 0 .. MaxEvenements,
         NEW page \in Pages, NEW reste \in SUBSET requetes, NEW j \in 0 .. Len(sessions'),
         Naviguer(page, reste, j)
  PROVE  PortailInv'
<1>0. PortailTypeOK /\ temoin <= Len(sessions) /\ Valide  BY DEF PortailInv
<1>a. /\ Len(sessions) \in Nat /\ Len(sessions') \in Nat /\ j \in Jetons /\ 0 \in Jetons
      /\ j <= Len(sessions')
  BY <1>0, ChampsDe DEF Croissance, Jetons, PortailAssumption
<1>c. CASE (\E q \in reste : illisible(q)) /\ onglet' = NouvelOnglet("/") /\ requetes' = {}
  <2>1. onglet' \in Onglet /\ onglet'.valide = "aucune" /\ onglet'.verifie = 0
    BY <1>0, <1>c, PagesNommees, OngletNeuf
  <2>2. temoin' \in Jetons  BY <1>0, <1>a, ChampsDe DEF Croissance, Jetons
  <2>3. PortailTypeOK'  BY <1>c, <2>1, <2>2 DEF PortailTypeOK, Croissance
  <2>4. Valide'  BY <1>a, <2>1 DEF Valide
  <2>5. QED  BY <1>c, <2>3, <2>4 DEF PortailInv, Croissance
<1>d. SUFFICES ASSUME onglet' = ongletArrive(page),
                      requetes' = {q \in annulees(reste) : q.de = "menu" => MemePortail(page)}
                                  \cup effets(page, j)
               PROVE  PortailInv'
  BY <1>c DEF Naviguer
<1>1. onglet' \in Onglet /\ onglet'.page = page /\ onglet'.valide = "aucune" /\ onglet'.verifie = 0
  <2>1. CASE MemePortail(page)
    <3>1. onglet' = [onglet EXCEPT !.page = page, !.valide = "aucune", !.fraiche = FALSE,
                                   !.verifie = 0, !.echec = FALSE]
      BY <1>d, <2>1 DEF ongletArrive
    <3>2. onglet \in Onglet  BY <1>0 DEF PortailTypeOK
    <3>3. QED  BY <1>a, <3>1, <3>2 DEF Onglet
  <2>2. CASE ~ MemePortail(page)
    <3>1. onglet' = NouvelOnglet(page)  BY <1>d, <2>2 DEF ongletArrive
    <3>2. QED  BY <1>0, <3>1, OngletNeuf
  <2>3. QED  BY <2>1, <2>2
<1>2. ASSUME NEW q \in annulees(reste)  PROVE q \in Requete /\ Suivie(q)'
  <2>1. PICK r \in requetes : ~ abandonnee(r) /\ q = [r EXCEPT !.courante = FALSE]
    BY <1>2 DEF annulees
  <2>2. r \in Requete /\ r.jeton \in Nat /\ Suivie(r)  BY <1>0, ChampsDe DEF PortailInv
  <2>3. /\ q \in Requete /\ q.de = r.de /\ q.page = r.page /\ ~ q.courante /\ q.jeton = r.jeton
        /\ q.compte = r.compte /\ q.code = r.code
    BY <2>1, <2>2 DEF Requete
  <2>4. q.de # "garde"  BY <2>1, <2>3 DEF abandonnee
  <2>5. q.jeton <= Len(sessions')  BY <1>a, <2>2, <2>3 DEF Suivie, Croissance
  <2>6. q.code = "403" => Refusee(q)'
    <3>1. SUFFICES ASSUME q.code = "403"  PROVE Refusee(q)'  OBVIOUS
    <3>2. Refusee(r) /\ r.jeton \in 1 .. Len(sessions)
      BY <1>a, <2>2, <2>3, <3>1 DEF Suivie, Refusee
    <3>3. sessions'[r.jeton].compte = sessions[r.jeton].compte  BY <3>2 DEF Croissance
    <3>4. QED  BY <2>3, <3>2, <3>3 DEF Refusee, Profil
  <2>7. q.de = "identifiants" => q.compte \in Profils  BY <2>2, <2>3 DEF Suivie
  <2>8. QED  BY <2>3, <2>4, <2>5, <2>6, <2>7 DEF Suivie
<1>3. ASSUME NEW q \in requetes'  PROVE q \in Requete /\ Suivie(q)'
  <2>1. CASE q \in effets(page, j)
    BY <1>1, <1>a, <2>1, EffetsSuivis
  <2>2. CASE q \in annulees(reste)  BY <1>2, <2>2
  <2>3. QED  BY <1>d, <2>1, <2>2
<1>b. temoin' \in Jetons
  BY <1>0, <1>a, ChampsDe DEF Croissance, Jetons
<1>4. PortailTypeOK'
  BY <1>1, <1>3, <1>b DEF PortailTypeOK, Croissance
<1>5. Valide'  BY <1>1, <1>a DEF Valide
<1>6. QED  BY <1>3, <1>4, <1>5 DEF PortailInv, Croissance

(* Tokens and what the rest of the system does of them.                    *)
LEMMA Calme ==
  ASSUME PortailInv, sessions' = sessions, temoin' \in 0 .. Len(sessions)
  PROVE  Croissance
<1>1. PortailTypeOK  BY DEF PortailInv
<1>2. Len(sessions) \in Nat  BY <1>1, ChampsDe
<1>3. sessions \in Seq([compte: Profils, vive: BOOLEAN]) /\ Len(sessions) <= MaxSessions
  BY <1>1 DEF PortailTypeOK
<1>4. QED  BY <1>2, <1>3 DEF Croissance

LEMMA CalmeTemoin ==
  ASSUME PortailInv, sessions' = sessions, temoin' = temoin
  PROVE  Croissance
<1>1. PortailTypeOK /\ temoin <= Len(sessions)  BY DEF PortailInv
<1>2. temoin \in 0 .. Len(sessions)  BY <1>1, ChampsDe
<1>3. QED  BY <1>2, Calme

LEMMA Ajout ==
  ASSUME PortailInv, Len(sessions) < MaxSessions, NEW c \in Profils,
         sessions' = Append(sessions, [compte |-> c, vive |-> TRUE]),
         temoin' \in {temoin, Len(sessions) + 1}
  PROVE  Croissance /\ Len(sessions') = Len(sessions) + 1
<1>1. PortailTypeOK /\ temoin <= Len(sessions)  BY DEF PortailInv
<1>2. PICK S : S = [compte: Profils, vive: BOOLEAN]  OBVIOUS
<1>3. /\ Len(sessions) \in Nat /\ MaxSessions \in Nat /\ temoin \in Nat /\ sessions \in Seq(S)
  BY <1>1, <1>2, ChampsDe
<1>4. PICK n \in S : n = [compte |-> c, vive |-> TRUE]  BY <1>2
<1>5. /\ sessions' \in Seq(S) /\ Len(sessions') = Len(sessions) + 1
      /\ \A j \in 1 .. Len(sessions) : sessions'[j] = sessions[j]
  BY <1>3, <1>4
<1>6. /\ Len(sessions') <= MaxSessions /\ Len(sessions) <= Len(sessions')
      /\ temoin' \in 0 .. Len(sessions')
  BY <1>1, <1>3, <1>5
<1>7. QED  BY <1>2, <1>5, <1>6 DEF Croissance

LEMMA Revocation ==
  ASSUME PortailInv, NEW j \in 1 .. Len(sessions),
         sessions' = [sessions EXCEPT ![j].vive = FALSE], temoin' = temoin
  PROVE  Croissance
<1>1. PortailTypeOK /\ temoin <= Len(sessions)  BY DEF PortailInv
<1>2. PICK S : S = [compte: Profils, vive: BOOLEAN]  OBVIOUS
<1>3. /\ Len(sessions) \in Nat /\ temoin \in Nat /\ sessions \in Seq(S)
      /\ Len(sessions) <= MaxSessions
  BY <1>1, <1>2, ChampsDe DEF PortailTypeOK
<1>4. sessions[j] \in S  BY <1>3
<1>5. PICK n : n = [sessions[j] EXCEPT !.vive = FALSE]  OBVIOUS
<1>6. n \in S /\ n.compte = sessions[j].compte  BY <1>2, <1>4, <1>5
<1>7. sessions' = [sessions EXCEPT ![j] = n]  BY <1>5
<1>a. DOMAIN sessions = 1 .. Len(sessions)  BY <1>3
<1>b. \A k \in 1 .. Len(sessions) : sessions[k] \in S  BY <1>3
<1>9. \A k \in 1 .. Len(sessions) : sessions'[k] = IF k = j THEN n ELSE sessions[k]
  BY <1>a, <1>7
<1>c. sessions' \in [1 .. Len(sessions) -> S]
  BY <1>a, <1>b, <1>6, <1>7
<1>8. sessions' \in Seq(S) /\ Len(sessions') = Len(sessions)
  BY <1>3, <1>c
<1>10. \A k \in 1 .. Len(sessions) : sessions'[k].compte = sessions[k].compte
  BY <1>6, <1>9
<1>11. temoin' \in 0 .. Len(sessions')  BY <1>1, <1>3, <1>8
<1>12. QED  BY <1>2, <1>3, <1>8, <1>10, <1>11 DEF Croissance

(* A step that keeps the page and what the shell has validated, and asks    *)
(* or answers for them.                                                    *)
LEMMA SurPlace ==
  ASSUME PortailInv, Croissance, evenements' \in 0 .. MaxEvenements, onglet' \in Onglet,
         onglet'.page = onglet.page, onglet'.valide = onglet.valide,
         onglet'.fraiche = onglet.fraiche, onglet'.verifie = onglet.verifie,
         \A q \in requetes' : q \in requetes \/ (q \in Requete /\ Suivie(q)')
  PROVE  PortailInv'
<1>1. PortailTypeOK /\ Valide  BY DEF PortailInv
<1>2. Valide'  BY <1>1, ValideStable
<1>3. \A q \in requetes' : q \in Requete /\ Suivie(q)'
  BY <1>1, SuivieStable, ChampsDe DEF PortailInv
<1>4. Len(sessions') \in Nat /\ MaxSessions \in Nat /\ temoin' <= Len(sessions')
  BY <1>1, ChampsDe DEF Croissance
<1>5. temoin' \in Jetons  BY <1>4 DEF Croissance, Jetons
<1>6. PortailTypeOK'  BY <1>3, <1>5 DEF PortailTypeOK, Croissance
<1>7. QED  BY <1>2, <1>3, <1>4, <1>6 DEF PortailInv

LEMMA RepondreInv ==
  ASSUME PortailInv, Croissance, evenements' \in 0 .. MaxEvenements, onglet' = onglet,
         NEW q \in requetes, NEW code \in CodesReponse, Repondre(q, code),
         code = "403" => Refusee(q),
         q.de = "garde" /\ code = "ok" => q.jeton # 0
  PROVE  PortailInv'
<1>1. PortailTypeOK /\ Suivie(q)  BY DEF PortailInv
<1>2. onglet \in Onglet /\ q \in Requete /\ q.jeton \in Nat /\ Len(sessions) \in Nat
  BY <1>1, ChampsDe
<1>3. PICK r : r = [q EXCEPT !.code = code]  OBVIOUS
<1>4. /\ r \in Requete /\ r.code = code /\ r.de = q.de /\ r.page = q.page
      /\ r.courante = q.courante /\ r.jeton = q.jeton /\ r.compte = q.compte
  BY <1>2, <1>3 DEF Requete
<1>5. Suivie(q)'  BY <1>1, SuivieStable
<1>6. code = "403" => Refusee(r)'
  <2>1. SUFFICES ASSUME code = "403"  PROVE Refusee(r)'  OBVIOUS
  <2>2. Refusee(q) /\ q.jeton \in 1 .. Len(sessions)  BY <1>1, <1>2, <2>1 DEF Suivie, Refusee
  <2>3. Profil(q.jeton)' = Profil(q.jeton)  BY <2>2 DEF Croissance, Profil
  <2>4. QED  BY <1>4, <2>2, <2>3 DEF Refusee
<1>7. Suivie(r)'  BY <1>4, <1>5, <1>6 DEF Suivie
<1>8. \A x \in requetes' : x \in requetes \/ (x \in Requete /\ Suivie(x)')
  BY <1>3, <1>4, <1>7 DEF Repondre
<1>9. QED  BY <1>2, <1>8, SurPlace

LEMMA LireInv ==
  ASSUME PortailInv, NEW q \in requetes, Lire(q), UNCHANGED <<onglet, evenements>>
  PROVE  PortailInv'
<1>1. PortailTypeOK /\ evenements' \in 0 .. MaxEvenements  BY DEF PortailInv, PortailTypeOK
<1>2. Croissance  BY CalmeTemoin DEF Lire
<1>3. {"401", "403", "ok"} \subseteq CodesReponse  BY DEF CodesReponse
<1>4. CASE ~ Vive(q.jeton)
  <2>1. Repondre(q, "401")  BY <1>4 DEF Lire
  <2>2. QED  BY <1>1, <1>2, <1>3, <2>1, RepondreInv
<1>5. CASE Vive(q.jeton) /\ q.de = "donnees" /\ Refusee(q)
  <2>1. Repondre(q, "403")  BY <1>5 DEF Lire, Refusee, Profil
  <2>2. QED  BY <1>1, <1>2, <1>3, <1>5, <2>1, RepondreInv
<1>6. CASE Vive(q.jeton) /\ ~ (q.de = "donnees" /\ Refusee(q))
  <2>1. q.jeton # 0  BY <1>6 DEF Vive
  <2>2. Repondre(q, "ok")  BY <1>6, <2>1 DEF Lire, Refusee, Profil
  <2>3. QED  BY <1>1, <1>2, <1>3, <2>1, <2>2, RepondreInv
<1>7. QED  BY <1>4, <1>5, <1>6

LEMMA AuthentifierInv ==
  ASSUME PortailInv, NEW q \in requetes, Authentifier(q), UNCHANGED <<onglet, evenements>>
  PROVE  PortailInv'
<1>1. /\ PortailTypeOK /\ evenements' \in 0 .. MaxEvenements /\ onglet \in Onglet
      /\ temoin <= Len(sessions) /\ Suivie(q)
  BY DEF PortailInv, PortailTypeOK
<1>2. {"401", "etape", "ok"} \subseteq CodesReponse  BY DEF CodesReponse
<1>3. q.de = "identifiants"  BY DEF Authentifier
<1>4. CASE sessions' = sessions /\ (Repondre(q, "401") \/ Repondre(q, "etape"))
  <2>1. Croissance  BY <1>4, CalmeTemoin DEF Authentifier
  <2>2. QED  BY <1>1, <1>2, <1>3, <1>4, <2>1, RepondreInv
<1>5. CASE /\ Len(sessions) < MaxSessions
           /\ sessions' = Append(sessions, [compte |-> q.compte, vive |-> TRUE])
           /\ requetes' = (requetes \ {q})
                          \cup {[q EXCEPT !.code = "ok", !.jeton = Len(sessions) + 1]}
  <2>1. q.compte \in Profils  BY <1>1, <1>3 DEF Suivie
  <2>2. Croissance /\ Len(sessions') = Len(sessions) + 1
    BY <1>5, <2>1, Ajout DEF Authentifier
  <2>3. q \in Requete /\ Len(sessions) \in Nat /\ MaxSessions \in Nat  BY <1>1, ChampsDe
  <2>4. PICK r : r = [q EXCEPT !.code = "ok", !.jeton = Len(sessions) + 1]  OBVIOUS
  <2>5. Len(sessions) + 1 \in Jetons  BY <1>5, <2>3 DEF Jetons
  <2>6. /\ r \in Requete /\ r.code = "ok" /\ r.de = "identifiants" /\ r.compte = q.compte
        /\ r.jeton = Len(sessions) + 1
    BY <1>2, <1>3, <2>3, <2>4, <2>5 DEF Requete
  <2>7. Suivie(r)'  BY <2>1, <2>2, <2>3, <2>6 DEF Suivie
  <2>8. \A x \in requetes' : x \in requetes \/ (x \in Requete /\ Suivie(x)')
    BY <1>5, <2>4, <2>6, <2>7
  <2>9. QED  BY <1>1, <2>2, <2>8, SurPlace
<1>6. QED  BY <1>4, <1>5 DEF Authentifier

LEMMA FermerInv ==
  ASSUME PortailInv, NEW q \in requetes, Fermer(q), UNCHANGED <<onglet, evenements>>
  PROVE  PortailInv'
<1>1. /\ PortailTypeOK /\ evenements' \in 0 .. MaxEvenements /\ Suivie(q)
  BY DEF PortailInv, PortailTypeOK
<1>2. Croissance
  <2>1. CASE sessions' = sessions  BY <2>1, CalmeTemoin DEF Fermer
  <2>2. CASE q.jeton # 0 /\ sessions' = [sessions EXCEPT ![q.jeton].vive = FALSE]
    <3>1. q.jeton \in Nat /\ Len(sessions) \in Nat  BY <1>1, ChampsDe
    <3>2. q.jeton \in 1 .. Len(sessions)  BY <1>1, <2>2, <3>1 DEF Suivie
    <3>3. QED  BY <2>2, <3>2, Revocation DEF Fermer
  <2>3. QED  BY <2>1, <2>2 DEF Fermer
<1>3. "ok" \in CodesReponse /\ q.de # "garde" /\ Repondre(q, "ok")
  BY DEF CodesReponse, Fermer
<1>4. QED  BY <1>1, <1>2, <1>3, RepondreInv

(* The handlers of the answers, one lemma for each.                        *)
LEMMA RecevoirGardeInv ==
  ASSUME PortailInv, NEW q \in requetes, RecevoirGarde(q), UNCHANGED <<sessions, evenements>>
  PROVE  PortailInv'
<1>1. /\ PortailTypeOK /\ evenements' \in 0 .. MaxEvenements /\ Suivie(q) /\ onglet \in Onglet
      /\ temoin \in Jetons /\ temoin <= Len(sessions)
  BY DEF PortailInv, PortailTypeOK
<1>2. Croissance  BY CalmeTemoin DEF RecevoirGarde
<1>3. q.de = "garde" /\ q.page = onglet.page /\ EstPortail(q.page) /\ q.courante
  BY <1>1 DEF RecevoirGarde, Suivie
<1>4. q \in Requete /\ q.jeton \in Nat /\ Len(sessions) \in Nat  BY <1>1, ChampsDe
<1> DEFINE portail == CHOOSE p \in Portails : q.page \in PagesDuPortail(p)
           roles == sessions[q.jeton].compte
<1>5. CASE q.code = "401" /\ Ouvrir("/connexion", ~ onglet.depart)
  <2>1. (~ onglet.depart) \in BOOLEAN  BY <1>1 DEF Onglet
  <2>2. QED  BY <1>1, <1>2, <1>5, <2>1, PagesNommees, OuvrirInv DEF RecevoirGarde
<1>6. CASE q.code = "panne" /\ onglet' = [onglet EXCEPT !.echec = TRUE] /\ requetes' = Reste(q)
  <2>1. /\ onglet' \in Onglet /\ onglet'.page = onglet.page /\ onglet'.valide = onglet.valide
        /\ onglet'.fraiche = onglet.fraiche /\ onglet'.verifie = onglet.verifie
    BY <1>1, <1>6 DEF Onglet
  <2>2. QED  BY <1>1, <1>2, <1>6, <2>1, SurPlace DEF Reste
<1>7. CASE \E home \in (IF resolveRoleHome(roles) = {} THEN {"/"} ELSE resolveRoleHome(roles)) :
             Ouvrir(home, FALSE)
  <2>1. PICK home \in Pages : Ouvrir(home, FALSE)
    BY <1>7, PagesNommees, AccueilEstUnePage
  <2>2. QED  BY <1>1, <1>2, <2>1, OuvrirInv DEF RecevoirGarde
<1>8. CASE /\ q.code = "ok" /\ rolesCanAccessPortal(roles, portail)
           /\ onglet' = [onglet EXCEPT !.valide = q.page, !.verifie = q.jeton,
                                       !.fraiche = q.courante]
           /\ requetes' = Reste(q) \cup {Interroger("donnees", q.page, temoin, {})}
  <2>1. /\ onglet' \in Onglet /\ onglet'.page = onglet.page /\ onglet'.valide = q.page
        /\ onglet'.fraiche /\ onglet'.verifie = q.jeton
    BY <1>1, <1>3, <1>4, <1>8 DEF Onglet, Requete
  <2>2. q.page \in Pages /\ q.page # "aucune" /\ q.jeton \in 1 .. Len(sessions)
    BY <1>1, <1>3, <1>4, <1>8, PagesNommees DEF Requete, Suivie
  <2>3. portail \in resolvePortalFromPath(q.page)
    BY <1>3 DEF EstPortail, resolvePortalFromPath
  <2>4. Admis(q.page, q.jeton)  BY <1>8, <2>3 DEF Admis, Profil
  <2>5. Valide'
    <3>1. Admis(q.page, q.jeton)' /\ EstPortail(q.page)'
      BY <1>3, <2>4 DEF Admis, Profil
    <3>2. QED  BY <1>1, <1>3, <2>1, <2>2, <3>1 DEF Valide, Suivie
  <2>6. PICK n : n = Interroger("donnees", q.page, temoin, {})  OBVIOUS
  <2>7. /\ n \in Requete /\ n.de = "donnees" /\ n.page = q.page /\ n.jeton = temoin
        /\ n.code = "attente"
    BY <1>1, <2>2, <2>6, Neuves DEF Sortes
  <2>8. ASSUME NEW x \in requetes'  PROVE x \in Requete /\ Suivie(x)'
    <3>1. CASE x = n  BY <1>1, <1>3, <2>1, <2>7, <3>1 DEF Suivie
    <3>2. CASE x \in requetes
      <4>1. x \in Requete /\ Suivie(x)  BY <1>1, <3>2, ChampsDe DEF PortailInv
      <4>2. x.code = "403" => Refusee(x)'  BY <4>1 DEF Suivie, Refusee, Profil
      <4>3. QED  BY <1>3, <2>1, <4>1, <4>2 DEF Suivie
    <3>3. QED  BY <1>8, <2>6, <3>1, <3>2 DEF Reste
  <2>9. PortailTypeOK'  BY <1>1, <2>1, <2>8 DEF PortailTypeOK, RecevoirGarde
  <2>10. QED  BY <1>1, <2>5, <2>8, <2>9 DEF PortailInv, RecevoirGarde
<1>9. QED  BY <1>5, <1>6, <1>7, <1>8 DEF RecevoirGarde

\* The steps that only add requests the tab asks from its page.
LEMMA DemandeInv ==
  ASSUME PortailInv, Croissance, evenements' \in 0 .. MaxEvenements, onglet' = onglet,
         NEW de \in {"droits", "menu", "identifiants", "fermeture", "deconnexion"},
         NEW page \in Pages, NEW j \in 0 .. Len(sessions), NEW c \in Profils \cup {{}},
         de = "identifiants" => c \in Profils,
         requetes' \in SUBSET (requetes \cup {Interroger(de, page, j, c)})
  PROVE  PortailInv'
<1>1. PortailTypeOK /\ onglet \in Onglet  BY DEF PortailInv, PortailTypeOK
<1>2. /\ Len(sessions) \in Nat /\ MaxSessions \in Nat /\ Len(sessions) <= MaxSessions
      /\ Len(sessions) <= Len(sessions') /\ Len(sessions') \in Nat
  BY <1>1, ChampsDe DEF PortailTypeOK, Croissance
<1>3. j \in Jetons /\ j <= Len(sessions')  BY <1>2 DEF Jetons
<1>4. PICK n : n = Interroger(de, page, j, c)  OBVIOUS
<1>5. /\ n \in Requete /\ n.de = de /\ n.page = page /\ n.jeton = j /\ n.compte = c
      /\ n.code = "attente"
  BY <1>3, <1>4, Neuves DEF Sortes
<1>6. Suivie(n)'  BY <1>3, <1>5 DEF Suivie
<1>7. \A q \in requetes' : q \in requetes \/ (q \in Requete /\ Suivie(q)')
  BY <1>4, <1>5, <1>6
<1>8. QED  BY <1>1, <1>7, SurPlace

LEMMA RecevoirDonneesInv ==
  ASSUME PortailInv, NEW q \in requetes, RecevoirDonnees(q), UNCHANGED <<sessions, evenements>>
  PROVE  PortailInv'
<1>1. /\ PortailTypeOK /\ evenements' \in 0 .. MaxEvenements /\ onglet \in Onglet
      /\ temoin \in 0 .. Len(sessions) /\ Len(sessions) \in Nat /\ q \in Requete
  BY ChampsDe DEF PortailInv, PortailTypeOK
<1>2. Croissance  BY CalmeTemoin DEF RecevoirDonnees
<1>3. CASE Ouvrir("/connexion", TRUE)
  BY <1>1, <1>2, <1>3, PagesNommees, OuvrirInv DEF RecevoirDonnees
<1>4. CASE requetes' = Reste(q) \cup {Interroger("droits", q.page, temoin, {})} /\ UNCHANGED onglet
  <2>1. q.page \in Pages /\ {} \in Profils \cup {{}}  BY <1>1 DEF Requete
  <2>2. requetes' \in SUBSET (requetes \cup {Interroger("droits", q.page, temoin, {})})
    BY <1>4 DEF Reste
  <2>3. QED  BY <1>1, <1>2, <1>4, <2>1, <2>2, DemandeInv
<1>5. CASE Naviguer("/connexion", Reste(q), temoin)
  <2>1. Reste(q) \in SUBSET requetes /\ temoin \in 0 .. Len(sessions')
    BY <1>1 DEF Reste
  <2>2. QED  BY <1>1, <1>2, <1>5, <2>1, PagesNommees, NaviguerInv
<1>6. CASE requetes' = Reste(q) /\ UNCHANGED onglet
  BY <1>1, <1>2, <1>6, SurPlace DEF Reste
<1>7. QED  BY <1>3, <1>4, <1>5, <1>6 DEF RecevoirDonnees

LEMMA RecevoirDroitsInv ==
  ASSUME PortailInv, NEW q \in requetes, RecevoirDroits(q), UNCHANGED <<sessions, evenements>>
  PROVE  PortailInv'
<1>1. PortailTypeOK /\ evenements' \in 0 .. MaxEvenements /\ onglet \in Onglet
  BY DEF PortailInv, PortailTypeOK
<1>2. Croissance  BY CalmeTemoin DEF RecevoirDroits
<1>3. CASE Ouvrir("/connexion", TRUE)
  BY <1>1, <1>2, <1>3, PagesNommees, OuvrirInv DEF RecevoirDroits
<1>4. CASE \E h \in resolveRoleHome(sessions[q.jeton].compte) : Ouvrir(h, FALSE)
  <2>1. PICK h \in Pages : Ouvrir(h, FALSE)  BY <1>4, AccueilEstUnePage
  <2>2. QED  BY <1>1, <1>2, <2>1, OuvrirInv DEF RecevoirDroits
<1>5. CASE requetes' = Reste(q) /\ UNCHANGED onglet
  BY <1>1, <1>2, <1>5, SurPlace DEF Reste
<1>6. QED  BY <1>3, <1>4, <1>5 DEF RecevoirDroits

LEMMA RecevoirMenuInv ==
  ASSUME PortailInv, NEW q \in requetes, RecevoirMenu(q), UNCHANGED <<sessions, evenements>>
  PROVE  PortailInv'
<1>1. PortailTypeOK /\ evenements' \in 0 .. MaxEvenements /\ onglet \in Onglet
  BY DEF PortailInv, PortailTypeOK
<1>2. Croissance  BY CalmeTemoin DEF RecevoirMenu
<1>3. PICK b \in BOOLEAN : onglet' = [onglet EXCEPT !.authentifie = b]  BY DEF RecevoirMenu
<1>4. /\ onglet' \in Onglet /\ onglet'.page = onglet.page /\ onglet'.valide = onglet.valide
      /\ onglet'.fraiche = onglet.fraiche /\ onglet'.verifie = onglet.verifie
  BY <1>1, <1>3 DEF Onglet
<1>5. QED  BY <1>1, <1>2, <1>4, SurPlace DEF RecevoirMenu, Reste

LEMMA RecevoirCarteInv ==
  ASSUME PortailInv, NEW q \in requetes, RecevoirCarte(q), UNCHANGED <<sessions, evenements>>
  PROVE  PortailInv'
<1>1. PortailTypeOK /\ evenements' \in 0 .. MaxEvenements /\ onglet \in Onglet
  BY DEF PortailInv, PortailTypeOK
<1>2. Croissance  BY CalmeTemoin DEF RecevoirCarte
<1>3. \E s \in SUBSET Pages : onglet' = onglet \/ onglet' = [onglet EXCEPT !.carte = s]
  BY AccueilEstUnePage DEF RecevoirCarte
<1>4. /\ onglet' \in Onglet /\ onglet'.page = onglet.page /\ onglet'.valide = onglet.valide
      /\ onglet'.fraiche = onglet.fraiche /\ onglet'.verifie = onglet.verifie
  BY <1>1, <1>3 DEF Onglet
<1>5. QED  BY <1>1, <1>2, <1>4, SurPlace DEF RecevoirCarte, Reste

LEMMA RecevoirIdentifiantsInv ==
  ASSUME PortailInv, NEW q \in requetes, RecevoirIdentifiants(q), UNCHANGED <<sessions, evenements>>
  PROVE  PortailInv'
<1>1. /\ PortailTypeOK /\ evenements' \in 0 .. MaxEvenements /\ onglet \in Onglet /\ Suivie(q)
      /\ temoin \in 0 .. Len(sessions) /\ Len(sessions) \in Nat /\ q \in Requete /\ q.jeton \in Nat
  BY ChampsDe DEF PortailInv, PortailTypeOK
<1>2. q.jeton \in 0 .. Len(sessions) /\ q.page \in Pages /\ q.compte \in Profils \cup {{}}
  BY <1>1 DEF Suivie, Requete
<1>3. Croissance  BY <1>1, <1>2, Calme DEF RecevoirIdentifiants
<1>4. CASE onglet' = [onglet EXCEPT !.etape = "code", !.compte = q.compte] /\ requetes' = Reste(q)
  <2>1. /\ onglet' \in Onglet /\ onglet'.page = onglet.page /\ onglet'.valide = onglet.valide
        /\ onglet'.fraiche = onglet.fraiche /\ onglet'.verifie = onglet.verifie
    BY <1>1, <1>2, <1>4 DEF Onglet
  <2>2. QED  BY <1>1, <1>3, <1>4, <2>1, SurPlace DEF Reste
<1>5. CASE \E h \in resolveRoleHome(q.compte) : Naviguer(h, Reste(q), q.jeton)
  <2>1. PICK h \in Pages : Naviguer(h, Reste(q), q.jeton)  BY <1>5, AccueilEstUnePage
  <2>2. Reste(q) \in SUBSET requetes /\ q.jeton \in 0 .. Len(sessions')
    BY <1>2 DEF Reste
  <2>3. QED  BY <1>1, <1>3, <2>1, <2>2, NaviguerInv
<1>6. CASE /\ requetes' = Reste(q) \cup {Interroger("fermeture", q.page, q.jeton, {})}
           /\ UNCHANGED onglet
  <2>1. requetes' \in SUBSET (requetes \cup {Interroger("fermeture", q.page, q.jeton, {})})
    BY <1>6 DEF Reste
  <2>2. {} \in Profils \cup {{}}  OBVIOUS
  <2>3. QED  BY <1>1, <1>2, <1>3, <1>6, <2>1, <2>2, DemandeInv
<1>7. CASE requetes' = Reste(q) /\ UNCHANGED onglet
  BY <1>1, <1>3, <1>7, SurPlace DEF Reste
<1>8. QED  BY <1>4, <1>5, <1>6, <1>7 DEF RecevoirIdentifiants

LEMMA RecevoirFermetureInv ==
  ASSUME PortailInv, NEW q \in requetes, RecevoirFermeture(q), UNCHANGED <<sessions, evenements>>
  PROVE  PortailInv'
<1>1. /\ PortailTypeOK /\ evenements' \in 0 .. MaxEvenements /\ onglet \in Onglet
      /\ temoin \in 0 .. Len(sessions) /\ Len(sessions) \in Nat
  BY ChampsDe DEF PortailInv, PortailTypeOK
<1>2. Croissance  BY <1>1, Calme DEF RecevoirFermeture
<1>3. CASE Naviguer("/connexion", Reste(q), 0)
  <2>1. Reste(q) \in SUBSET requetes /\ 0 \in 0 .. Len(sessions')  BY <1>1 DEF Reste
  <2>2. QED  BY <1>1, <1>2, <1>3, <2>1, PagesNommees, NaviguerInv
<1>4. CASE /\ requetes' = Reste(q)
           /\ onglet' = [onglet EXCEPT !.carte = IF q.code = "ok" THEN {} ELSE @]
  <2>1. onglet.carte \in SUBSET Pages  BY <1>1 DEF Onglet
  <2>2. PICK s \in SUBSET Pages : onglet' = [onglet EXCEPT !.carte = s]  BY <1>4, <2>1
  <2>3. /\ onglet' \in Onglet /\ onglet'.page = onglet.page /\ onglet'.valide = onglet.valide
        /\ onglet'.fraiche = onglet.fraiche /\ onglet'.verifie = onglet.verifie
    BY <1>1, <2>2 DEF Onglet
  <2>4. QED  BY <1>1, <1>2, <1>4, <2>3, SurPlace DEF Reste
<1>5. QED  BY <1>3, <1>4 DEF RecevoirFermeture

(* What the users, the clocks and the networks do.                         *)
LEMMA Compte ==
  ASSUME PortailInv, Evenement
  PROVE  evenements' \in 0 .. MaxEvenements
BY PortailAssumption DEF PortailInv, PortailTypeOK, Evenement

LEMMA Hors ==
  ASSUME PortailInv
  PROVE  /\ PortailTypeOK /\ onglet \in Onglet /\ onglet.page \in Pages
         /\ temoin \in 0 .. Len(sessions) /\ 0 \in 0 .. Len(sessions) /\ Len(sessions) \in Nat
         /\ onglet.carte \in SUBSET Pages /\ onglet.motif \in BOOLEAN
<1>1. PortailTypeOK /\ temoin <= Len(sessions)  BY DEF PortailInv
<1>2. onglet \in Onglet  BY <1>1 DEF PortailTypeOK
<1>3. temoin \in Nat /\ Len(sessions) \in Nat  BY <1>1, ChampsDe
<1>4. QED  BY <1>1, <1>2, <1>3 DEF Onglet

LEMMA CliquerInv ==
  ASSUME PortailInv, NEW page \in Pages, Cliquer(page)
  PROVE  PortailInv'
<1>1. Croissance /\ evenements' \in 0 .. MaxEvenements  BY CalmeTemoin, Compte DEF Cliquer
<1>2. Naviguer(page, requetes, temoin)  BY DEF Cliquer
<1>3. requetes \in SUBSET requetes /\ temoin \in 0 .. Len(sessions')  BY Hors DEF Cliquer
<1>4. QED  BY <1>1, <1>2, <1>3, NaviguerInv

LEMMA ContinuerInv ==
  ASSUME PortailInv, Continuer
  PROVE  PortailInv'
<1>1. Croissance /\ evenements' \in 0 .. MaxEvenements /\ sessions' = sessions /\ temoin' = temoin
  BY CalmeTemoin, Compte DEF Continuer
<1>2. CASE \E h \in onglet.carte : Naviguer(h, requetes, temoin)
  <2>1. PICK h \in Pages : Naviguer(h, requetes, temoin)  BY <1>2, Hors
  <2>2. requetes \in SUBSET requetes /\ temoin \in 0 .. Len(sessions')  BY <1>1, Hors
  <2>3. QED  BY <1>1, <2>1, <2>2, NaviguerInv
<1>3. CASE Ouvrir(onglet.page, onglet.motif)
  BY <1>1, <1>3, Hors, OuvrirInv
<1>4. CASE requetes' = requetes \cup {Interroger("menu", onglet.page, temoin, {})} /\ UNCHANGED onglet
  <2>1. requetes' \in SUBSET (requetes \cup {Interroger("menu", onglet.page, temoin, {})})
    BY <1>4
  <2>2. {} \in Profils \cup {{}}  OBVIOUS
  <2>3. QED  BY <1>1, <1>4, <2>1, <2>2, Hors, DemandeInv
<1>5. QED  BY <1>2, <1>3, <1>4 DEF Continuer

LEMMA SoumettreInv ==
  ASSUME PortailInv, NEW c \in Profils, Soumettre(c)
  PROVE  PortailInv'
<1>1. Croissance /\ evenements' \in 0 .. MaxEvenements  BY CalmeTemoin, Compte DEF Soumettre
<1>2. requetes' \in SUBSET (requetes \cup {Interroger("identifiants", onglet.page, 0, c)})
  BY DEF Soumettre
<1>3. c \in Profils \cup {{}} /\ onglet' = onglet  BY DEF Soumettre
<1>4. QED  BY <1>1, <1>2, <1>3, Hors, DemandeInv

LEMMA ChangerDeCompteInv ==
  ASSUME PortailInv, ChangerDeCompte
  PROVE  PortailInv'
<1>1. Croissance /\ evenements' \in 0 .. MaxEvenements
  BY CalmeTemoin, Compte DEF ChangerDeCompte
<1>2. requetes' \in SUBSET (requetes \cup {Interroger("fermeture", onglet.page, temoin, {})})
  BY DEF ChangerDeCompte
<1>3. {} \in Profils \cup {{}} /\ onglet' = onglet  BY DEF ChangerDeCompte
<1>4. QED  BY <1>1, <1>2, <1>3, Hors, DemandeInv

LEMMA QuitterInv ==
  ASSUME PortailInv, Quitter
  PROVE  PortailInv'
<1>1. Croissance /\ evenements' \in 0 .. MaxEvenements  BY CalmeTemoin, Compte DEF Quitter
<1>2. onglet' = [onglet EXCEPT !.depart = TRUE, !.authentifie = FALSE]  BY DEF Quitter
<1>3. /\ onglet' \in Onglet /\ onglet'.page = onglet.page /\ onglet'.valide = onglet.valide
      /\ onglet'.fraiche = onglet.fraiche /\ onglet'.verifie = onglet.verifie
  BY <1>2, Hors DEF Onglet
<1>4. PICK n : n = Interroger("deconnexion", onglet.page, temoin, {})  OBVIOUS
<1>5. MaxSessions \in Nat /\ Len(sessions) <= MaxSessions /\ Len(sessions') = Len(sessions)
  BY Hors, ChampsDe DEF PortailTypeOK, Quitter
<1>6. temoin \in Jetons /\ temoin <= Len(sessions')  BY <1>5, Hors DEF Jetons
<1>7. /\ n \in Requete /\ n.de = "deconnexion" /\ n.jeton = temoin /\ n.code = "attente"
  BY <1>4, <1>6, Hors, Neuves DEF Sortes
<1>8. Suivie(n)'  BY <1>6, <1>7 DEF Suivie
<1>9. \A q \in requetes' : q \in requetes \/ (q \in Requete /\ Suivie(q)')
  BY <1>4, <1>7, <1>8 DEF Quitter
<1>10. QED  BY <1>1, <1>3, <1>9, SurPlace

LEMMA SessionFinitInv ==
  ASSUME PortailInv, NEW j \in DOMAIN sessions, SessionFinit(j)
  PROVE  PortailInv'
<1>1. DOMAIN sessions = 1 .. Len(sessions)
  <2>1. PICK S : S = [compte: Profils, vive: BOOLEAN]  OBVIOUS
  <2>2. sessions \in Seq(S)  BY <2>1, Hors, ChampsDe
  <2>3. QED  BY <2>2
<1>2. Croissance /\ evenements' \in 0 .. MaxEvenements
  BY <1>1, Revocation, Compte DEF SessionFinit
<1>3. onglet' = onglet /\ requetes' = requetes  BY DEF SessionFinit
<1>4. QED  BY <1>2, <1>3, Hors, SurPlace

LEMMA AutreOngletInv ==
  ASSUME PortailInv, NEW c \in AutresComptes, AutreOnglet(c)
  PROVE  PortailInv'
<1>1. c \in Profils  BY PortailAssumption
<1>2. Croissance /\ evenements' \in 0 .. MaxEvenements
  BY <1>1, Ajout, Compte DEF AutreOnglet
<1>3. onglet' = onglet /\ requetes' = requetes  BY DEF AutreOnglet
<1>4. QED  BY <1>2, <1>3, Hors, SurPlace

LEMMA PanneInv ==
  ASSUME PortailInv, NEW q \in requetes, Panne(q)
  PROVE  PortailInv'
<1>1. Croissance /\ evenements' \in 0 .. MaxEvenements  BY CalmeTemoin, Compte DEF Panne
<1>2. "panne" \in CodesReponse /\ Repondre(q, "panne") /\ onglet' = onglet
  BY DEF CodesReponse, Panne
<1>3. QED  BY <1>1, <1>2, RepondreInv

LEMMA CorpsPerduInv ==
  ASSUME PortailInv, NEW q \in requetes, CorpsPerdu(q)
  PROVE  PortailInv'
<1>1. Croissance /\ evenements' \in 0 .. MaxEvenements  BY CalmeTemoin, Compte DEF CorpsPerdu
<1>2. temoin' = temoin /\ Ouvrir("/", FALSE)  BY DEF CorpsPerdu
<1>3. QED  BY <1>1, <1>2, PagesNommees, OuvrirInv

LEMMA PortailDepart ==
  ASSUME PortailInit
  PROVE  PortailInv
<1> DEFINE R == [compte: Profils, vive: BOOLEAN]
<1>1. PICK page \in Depart :
        /\ onglet = [SansPage EXCEPT !.page = page, !.dernier = resolvePortalFromPath(page)]
        /\ requetes = effets(page, temoin)
  BY DEF PortailInit
<1>2. page \in Pages /\ MaxSessions \in Nat \ {0} /\ MaxEvenements \in Nat
  BY <1>1, PortailAssumption
<1>3. sessions \in Seq(R) /\ Len(sessions) <= 1 /\ temoin \in Nat /\ temoin = Len(sessions)
  <2>1. CASE sessions = <<>> /\ temoin = 0  BY <2>1
  <2>2. CASE \E c \in Profils : sessions = <<[compte |-> c, vive |-> TRUE]>> /\ temoin = 1
    <3>1. PICK S : S = R  OBVIOUS
    <3>2. PICK n \in S : sessions = <<n>>  BY <2>2, <3>1
    <3>3. sessions \in Seq(S) /\ Len(sessions) = 1  BY <3>2
    <3>4. QED  BY <2>2, <3>1, <3>3
  <2>3. QED  BY <2>1, <2>2 DEF PortailInit
<1>4. temoin \in Jetons /\ 0 \in Jetons /\ temoin <= Len(sessions) /\ Len(sessions) <= MaxSessions
  BY <1>2, <1>3 DEF Jetons
<1>5. onglet \in Onglet /\ onglet.page = page /\ onglet.valide = "aucune" /\ onglet.verifie = 0
  <2>1. SansPage \in Onglet  BY <1>4, PagesNommees DEF SansPage, Onglet
  <2>2. resolvePortalFromPath(page) \in SUBSET Portails  BY DEF resolvePortalFromPath
  <2>3. QED  BY <1>1, <1>2, <2>1, <2>2 DEF SansPage, Onglet
<1>6. ASSUME NEW de \in {"garde", "menu", "carte", "donnees"},
             de = "garde" => EstPortail(page), de = "donnees" => ~ EstPortail(page)
      PROVE  /\ Interroger(de, page, temoin, {}) \in Requete
             /\ Suivie(Interroger(de, page, temoin, {}))
  <2>1. PICK q : q = Interroger(de, page, temoin, {})  OBVIOUS
  <2>2. /\ q \in Requete /\ q.de = de /\ q.page = page /\ q.courante /\ q.jeton = temoin
        /\ q.code = "attente"
    BY <1>2, <1>4, <2>1, Neuves DEF Sortes
  <2>3. Suivie(q)  BY <1>4, <1>5, <1>6, <2>2 DEF Suivie
  <2>4. QED  BY <2>1, <2>2, <2>3
<1>7. \A q \in requetes : q \in Requete /\ Suivie(q)  BY <1>1, <1>6 DEF effets
<1>8. evenements \in 0 .. MaxEvenements  BY <1>2 DEF PortailInit
<1>9. PortailTypeOK  BY <1>3, <1>4, <1>5, <1>7, <1>8 DEF PortailTypeOK
<1>10. Valide  BY <1>3, <1>5 DEF Valide
<1>11. QED  BY <1>4, <1>7, <1>9, <1>10 DEF PortailInv

LEMMA PortailPas ==
  ASSUME PortailInv, [PortailNext]_portailVars
  PROVE  PortailInv'
<1>1. ASSUME NEW q \in requetes, Traiter(q)  PROVE PortailInv'
  BY <1>1, LireInv, AuthentifierInv, FermerInv DEF Traiter
<1>2. ASSUME NEW q \in requetes, Recevoir(q)  PROVE PortailInv'
  BY <1>2, RecevoirGardeInv, RecevoirMenuInv, RecevoirDonneesInv, RecevoirDroitsInv,
     RecevoirCarteInv, RecevoirIdentifiantsInv, RecevoirFermetureInv DEF Recevoir
<1>3. CASE Utilisateur
  BY <1>3, CliquerInv, SoumettreInv, ContinuerInv, ChangerDeCompteInv, QuitterInv DEF Utilisateur
<1>4. CASE Environnement
  BY <1>4, SessionFinitInv, AutreOngletInv, PanneInv, CorpsPerduInv DEF Environnement
<1>5. CASE UNCHANGED portailVars
  <2>1. sessions' = sessions /\ temoin' = temoin /\ onglet' = onglet /\ requetes' = requetes
        /\ evenements' = evenements
    BY <1>5 DEF portailVars
  <2>2. Croissance  BY <2>1, CalmeTemoin
  <2>3. evenements' \in 0 .. MaxEvenements  BY <2>1 DEF PortailInv, PortailTypeOK
  <2>4. QED  BY <2>1, <2>2, <2>3, Hors, SurPlace
<1>6. QED  BY <1>1, <1>2, <1>3, <1>4, <1>5 DEF PortailNext, Automatique

(* The state of the tab, its requests and the tokens is that of the code's  *)
(* fields, and every request still held is accounted for: what it was asked *)
(* for, and why it was refused.                                            *)
THEOREM PortailInvariant == PortailSpec => []PortailInv
<1>1. PortailInit => PortailInv  BY PortailDepart
<1>2. PortailInv /\ [PortailNext]_portailVars => PortailInv'  BY PortailPas
<1>3. QED  BY <1>1, <1>2, PTL DEF PortailSpec

(* The content of a portal's page is on screen only for an account the API  *)
(* has named since the arrival on the page, and which has a role of the     *)
(* portal (AppShell's validatedPath).                                      *)
THEOREM ContenuVerifieTheorem == PortailSpec => []ContenuVerifie
<1>1. PortailInv => ContenuVerifie
  <2>1. SUFFICES ASSUME PortailInv, EstPortail(onglet.page), onglet.valide = onglet.page
                 PROVE  onglet.fraiche /\ Admis(onglet.page, onglet.verifie)
    BY DEF ContenuVerifie, Admis, Profil
  <2>2. onglet.valide # "aucune"  BY <2>1, PagesNommees
  <2>3. QED  BY <2>1, <2>2 DEF PortailInv, Valide
<1>2. QED  BY <1>1, PortailInvariant, PTL

(* Where the two ways of leaving a page lead.                              *)
LEMMA OuvrirMene ==
  ASSUME PortailInv, NEW page \in Pages, NEW motif \in BOOLEAN, Ouvrir(page, motif)
  PROVE  onglet'.page = page /\ onglet'.motif = motif
<1>1. PICK o : o = NouvelOnglet(page)  OBVIOUS
<1>2. o \in Onglet /\ o.page = page  BY <1>1, Hors, OngletNeuf
<1>3. onglet' = [o EXCEPT !.motif = motif]  BY <1>1 DEF Ouvrir
<1>4. QED  BY <1>2, <1>3 DEF Onglet

LEMMA NaviguerMene ==
  ASSUME PortailInv, NEW page \in Pages, NEW reste, NEW j, Naviguer(page, reste, j)
  PROVE  onglet'.page = "/connexion" => ~ onglet'.motif
<1>0. CASE onglet' = NouvelOnglet("/")
  BY <1>0, PagesNommees, Hors, OngletNeuf
<1>d. SUFFICES ASSUME onglet' = ongletArrive(page)
               PROVE  onglet'.page = "/connexion" => ~ onglet'.motif
  BY <1>0 DEF Naviguer
<1>1. CASE MemePortail(page)
  <2>1. onglet'.page = page
    BY <1>d, <1>1, Hors DEF ongletArrive, Onglet
  <2>2. page # "/connexion"  BY <1>1, PagesNommees DEF MemePortail
  <2>3. QED  BY <2>1, <2>2
<1>2. CASE ~ MemePortail(page)
  <2>1. onglet' = NouvelOnglet(page)  BY <1>d, <1>2 DEF ongletArrive
  <2>2. QED  BY <2>1, Hors, OngletNeuf
<1>3. QED  BY <1>1, <1>2

\* The tab leaves a portal for the login page, with the reason shown.
Ejecte == EstPortail(onglet.page) /\ onglet'.page = "/connexion" /\ onglet'.motif

LEMMA EjectionDe ==
  ASSUME PortailInv, NEW q \in requetes, Recevoir(q), Ejecte
  PROVE  q.code = "401" /\ (q.courante \/ q.de \in {"donnees", "droits"})
<1>0. onglet'.page # onglet.page /\ onglet'.motif  BY PagesNommees DEF Ejecte
<1>a. onglet \in Onglet  BY Hors
<1>b. \A home \in Pages : ~ Ouvrir(home, FALSE)
  BY <1>0, OuvrirMene
<1>c. \A page \in Pages : \A reste, j : ~ Naviguer(page, reste, j)
  <2>1. SUFFICES ASSUME NEW page \in Pages, NEW reste, NEW j, Naviguer(page, reste, j)
                 PROVE  FALSE
    OBVIOUS
  <2>2. onglet'.page = "/connexion" => ~ onglet'.motif  BY <2>1, NaviguerMene
  <2>3. QED  BY <2>2 DEF Ejecte
<1>1. CASE RecevoirGarde(q)
  <2>1. q.de = "garde" /\ q.courante  BY <1>1 DEF RecevoirGarde, PortailInv, Suivie
  <2>2. \A home \in (IF resolveRoleHome(sessions[q.jeton].compte) = {} THEN {"/"}
                     ELSE resolveRoleHome(sessions[q.jeton].compte)) : ~ Ouvrir(home, FALSE)
    BY <1>b, PagesNommees, AccueilEstUnePage
  <2>3. onglet' # [onglet EXCEPT !.echec = TRUE]  BY <1>0, <1>a DEF Onglet
  <2>4. onglet' # [onglet EXCEPT !.valide = q.page, !.verifie = q.jeton, !.fraiche = q.courante]
    BY <1>0, <1>a DEF Onglet
  <2>5. QED  BY <1>1, <2>1, <2>2, <2>3, <2>4 DEF RecevoirGarde
<1>2. CASE RecevoirMenu(q)
  <2>1. PICK b : onglet' = [onglet EXCEPT !.authentifie = b]  BY <1>2 DEF RecevoirMenu
  <2>2. QED  BY <1>0, <1>a, <2>1 DEF Onglet
<1>3. CASE RecevoirDonnees(q)
  <2>1. ~ Naviguer("/connexion", Reste(q), temoin)  BY <1>c, PagesNommees
  <2>2. QED  BY <1>0, <1>3, <2>1 DEF RecevoirDonnees
<1>4. CASE RecevoirDroits(q)
  <2>1. \A h \in resolveRoleHome(sessions[q.jeton].compte) : ~ Ouvrir(h, FALSE)
    BY <1>b, AccueilEstUnePage
  <2>2. QED  BY <1>0, <1>4, <2>1 DEF RecevoirDroits
<1>5. CASE RecevoirCarte(q)
  <2>1. PICK s : onglet' = onglet \/ onglet' = [onglet EXCEPT !.carte = s]
    BY <1>5 DEF RecevoirCarte
  <2>2. QED  BY <1>0, <1>a, <2>1 DEF Onglet
<1>6. CASE RecevoirIdentifiants(q)
  <2>1. \A h \in resolveRoleHome(q.compte) : ~ Naviguer(h, Reste(q), q.jeton)
    BY <1>c, AccueilEstUnePage
  <2>2. onglet' = onglet \/ onglet' = [onglet EXCEPT !.etape = "code", !.compte = q.compte]
    BY <1>6, <2>1 DEF RecevoirIdentifiants
  <2>3. QED  BY <1>0, <1>a, <2>2 DEF Onglet
<1>7. CASE RecevoirFermeture(q)
  <2>1. ~ Naviguer("/connexion", Reste(q), 0)  BY <1>c, PagesNommees
  <2>2. PICK s : onglet' = [onglet EXCEPT !.carte = s]  BY <1>7, <2>1 DEF RecevoirFermeture
  <2>3. QED  BY <1>0, <1>a, <2>2 DEF Onglet
<1>8. QED  BY <1>1, <1>2, <1>3, <1>4, <1>5, <1>6, <1>7 DEF Recevoir

LEMMA EjectionRecue ==
  ASSUME PortailInv, PortailNext, Ejecte
  PROVE  \E q \in requetes : Recevoir(q)
<1>0. onglet'.page # onglet.page /\ onglet'.motif  BY PagesNommees DEF Ejecte
<1>a. onglet \in Onglet  BY Hors
<1>c. \A page \in Pages : \A reste, j : ~ Naviguer(page, reste, j)
  <2>1. SUFFICES ASSUME NEW page \in Pages, NEW reste, NEW j, Naviguer(page, reste, j)
                 PROVE  FALSE
    OBVIOUS
  <2>2. onglet'.page = "/connexion" => ~ onglet'.motif  BY <2>1, NaviguerMene
  <2>3. QED  BY <2>2 DEF Ejecte
<1>1. \A q \in requetes : ~ Traiter(q)  BY <1>0 DEF Traiter
<1>2. ~ Environnement
  <2>1. ~ Ouvrir("/", FALSE)  BY <1>0, PagesNommees, OuvrirMene
  <2>2. QED  BY <1>0, <2>1 DEF Environnement, SessionFinit, AutreOnglet, Panne, CorpsPerdu
<1>3. \A page \in Pages : ~ Cliquer(page)  BY <1>c DEF Cliquer
<1>4. ~ Continuer
  <2>1. ~ Ouvrir(onglet.page, onglet.motif)  BY <1>0, Hors, OuvrirMene
  <2>2. \A h \in onglet.carte : ~ Naviguer(h, requetes, temoin)  BY <1>c, Hors
  <2>3. QED  BY <1>0, <2>1, <2>2 DEF Continuer
<1>5. ~ Quitter /\ ~ ChangerDeCompte /\ \A c \in Profils : ~ Soumettre(c)
  BY <1>0, <1>a DEF Quitter, ChangerDeCompte, Soumettre, Onglet
<1>6. ~ Utilisateur  BY <1>3, <1>4, <1>5 DEF Utilisateur
<1>7. QED  BY <1>1, <1>2, <1>6 DEF PortailNext, Automatique

(* The shell shows the login page and its reason only for an answer 401 to *)
(* what was asked since the arrival on the page, or to a load.             *)
THEOREM EjectionJustifieeTheorem == PortailSpec => EjectionJustifiee
<1> DEFINE A == EstPortail(onglet.page) /\ onglet'.page = "/connexion" /\ onglet'.motif =>
                  \E q \in requetes :
                    q.code = "401" /\ (q.courante \/ q.de \in {"donnees", "droits"})
<1>1. PortailInv /\ [PortailNext]_portailVars => [A]_portailVars
  <2>1. SUFFICES ASSUME PortailInv, PortailNext, Ejecte
                 PROVE  \E q \in requetes :
                          q.code = "401" /\ (q.courante \/ q.de \in {"donnees", "droits"})
    BY DEF Ejecte
  <2>2. QED  BY <2>1, EjectionRecue, EjectionDe
<1>2. QED  BY <1>1, PortailInvariant, PTL DEF PortailSpec, EjectionJustifiee

-----------------------------------------------------------------------------
(* What each portal asks of the API, its roles may call.                   *)

LEMMA Passe ==
  ASSUME NEW roles, NEW route, NEW rs, NEW ps, Garde(route, rs, ps) \in Routes,
         ps \subseteq permissions(roles), rs # {} => rs \cap roles # {}
  PROVE  canActivate(roles, route)
<1>1. PICK g \in Routes : g = Garde(route, rs, ps)  OBVIOUS
<1>2. g.route = route /\ g.roles = rs /\ g.permissions = ps  BY <1>1 DEF Garde
<1>3. QED  BY <1>2 DEF canActivate

\* SUPER_ADMIN has the permissions of every role.
LEMMA Tenues ==
  ASSUME NEW roles, NEW R \in DOMAIN PermissionsDe, R \in roles \/ "SUPER_ADMIN" \in roles
  PROVE  PermissionsDe[R] \subseteq permissions(roles)
BY DEF permissions

\* The load of a page of the portal p is one of l, for an account p admits.
Servie(l, p, roles) ==
  l[1] \in PagesDuPortail(p) /\ (rolesCanAccessPortal(roles, p) => canActivate(roles, l[2]))

LEMMA ServieEntrepreneur ==
  ASSUME NEW roles, NEW l \in LitEntrepreneur
  PROVE  Servie(l, "entrepreneur", roles)
<1>1. l[1] \in PagesDuPortail("entrepreneur")
  BY LesPortails DEF LitEntrepreneur
<1>2. l[2] \in {"companies/me", "applications/me", "programs", "documents/own"}
  BY DEF LitEntrepreneur, loadEntrepreneur, loadCatalogue, loadEntreprise, loadSuivi, loadDemande,
         loadPieces
<1>3. ASSUME rolesCanAccessPortal(roles, "entrepreneur")
      PROVE  canActivate(roles, l[2])
  <2>1. "PME" \in roles
    BY <1>3 DEF rolesCanAccessPortal, PORTAL_ACCESS, Acces
  <2>2. "PME" \in DOMAIN PermissionsDe  BY DEF PermissionsDe
  <2>3. {"company.own.read", "application.own.read", "program.read", "document.own.read"}
          \subseteq PermissionsDe["PME"]
    BY DEF PermissionsDe
  <2>4. {"company.own.read", "application.own.read", "program.read", "document.own.read"}
          \subseteq permissions(roles)
    BY <2>1, <2>2, <2>3, Tenues
  <2>5. /\ Garde("companies/me", {"PME"}, {"company.own.read"}) \in Routes
        /\ Garde("applications/me", {"PME"}, {"application.own.read"}) \in Routes
        /\ Garde("programs", {}, {"program.read"}) \in Routes
        /\ Garde("documents/own", {"PME"}, {"document.own.read"}) \in Routes
    BY DEF Routes, CompaniesController, ApplicationsController, ProgramsController,
           DocumentsController, Gardes
  <2>6. QED  BY <1>2, <2>1, <2>4, <2>5, Passe
<1>4. QED  BY <1>1, <1>3 DEF Servie

LEMMA ServieAgent ==
  ASSUME NEW roles, NEW l \in LitAgent
  PROVE  Servie(l, "agent", roles)
<1>1. l[1] \in PagesDuPortail("agent")
  BY LesPortails DEF LitAgent
<1>2. l[2] \in {"agent/summary", "agent/applications", "agent/:id", "scoring", "programs",
                "programs/references", "programs/proposals"}
  BY DEF LitAgent, loadSyntheseAgent, loadDossiersAgent, loadDossierAgent, loadPropositions,
         loadCatalogue
<1>3. ASSUME rolesCanAccessPortal(roles, "agent")
      PROVE  canActivate(roles, l[2])
  <2>1. "AGENT_FODIP" \in roles \/ "SUPER_ADMIN" \in roles
    BY <1>3 DEF rolesCanAccessPortal, PORTAL_ACCESS, Acces
  <2>2. "AGENT_FODIP" \in DOMAIN PermissionsDe  BY DEF PermissionsDe
  <2>3. {"application.read", "scoring.read", "program.read", "program.propose"}
          \subseteq PermissionsDe["AGENT_FODIP"]
    BY DEF PermissionsDe
  <2>4. {"application.read", "scoring.read", "program.read", "program.propose"}
          \subseteq permissions(roles)
    BY <2>1, <2>2, <2>3, Tenues
  <2>5. /\ Garde("agent/summary", LesAgents, {"application.read"}) \in Routes
        /\ Garde("agent/applications", LesAgents, {"application.read"}) \in Routes
        /\ Garde("agent/:id", LesAgents, {"application.read"}) \in Routes
        /\ Garde("scoring", LesAgents, {"application.read", "scoring.read"}) \in Routes
    BY DEF Routes, AgentApplicationsController, ScoringController, Gardes
  <2>6. /\ Garde("programs", {}, {"program.read"}) \in Routes
        /\ Garde("programs/references", {}, {"program.read"}) \in Routes
        /\ Garde("programs/proposals", {}, {"program.propose"}) \in Routes
    BY DEF Routes, ProgramsController, ProposalsController, Gardes
  <2>7. LesAgents \cap roles # {}  BY <2>1 DEF LesAgents
  <2>8. CASE l[2] \in {"agent/summary", "agent/applications", "agent/:id"}
    BY <2>4, <2>5, <2>7, <2>8, Passe
  <2>9. CASE l[2] = "scoring"  BY <2>4, <2>5, <2>7, <2>9, Passe
  <2>10. CASE l[2] \in {"programs", "programs/references", "programs/proposals"}
    BY <2>4, <2>6, <2>10, Passe
  <2>11. QED  BY <1>2, <2>8, <2>9, <2>10
<1>4. QED  BY <1>1, <1>3 DEF Servie

LEMMA ServieComite ==
  ASSUME NEW roles, NEW l \in LitComite
  PROVE  Servie(l, "comite", roles)
<1>1. l[1] \in PagesDuPortail("comite")
  BY LesPortails DEF LitComite
<1>2. l[2] \in {"committee/summary", "committee/applications", "committee/:id", "programs"}
  BY DEF LitComite, loadSyntheseComite, loadDossiersComite, loadDossierComite, loadCatalogue
<1>3. ASSUME rolesCanAccessPortal(roles, "comite")
      PROVE  canActivate(roles, l[2])
  <2>1. "COMITE_FINANCEMENT" \in roles \/ "SUPER_ADMIN" \in roles
    BY <1>3 DEF rolesCanAccessPortal, PORTAL_ACCESS, Acces
  <2>2. "COMITE_FINANCEMENT" \in DOMAIN PermissionsDe  BY DEF PermissionsDe
  <2>3. {"application.read", "scoring.read", "program.read"}
          \subseteq PermissionsDe["COMITE_FINANCEMENT"]
    BY DEF PermissionsDe
  <2>4. {"application.read", "scoring.read", "program.read"} \subseteq permissions(roles)
    BY <2>1, <2>2, <2>3, Tenues
  <2>5. /\ Garde("committee/summary", LesMembres, {"application.read", "scoring.read"}) \in Routes
        /\ Garde("committee/applications", LesMembres, {"application.read", "scoring.read"})
             \in Routes
        /\ Garde("committee/:id", LesMembres, {"application.read", "scoring.read"}) \in Routes
        /\ Garde("programs", {}, {"program.read"}) \in Routes
    BY DEF Routes, CommitteeController, ProgramsController, Gardes
  <2>6. LesMembres \cap roles # {}  BY <2>1 DEF LesMembres
  <2>7. QED  BY <1>2, <2>4, <2>5, <2>6, Passe
<1>4. QED  BY <1>1, <1>3 DEF Servie

LEMMA ServieDirection ==
  ASSUME NEW roles, NEW l \in LitDirection(roles)
  PROVE  Servie(l, "direction", roles)
<1>1. l[1] \in PagesDuPortail("direction")
  BY LesPortails DEF LitDirection
<1>2. \/ l[2] \in {"dashboard", "financings", "me", "reconciliations", "financings/:id",
                   "programs"}
      \/ l[2] = "eligible-applications" /\ "financing.manage" \in permissions(roles)
      \/ l[2] = "programs/management" /\ roles \cap {"DIRECTION_FODIP", "SUPER_ADMIN"} # {}
      \/ l[2] \in {"programs/references", "programs/proposals"} /\ "ANALYSTE" \in roles
  BY DEF LitDirection, loadTableauDeBord, loadFinancements, loadProgrammes, loadRapprochements,
         loadFinancement
<1>3. ASSUME rolesCanAccessPortal(roles, "direction")
      PROVE  canActivate(roles, l[2])
  <2>1. "DIRECTION_FODIP" \in roles \/ "ANALYSTE" \in roles \/ "SUPER_ADMIN" \in roles
    BY <1>3 DEF rolesCanAccessPortal, PORTAL_ACCESS, Acces
  <2>2. "DIRECTION_FODIP" \in DOMAIN PermissionsDe /\ "ANALYSTE" \in DOMAIN PermissionsDe
    BY DEF PermissionsDe
  <2> DEFINE lecture == {"dashboard.read", "financing.read", "reconciliation.read",
                         "program.read", "program.propose"}
  <2>3. lecture \subseteq PermissionsDe["DIRECTION_FODIP"]
    BY DEF PermissionsDe
  <2>4. lecture \subseteq PermissionsDe["ANALYSTE"]
    BY DEF PermissionsDe
  <2>5. "program.manage" \in PermissionsDe["DIRECTION_FODIP"]
    BY DEF PermissionsDe
  <2>6. lecture \subseteq permissions(roles)  BY <2>1, <2>2, <2>3, <2>4, Tenues
  <2>7. LecteursFinances \cap roles # {}
        /\ {"DIRECTION_FODIP", "ANALYSTE", "SUPER_ADMIN"} \cap roles # {}
    BY <2>1 DEF LecteursFinances
  <2>8. /\ Garde("dashboard", {"DIRECTION_FODIP", "ANALYSTE", "SUPER_ADMIN"}, {"dashboard.read"})
             \in Routes
        /\ Garde("financings", LecteursFinances, {"financing.read"}) \in Routes
        /\ Garde("financings/:id", LecteursFinances, {"financing.read"}) \in Routes
        /\ Garde("reconciliations", LecteursFinances, {"reconciliation.read"}) \in Routes
        /\ Garde("eligible-applications", LecteursFinances, {"financing.manage"}) \in Routes
    BY DEF Routes, AnalyticsController, FinancingsController, ReconciliationsController, Gardes
  <2>9. /\ Garde("me", {}, {}) \in Routes
        /\ Garde("programs", {}, {"program.read"}) \in Routes
        /\ Garde("programs/management", {}, {"program.manage"}) \in Routes
        /\ Garde("programs/references", {}, {"program.read"}) \in Routes
        /\ Garde("programs/proposals", {}, {"program.propose"}) \in Routes
    BY DEF Routes, AuthController, ProgramsController, ProposalsController, Gardes
  <2>10. CASE l[2] \in {"dashboard", "financings", "financings/:id", "reconciliations"}
    BY <2>6, <2>7, <2>8, <2>10, Passe
  <2>11. CASE l[2] \in {"me", "programs", "programs/references", "programs/proposals"}
    BY <2>6, <2>9, <2>11, Passe
  <2>12. CASE l[2] = "eligible-applications" /\ "financing.manage" \in permissions(roles)
    BY <2>7, <2>8, <2>12, Passe
  <2>13. CASE l[2] = "programs/management" /\ roles \cap {"DIRECTION_FODIP", "SUPER_ADMIN"} # {}
    <3>1. "program.manage" \in permissions(roles)  BY <2>2, <2>5, <2>13, Tenues
    <3>2. QED  BY <2>9, <2>13, <3>1, Passe
  <2>14. QED  BY <1>2, <2>10, <2>11, <2>12, <2>13
<1>4. QED  BY <1>1, <1>3 DEF Servie

LEMMA ServieAdministration ==
  ASSUME NEW roles, NEW l \in LitAdministration
  PROVE  Servie(l, "administration", roles)
<1>1. l[1] \in PagesDuPortail("administration")
  BY LesPortails DEF LitAdministration
<1>2. l[2] \in {"summary", "users", "roles", "enterprises", "partner-banks", "administration/audit"}
  BY DEF LitAdministration, loadSyntheseAdministration, loadUtilisateurs, loadUsers, loadJournal
<1>3. ASSUME rolesCanAccessPortal(roles, "administration")
      PROVE  canActivate(roles, l[2])
  <2>1. "SUPER_ADMIN" \in roles
    BY <1>3 DEF rolesCanAccessPortal, PORTAL_ACCESS, Acces
  <2>2. {"user.manage", "role.read"} \subseteq permissions(roles)  BY <2>1 DEF permissions
  <2>3. "DIRECTION_FODIP" \in DOMAIN PermissionsDe
        /\ "audit.read" \in PermissionsDe["DIRECTION_FODIP"]
    BY DEF PermissionsDe
  <2>4. "audit.read" \in permissions(roles)  BY <2>1, <2>3, Tenues
  <2>5. /\ Garde("summary", {"SUPER_ADMIN"}, {"user.manage"}) \in Routes
        /\ Garde("users", {"SUPER_ADMIN"}, {"user.manage"}) \in Routes
        /\ Garde("enterprises", {"SUPER_ADMIN"}, {"user.manage"}) \in Routes
        /\ Garde("partner-banks", {"SUPER_ADMIN"}, {"user.manage"}) \in Routes
        /\ Garde("roles", {"SUPER_ADMIN"}, {"role.read"}) \in Routes
        /\ Garde("administration/audit", {"SUPER_ADMIN"}, {"audit.read"}) \in Routes
    BY DEF Routes, AdministrationController, Gardes
  <2>6. QED  BY <1>2, <2>1, <2>2, <2>4, <2>5, Passe
<1>4. QED  BY <1>1, <1>3 DEF Servie

LEMMA ServieAuditeur ==
  ASSUME NEW roles, NEW l \in LitAuditeur
  PROVE  Servie(l, "auditeur", roles)
<1>1. l[1] \in PagesDuPortail("auditeur")
  BY LesPortails DEF LitAuditeur
<1>2. l[2] \in {"financings", "audit/logs", "programs", "financings/:id", "audit/dossiers/:id"}
  BY DEF LitAuditeur, loadAudit, loadCatalogue, loadFinancementAudite, loadDossierAudite
<1>3. ASSUME rolesCanAccessPortal(roles, "auditeur")
      PROVE  canActivate(roles, l[2])
  <2>1. "AUDITEUR" \in roles \/ "SUPER_ADMIN" \in roles
    BY <1>3 DEF rolesCanAccessPortal, PORTAL_ACCESS, Acces
  <2>2. "AUDITEUR" \in DOMAIN PermissionsDe  BY DEF PermissionsDe
  <2>3. {"financing.read", "audit.read", "program.read"} \subseteq PermissionsDe["AUDITEUR"]
    BY DEF PermissionsDe
  <2>4. {"financing.read", "audit.read", "program.read"} \subseteq permissions(roles)
    BY <2>1, <2>2, <2>3, Tenues
  <2>5. /\ Garde("financings", LecteursFinances, {"financing.read"}) \in Routes
        /\ Garde("financings/:id", LecteursFinances, {"financing.read"}) \in Routes
        /\ Garde("audit/logs", {"AUDITEUR", "SUPER_ADMIN"}, {"audit.read"}) \in Routes
        /\ Garde("audit/dossiers/:id", {"AUDITEUR", "SUPER_ADMIN"}, {"audit.read"}) \in Routes
        /\ Garde("programs", {}, {"program.read"}) \in Routes
    BY DEF Routes, FinancingsController, AuditController, ProgramsController, Gardes
  <2>6. LecteursFinances \cap roles # {} /\ {"AUDITEUR", "SUPER_ADMIN"} \cap roles # {}
    BY <2>1 DEF LecteursFinances
  <2>7. QED  BY <1>2, <2>4, <2>5, <2>6, Passe
<1>4. QED  BY <1>1, <1>3 DEF Servie

LEMMA ServiePartenaire ==
  ASSUME NEW roles, NEW l \in LitPartenaire
  PROVE  Servie(l, "partenaire", roles)
<1>1. l[1] \in PagesDuPortail("partenaire")
  BY LesPortails DEF LitPartenaire
<1>2. l[2] \in {"partner/dashboard", "partner/financings", "partner/operations", "partner/:id"}
  BY DEF LitPartenaire, loadSynthesePartenaire, loadFinancementsPartenaire, loadOperations,
         loadFinancementPartenaire
<1>3. ASSUME rolesCanAccessPortal(roles, "partenaire")
      PROVE  canActivate(roles, l[2])
  <2>1. "PARTENAIRE_BANCAIRE" \in roles
    BY <1>3 DEF rolesCanAccessPortal, PORTAL_ACCESS, Acces
  <2>2. "PARTENAIRE_BANCAIRE" \in DOMAIN PermissionsDe
        /\ "partner.application.read" \in PermissionsDe["PARTENAIRE_BANCAIRE"]
    BY DEF PermissionsDe
  <2>3. "partner.application.read" \in permissions(roles)  BY <2>1, <2>2, Tenues
  <2>4. \A r \in {"partner/dashboard", "partner/financings", "partner/operations", "partner/:id"} :
          Garde(r, {"PARTENAIRE_BANCAIRE"}, {"partner.application.read"}) \in Routes
    BY DEF Routes, PartnerController, Gardes
  <2>5. QED  BY <1>2, <2>1, <2>3, <2>4, Passe
<1>4. QED  BY <1>1, <1>3 DEF Servie

\* The shared pages read the account of the session, and the bell its own list.
LEMMA ServiePartage ==
  ASSUME NEW roles, NEW l \in LitPartage
  PROVE  /\ \A p \in Portails : l[1] \notin PagesDuPortail(p)
         /\ \/ canActivate(roles, l[2])
            \/ l[1] = "/notifications" /\ "notification.read" \notin permissions(roles)
<1>1. l[1] \in PagesPartagees
  BY DEF LitPartage, PagesPartagees
<1>2. \A p \in Portails : l[1] \notin PagesDuPortail(p)
  BY <1>1, PagesNommees DEF EstPortail, resolvePortalFromPath
<1>3. l[2] = "me" \/ (l[2] = "notifications" /\ l[1] = "/notifications")
  BY DEF LitPartage, loadNotifications, loadCompte
<1>4. Garde("me", {}, {}) \in Routes /\ Garde("notifications", {}, {"notification.read"}) \in Routes
  BY DEF Routes, AuthController, NotificationsController, Gardes
<1>5. CASE l[2] = "me"  BY <1>2, <1>4, <1>5, Passe
<1>6. CASE l[2] = "notifications" /\ l[1] = "/notifications"
  BY <1>2, <1>4, <1>6, Passe
<1>7. QED  BY <1>3, <1>5, <1>6

LEMMA PagesDistinctes ==
  ASSUME NEW p \in Portails, NEW r \in Portails, p # r
  PROVE  PagesDuPortail(p) \cap PagesDuPortail(r) = {}
BY LesPortails

(* A page asks of the API only what the account that its portal admits may *)
(* call; a shared page too, but for the bell of an account without         *)
(* notification.read.                                                      *)
LEMMA ChargesPermises ==
  ASSUME NEW roles, NEW page, NEW r \in load(page, roles),
         \A p \in Portails : page \in PagesDuPortail(p) => rolesCanAccessPortal(roles, p)
  PROVE  \/ canActivate(roles, r)
         \/ page = "/notifications" /\ "notification.read" \notin permissions(roles)
<1>1. PICK l \in LuPar(roles) : l[1] = page /\ l[2] = r  BY DEF load
<1>2. ASSUME NEW p \in Portails, Servie(l, p, roles)  PROVE canActivate(roles, r)
  BY <1>1, <1>2 DEF Servie
<1>3. {"entrepreneur", "agent", "comite", "direction", "administration", "auditeur", "partenaire"}
        \subseteq Portails
  BY LesPortails
<1>4. CASE l \in LitPartage  BY <1>1, <1>4, ServiePartage
<1>5. CASE l \notin LitPartage
  <2>1. \E p \in Portails : Servie(l, p, roles)
    BY <1>1, <1>3, <1>5, ServieEntrepreneur, ServieAgent, ServieComite, ServieDirection,
       ServieAdministration, ServieAuditeur, ServiePartenaire
    DEF LuPar
  <2>2. QED  BY <1>2, <2>1
<1>6. QED  BY <1>4, <1>5

(* The API refuses a load of the page on screen only when the session       *)
(* presented is not the one the shell admitted, or to the bell of an        *)
(* account without notification.read.                                      *)
THEOREM ChargementPermisTheorem == PortailSpec => []ChargementPermis
<1>1. ASSUME PortailInv, NEW q \in requetes, q.de = "donnees", q.courante, q.code = "403"
      PROVE  \/ EstPortail(q.page) /\ sessions[q.jeton].compte # sessions[onglet.verifie].compte
             \/ ClocheSansDroit(q)
  <2>1. Suivie(q) /\ Valide  BY <1>1 DEF PortailInv
  <2>2. PICK r \in load(q.page, Profil(q.jeton)) : ~ canActivate(Profil(q.jeton), r)
    BY <1>1, <2>1 DEF Suivie, Refusee
  <2>3. CASE EstPortail(q.page) /\ Profil(q.jeton) = Profil(onglet.verifie)
    <3>1. q.page = onglet.page /\ onglet.valide = q.page /\ q.page # "aucune"
      BY <1>1, <2>1, <2>3, PagesNommees DEF Suivie
    <3>2. PICK p \in Portails :
            q.page \in PagesDuPortail(p) /\ rolesCanAccessPortal(Profil(q.jeton), p)
      BY <2>1, <2>3, <3>1 DEF Valide, Admis, resolvePortalFromPath
    <3>3. \A s \in Portails :
            q.page \in PagesDuPortail(s) => rolesCanAccessPortal(Profil(q.jeton), s)
      BY <3>2, PagesDistinctes
    <3>4. QED  BY <2>2, <3>3, ChargesPermises DEF ClocheSansDroit, Profil
  <2>4. CASE ~ EstPortail(q.page)
    <3>1. \A s \in Portails : q.page \notin PagesDuPortail(s)
      BY <2>4 DEF EstPortail, resolvePortalFromPath
    <3>2. QED  BY <2>2, <3>1, ChargesPermises DEF ClocheSansDroit, Profil
  <2>5. QED  BY <2>3, <2>4 DEF Profil
<1>2. PortailInv => ChargementPermis  BY <1>1 DEF ChargementPermis
<1>3. QED  BY <1>2, PortailInvariant, PTL
==============================================================================
