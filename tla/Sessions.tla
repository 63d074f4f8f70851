------------------------------ MODULE Sessions ------------------------------
(****************************************************************************)
(* Signing in, the second factor, the institutional sign-in, and the access *)
(* tokens the guard lets through, composed with the administrator's         *)
(* commands of Comptes.  auth.service, mfa.service, oidc.service and its    *)
(* controller, session-token.service, revocation.service, jwt-auth.guard,   *)
(* authorization.guard, users.repository.                                   *)
(*                                                                          *)
(* Every await between two statements is a point where the account may      *)
(* change: a sign-in keeps the row it read (field lu of a connexion) while  *)
(* an administrator rewrites it.                                            *)
(****************************************************************************)
EXTENDS Comptes

CONSTANTS
  Connexions,     \* sign-ins in flight
  JetonsInitiaux, \* the administrators' sessions at the start
  MaxTentatives,  \* bound: requests to the sign-in endpoints
  MaxEchanges,    \* bound: those and the administrators' together
  DefisInitiaux,  \* challenges outstanding at the start
  LivraisonsInitiales, \* delivery tokens outstanding at the start
  MaxTemps,       \* bound: expirations, time steps and key rotations together
  MaxLivraisons,  \* bound: delivery tokens
  MaxPas,         \* bound: TOTP time steps
  MaxCle          \* bound: signing keys ever in use

VARIABLES
  connexion,   \* the sign-ins in flight
  jetons,      \* access tokens ever issued
  expires,     \* those past their exp
  revoques,    \* rows of revoked_tokens
  defis,       \* MFA challenges that have not expired
  livraisons,  \* delivery tokens ever issued: jti -> account
  perimees,    \* those past their exp
  reclamees,   \* rows of oidc_delivery_tokens_used
  echanges,    \* how many times each delivery token was redeemed
  flux,        \* the browser holds the signed flow cookie
  horloge,     \* current TOTP time step
  cle,         \* the signing key in use; key cle - 1 is still accepted
  graines,     \* TOTP seeds generated so far
  tentatives   \* requests to the sign-in endpoints so far

sessionsVars == <<connexion, jetons, expires, revoques, defis, livraisons,
                  perimees, reclamees, echanges, flux, horloge, cle, graines,
                  tentatives>>
vars == <<comptesVars, sessionsVars>>

Pas == 1..MaxPas
Code == [secret: Secrets, pas: Pas]
Jeton == [jti: Nat, sub: Comptes, roles: SUBSET Roles,
          entreprise: Entreprises \cup {Rien}, banque: Banques \cup {Rien},
          version: Nat, cle: 1..MaxCle, code: Code \cup {Rien}]
Defi == [sub: Comptes, but: {"mfa_setup", "mfa_login"}]
Connexion == [etat: {"libre", "motDePasse", "enrolement", "livraison",
                     "consommer", "confirmer", "emettre"},
              sub: Comptes \cup {Rien}, but: {"aucun", "mfa_setup", "mfa_login"},
              code: Code \cup {Rien}, lu: Ligne]

ConnexionLibre == [etat |-> "libre", sub |-> Rien, but |-> "aucun",
                   code |-> Rien, lu |-> LigneVide]

\* The sessions, challenges and delivery tokens at the start are of accounts
\* that exist; the sessions carry what these accounts are, and codes of theirs
\* that were consumed.
ASSUME SessionsAssumption ==
  /\ MaxPas \in Nat \ {0} /\ MaxCle \in Nat \ {0}
  /\ \A c \in Comptes : ComptesInitiaux[c].secret # Rien =>
                            ComptesInitiaux[c].secret <= Cardinality(Comptes)
  /\ JetonsInitiaux \subseteq Jeton /\ IsFiniteSet(JetonsInitiaux)
  /\ \A t \in JetonsInitiaux :
       LET l == ComptesInitiaux[t.sub] IN
       /\ l.existe /\ t.version = l.version /\ t.cle = 1
       /\ t.roles = l.roles /\ t.entreprise = l.entreprise /\ t.banque = l.banque
       /\ t.code # Rien => t.code.secret <= Cardinality(Comptes) /\ t.code.pas <= l.pas
  /\ \A t, u \in JetonsInitiaux :
       t.code # Rien /\ t.code = u.code /\ t.sub = u.sub => t = u
  /\ DefisInitiaux \subseteq Defi /\ \A d \in DefisInitiaux : ComptesInitiaux[d.sub].existe
  /\ \A j \in DOMAIN LivraisonsInitiales :
       /\ LivraisonsInitiales[j] \in Comptes
       /\ ComptesInitiaux[LivraisonsInitiales[j]].existe

------------------------------------------------------------------------------
(* The guard.                                                                *)

\* resolveVerificationSecret: the current key and the previous one; any other
\* kid falls back to the current secret, under which the signature is wrong.
cleConnue(k) == k \in {cle, cle - 1}

signatureValide(t) == cleConnue(t.cle) /\ t.jti \notin expires

sessionEnVigueur(t) ==
  compte[t.sub].existe /\ compte[t.sub].actif /\ compte[t.sub].version = t.version

\* The sweep of expired rows never matters: the query looks at live ones.
isRevoked(t) == t.jti \in revoques /\ t.jti \notin expires

\* canActivate.  Its two reads are one step here: a revocation that lands
\* between them is one that lands just after the request was let through, and
\* the application's clock and the database's are one.
Accepte(t) == signatureValide(t) /\ ~isRevoked(t) /\ sessionEnVigueur(t)

hasAnyRole(accordes, requis) == requis = {} \/ accordes \cap requis # {}

\* AuthorizationGuard for the administration: the roles the token carries.
AdminAutorise(t) == Accepte(t) /\ hasAnyRole(t.roles, {"SUPER_ADMIN"})

------------------------------------------------------------------------------
(* Issuing.                                                                  *)

\* Mutant: the version of the account is read again when the token is signed.
NouveauJetonRelu(c, l, code) ==
  [jti |-> Cardinality(jetons) + 1, sub |-> c, roles |-> l.roles,
   entreprise |-> l.entreprise, banque |-> l.banque,
   version |-> compte[c].version, cle |-> cle, code |-> code]

\* SessionTokenService.issue: the claims are those of the row that was READ.
NouveauJeton(c, l, code) ==
  [jti |-> Cardinality(jetons) + 1, sub |-> c, roles |-> l.roles,
   entreprise |-> l.entreprise, banque |-> l.banque, version |-> l.version,
   cle |-> cle, code |-> code]

Suite(x, e) == connexion' = [connexion EXCEPT ![x] = e]
Finir(x) == Suite(x, ConnexionLibre)

Emettre(x) ==
  LET k == connexion[x] IN
  /\ k.etat = "emettre"
  /\ jetons' = jetons \cup {NouveauJeton(k.sub, k.lu, k.code)}
  /\ Finir(x)
  /\ UNCHANGED <<comptesVars, expires, revoques, defis, livraisons, perimees,
                 reclamees, echanges, flux, horloge, cle, graines,
                 tentatives>>

\* MfaService.beginChallenge on the row that was read, or the token at once.
ApresIdentite(c, l) ==
  IF ~l.mfaRequise
  THEN [ConnexionLibre EXCEPT !.etat = "emettre", !.sub = c, !.lu = l]
  ELSE IF ~l.confirme /\ l.secret = Rien
  THEN [ConnexionLibre EXCEPT !.etat = "enrolement", !.sub = c]
  ELSE ConnexionLibre

DefiApresIdentite(c, l) ==
  IF ~l.mfaRequise \/ (~l.confirme /\ l.secret = Rien) THEN {}
  ELSE {[sub |-> c, but |-> IF l.confirme THEN "mfa_login" ELSE "mfa_setup"]}

\* setPendingMfaSecret: whatever the row holds.
secretEnAttente(l, s) == [l EXCEPT !.secret = s, !.confirme = FALSE, !.pas = 0]

\* enrollNewSecret: a fresh seed.
SInscrire(x) ==
  LET c == connexion[x].sub IN
  /\ connexion[x].etat = "enrolement"
  /\ ligne[c] = Rien
  /\ graines' = graines + 1
  /\ compte' = [compte EXCEPT ![c] = secretEnAttente(@, graines + 1)]
  /\ defis' = defis \cup {[sub |-> c, but |-> "mfa_setup"]}
  /\ Finir(x)
  /\ UNCHANGED <<references, verrou, ligne, appel, demandees, jetons, expires,
                 revoques, livraisons, perimees, reclamees, echanges, flux,
                 horloge, cle, tentatives>>

------------------------------------------------------------------------------
(* Sign-in with a password.                                                  *)

\* Bound: one more request enters.
Entrer ==
  /\ tentatives < MaxTentatives /\ tentatives + demandees < MaxEchanges
  /\ tentatives' = tentatives + 1

Tentative(x) == connexion[x].etat = "libre" /\ Entrer

\* findForAuthentication: an anonymised row no longer has the e-mail.
LireCompte(x, c) ==
  /\ Tentative(x)
  /\ compte[c].existe /\ compte[c].actif /\ ~compte[c].anonymise
  /\ Suite(x, [ConnexionLibre EXCEPT !.etat = "motDePasse", !.sub = c,
                                     !.lu = compte[c]])
  /\ UNCHANGED <<comptesVars, jetons, expires, revoques, defis, livraisons,
                 perimees, reclamees, echanges, flux, horloge, cle, graines>>

\* bcrypt has answered: a wrong password or a PME without an enterprise is
\* refused, anybody else goes on with the row read before.
ComparerMotDePasse(x, valide) ==
  LET k == connexion[x]
      admis == valide /\ ("PME" \in k.lu.roles => k.lu.entreprise # Rien)
  IN
  /\ k.etat = "motDePasse"
  /\ Suite(x, IF admis THEN ApresIdentite(k.sub, k.lu) ELSE ConnexionLibre)
  /\ defis' = IF admis THEN defis \cup DefiApresIdentite(k.sub, k.lu) ELSE defis
  /\ UNCHANGED <<comptesVars, jetons, expires, revoques, livraisons, perimees,
                 reclamees, echanges, flux, horloge, cle, graines, tentatives>>

------------------------------------------------------------------------------
(* The second factor.                                                        *)

\* The purpose of the challenge must be the endpoint's.
resolveChallenge(d) == d \in defis

\* The client shows a code of the current step or of a neighbour (window: 1).
\* The code reads the clock a second time for the step it consumes, which may
\* then be the one after and refuse more: one reading here.
codeValide(l, code) ==
  code.secret = l.secret /\ code.pas \in (horloge - 1)..(horloge + 1)

\* confirmEnrollment and verifyLogin: the challenge, a fresh read of the
\* account, the code.
PresenterCode(x, d, code) ==
  LET l == compte[d.sub] IN
  /\ resolveChallenge(d)
  /\ Tentative(x)
  /\ l.secret # Rien /\ l.confirme = (d.but = "mfa_login")
  /\ codeValide(l, code)
  /\ Suite(x, [etat |-> "consommer", sub |-> d.sub, but |-> d.but, code |-> code,
               lu |-> l])
  /\ UNCHANGED <<comptesVars, jetons, expires, revoques, defis, livraisons,
                 perimees, reclamees, echanges, flux, horloge, cle, graines>>

\* Mutant: a step may be used again.
pasConsommableEncore(dernier, pas) == dernier = 0 \/ dernier <= pas

\* consumeMfaStep: one UPDATE, which finds no row when this step or a later one
\* was used.
pasConsommable(dernier, pas) == dernier = 0 \/ dernier < pas

ConsommerPas(x) ==
  LET k == connexion[x]
      ok == pasConsommable(compte[k.sub].pas, k.code.pas)
  IN
  /\ k.etat = "consommer"
  /\ ligne[k.sub] = Rien
  /\ compte' = IF ok THEN [compte EXCEPT ![k.sub].pas = k.code.pas] ELSE compte
  /\ Suite(x, IF ~ok THEN ConnexionLibre
              ELSE [k EXCEPT !.etat = IF k.but = "mfa_setup" THEN "confirmer"
                                      ELSE "emettre"])
  /\ UNCHANGED <<references, verrou, ligne, appel, demandees, jetons, expires,
                 revoques, defis, livraisons, perimees, reclamees, echanges,
                 flux, horloge, cle, graines, tentatives>>

ConfirmerSecret(x) ==
  LET k == connexion[x] IN
  /\ k.etat = "confirmer"
  /\ ligne[k.sub] = Rien
  /\ compte' = [compte EXCEPT ![k.sub].confirme = TRUE]
  /\ Suite(x, [k EXCEPT !.etat = "emettre"])
  /\ UNCHANGED <<references, verrou, ligne, appel, demandees, jetons, expires,
                 revoques, defis, livraisons, perimees, reclamees, echanges,
                 flux, horloge, cle, graines, tentatives>>

------------------------------------------------------------------------------
(* Institutional sign-in (OpenID Connect).                                   *)

canUseInstitutionalOidc(roles) == roles \cap PRIVILEGED_ROLES # {}

\* beginAuthorization: the signed cookie that pairs the browser with the flow.
CommencerOidc ==
  /\ ~flux
  /\ Cardinality(DOMAIN livraisons) < MaxLivraisons
  /\ flux' = TRUE
  /\ UNCHANGED <<comptesVars, connexion, jetons, expires, revoques, defis,
                 livraisons, perimees, reclamees, echanges, horloge, cle,
                 graines, tentatives>>

\* No cookie, or a provider that does not vouch for an e-mail: an error.
completeAuthorization(vouee) == flux /\ vouee

issueDeliveryToken(c) ==
  [j \in DOMAIN livraisons \cup {Cardinality(DOMAIN livraisons) + 1} |->
    IF j \in DOMAIN livraisons THEN livraisons[j] ELSE c]

\* callback: the cookie is cleared whatever happens; an identity the provider
\* vouches for gets a delivery token only when it is an active institutional
\* account.
RetourOidc(c, vouee) ==
  LET l == compte[c]
      admis == /\ completeAuthorization(vouee) /\ l.existe /\ l.actif /\ ~l.anonymise
               /\ canUseInstitutionalOidc(l.roles)
  IN
  /\ Entrer
  /\ flux' = FALSE
  /\ livraisons' = IF admis THEN issueDeliveryToken(c) ELSE livraisons
  /\ echanges' = [j \in DOMAIN livraisons' |->
                   IF j \in DOMAIN livraisons THEN echanges[j] ELSE 0]
  /\ UNCHANGED <<comptesVars, connexion, jetons, expires, revoques, defis,
                 perimees, reclamees, horloge, cle, graines>>

verifyWithKeys(j) == j \notin perimees

\* resolveDeliveryToken: the INSERT ... ON CONFLICT claims the jti, and the
\* sweep deletes rows whose own two minutes, counted from the claim, are over;
\* those of a token still alive never are.
reclamable(j) == verifyWithKeys(j) /\ j \notin reclamees

Echanger(x, j) ==
  /\ j \in DOMAIN livraisons
  /\ reclamable(j)
  /\ Tentative(x)
  /\ \E balayees \in SUBSET (reclamees \cap perimees) :
       reclamees' = (reclamees \cup {j}) \ balayees
  /\ echanges' = [echanges EXCEPT ![j] = @ + 1]
  /\ Suite(x, [ConnexionLibre EXCEPT !.etat = "livraison", !.sub = livraisons[j]])
  /\ UNCHANGED <<comptesVars, jetons, expires, revoques, defis, livraisons,
                 perimees, flux, horloge, cle, graines>>

\* exchange goes on with a fresh read of the account.
LireLivre(x) ==
  LET c == connexion[x].sub
      l == compte[c]
      admis == l.existe /\ l.actif
  IN
  /\ connexion[x].etat = "livraison"
  /\ Suite(x, IF admis THEN ApresIdentite(c, l) ELSE ConnexionLibre)
  /\ defis' = IF admis THEN defis \cup DefiApresIdentite(c, l) ELSE defis
  /\ UNCHANGED <<comptesVars, jetons, expires, revoques, livraisons, perimees,
                 reclamees, echanges, flux, horloge, cle, graines, tentatives>>

------------------------------------------------------------------------------
(* Tokens in use.                                                            *)

\* Mutant: the sweep takes the revocations of tokens that are still alive.
apresRevocationSeule(t) == {t.jti}

\* revoke: the row that refuses the token, and the sweep of the rows whose token
\* has expired anyway.
apresRevocation(t) == (revoques \cup {t.jti}) \ expires

\* POST /auth/logout.
SeDeconnecter(t) ==
  /\ t \in jetons
  /\ Accepte(t)
  /\ Entrer
  /\ revoques' = apresRevocation(t)
  /\ UNCHANGED <<comptesVars, connexion, jetons, expires, defis, livraisons,
                 perimees, reclamees, echanges, flux, horloge, cle, graines>>

\* An administrator's request is admitted by the guard with the claims of its
\* token; what it then does, Comptes says.
DemandeAdmise(a, t, op, cible, d) ==
  /\ tentatives + demandees < MaxEchanges
  /\ AdminAutorise(t)
  /\ Demander(a, t.sub, op, cible, d)
  /\ UNCHANGED sessionsVars

CreationAdmise(a, t, cible, d) ==
  /\ tentatives + demandees < MaxEchanges
  /\ AdminAutorise(t)
  /\ Creer(a, cible, d)
  /\ UNCHANGED sessionsVars

ReferenceAdmise(a, t, r) ==
  /\ tentatives + demandees < MaxEchanges
  /\ AdminAutorise(t)
  /\ CreerReference(a, r)
  /\ UNCHANGED sessionsVars

AppelAvance(a) == AvancerAppel(a) /\ UNCHANGED sessionsVars

------------------------------------------------------------------------------
(* Time and operations.                                                      *)

\* Bound on the passage of time.
TempsRestant ==
  Cardinality(expires) + Cardinality(perimees) + (horloge - 1) + (cle - 1) < MaxTemps

JetonExpire ==
  /\ TempsRestant
  /\ \E t \in jetons : t.jti \notin expires /\ expires' = expires \cup {t.jti}
  /\ UNCHANGED <<comptesVars, connexion, jetons, revoques, defis, livraisons,
                 perimees, reclamees, echanges, flux, horloge, cle, graines,
                 tentatives>>

ReferenceTemporaireExpire ==
  /\ TempsRestant
  /\ \/ \E d \in defis : defis' = defis \ {d} /\ UNCHANGED perimees
     \/ \E j \in DOMAIN livraisons \ perimees :
          perimees' = perimees \cup {j} /\ UNCHANGED defis
  /\ UNCHANGED <<comptesVars, connexion, jetons, expires, revoques, livraisons,
                 reclamees, echanges, flux, horloge, cle, graines, tentatives>>

PasSuivant ==
  /\ horloge < MaxPas /\ TempsRestant
  /\ horloge' = horloge + 1
  /\ UNCHANGED <<comptesVars, connexion, jetons, expires, revoques, defis,
                 livraisons, perimees, reclamees, echanges, flux, cle, graines,
                 tentatives>>

\* The operators move JWT_SECRET into JWT_SECRET_PREVIOUS and restart.
Rotation ==
  /\ cle < MaxCle /\ TempsRestant
  /\ cle' = cle + 1
  /\ UNCHANGED <<comptesVars, connexion, jetons, expires, revoques, defis,
                 livraisons, perimees, reclamees, echanges, flux, horloge,
                 graines, tentatives>>

------------------------------------------------------------------------------
\* The administrators have already signed in.
Init ==
  /\ ComptesInit
  /\ connexion = [x \in Connexions |-> ConnexionLibre]
  /\ jetons = JetonsInitiaux
  /\ expires = {} /\ revoques = {} /\ defis = DefisInitiaux
  /\ livraisons = LivraisonsInitiales /\ perimees = {} /\ reclamees = {}
  /\ echanges = [j \in DOMAIN LivraisonsInitiales |-> 0]
  /\ flux = FALSE /\ horloge = 1 /\ cle = 1
  /\ graines = Cardinality(Comptes) /\ tentatives = 0

Connecter(x) ==
  \/ \E c \in Comptes : LireCompte(x, c)
  \/ \E valide \in BOOLEAN : ComparerMotDePasse(x, valide)
  \/ SInscrire(x)
  \/ \E d \in defis, p \in Pas :
       PresenterCode(x, d, [secret |-> compte[d.sub].secret, pas |-> p])
  \/ ConsommerPas(x)
  \/ ConfirmerSecret(x)
  \/ \E j \in DOMAIN livraisons : Echanger(x, j)
  \/ LireLivre(x)
  \/ Emettre(x)

Administrer(a) ==
  \/ \E t \in jetons, op \in Operations, c \in Comptes,
         d \in Demandes \cup {Rien} : DemandeAdmise(a, t, op, c, d)
  \/ \E t \in jetons, c \in Comptes, d \in Demandes : CreationAdmise(a, t, c, d)
  \/ \E t \in jetons, r \in Entreprises \cup Banques : ReferenceAdmise(a, t, r)
  \/ AppelAvance(a)

Next ==
  \/ \E x \in Connexions : Connecter(x)
  \/ \E a \in Appels : Administrer(a)
  \/ \E t \in jetons : SeDeconnecter(t)
  \/ CommencerOidc
  \/ \E c \in Comptes, vouee \in BOOLEAN : RetourOidc(c, vouee)
  \/ JetonExpire \/ ReferenceTemporaireExpire \/ PasSuivant \/ Rotation

Spec == Init /\ [][Next]_vars

------------------------------------------------------------------------------
TypeOK ==
  /\ ComptesTypeOK
  /\ connexion \in [Connexions -> Connexion]
  /\ jetons \subseteq Jeton
  /\ expires \subseteq Nat /\ revoques \subseteq Nat
  /\ defis \subseteq Defi
  /\ flux \in BOOLEAN /\ horloge \in Pas /\ cle \in 1..MaxCle
  /\ tentatives \in 0..MaxTentatives

\* A token the guard lets through carries the roles, the enterprise and the
\* bank the account has now: a sign-in that was reading the account while an
\* administrator rewrote it leaves a token that opens nothing.
DroitsEnVigueur ==
  \A t \in jetons : Accepte(t) =>
    /\ t.roles = compte[t.sub].roles
    /\ t.entreprise = compte[t.sub].entreprise
    /\ t.banque = compte[t.sub].banque

\* A token the guard has stopped letting through never opens anything again:
\* no reactivation, password reset, sweep of the revocations or key rotation
\* brings back a session that was closed.
JetonMort ==
  [][\A t \in jetons : ~Accepte(t) => ~Accepte(t)']_vars

\* What opens a session opens one: as long as a TOTP seed is the account's, each
\* of its codes serves once, however many sign-ins present it at the same time;
\* the delivery token of an institutional sign-in is redeemed at most once,
\* whatever is swept meanwhile.
UsageUnique ==
  /\ \A t, u \in jetons :
       (/\ t.code # Rien /\ t.code = u.code /\ t.sub = u.sub
        /\ compte[t.sub].secret = t.code.secret) => t = u
  /\ \A j \in DOMAIN livraisons : echanges[j] <= 1
==============================================================================
