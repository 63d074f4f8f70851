------------------------------ MODULE Portail ------------------------------
(****************************************************************************)
(* The web front end in one tab: the login form, the shell that guards the  *)
(* pages of a portal, the account menu, the loads of the pages and the      *)
(* session cookie the tabs of a browser share.  Answers come late: the page *)
(* that asked may be gone, another tab may have changed the account.        *)
(*                                                                          *)
(* A navigation of the router keeps the document and its requests; a        *)
(* window.location.replace drops them.  Bound: MaxEvenements counts what    *)
(* users, clocks, administrators and networks do.                           *)
(****************************************************************************)
EXTENDS Droits, Naturals, Sequences, FiniteSets

CONSTANTS
  Profils,       \* the sets of roles an account may have
  AvecCode,      \* the accounts that sign in with a TOTP code
  Depart,        \* the pages the tab may open first
  AutresComptes, \* the accounts another tab may sign in
  MaxSessions, MaxEvenements

ASSUME PortailAssumption ==
  /\ Depart \subseteq Pages
  /\ AutresComptes \subseteq Profils
  /\ MaxSessions \in Nat \ {0} /\ MaxEvenements \in Nat

VARIABLES
  sessions,   \* the tokens issued: account, and whether the API still takes it
  temoin,     \* the session cookie: a token, or 0
  onglet,
  requetes,   \* requests of this tab, answered or not
  evenements

portailVars == <<sessions, temoin, onglet, requetes, evenements>>

Jetons == 0..MaxSessions
CodesReponse == {"attente", "ok", "etape", "401", "403", "panne"}
Sortes == {"garde", "menu", "donnees", "droits", "carte", "identifiants",
           "deconnexion", "fermeture"}
Requete == [de: Sortes, page: Pages, courante: BOOLEAN, jeton: Jetons,
            compte: Profils \cup {{}}, code: CodesReponse]
Onglet == [page: Pages, valide: Pages \cup {"aucune"}, fraiche: BOOLEAN, verifie: Jetons,
           echec: BOOLEAN, depart: BOOLEAN, authentifie: BOOLEAN,
           dernier: SUBSET Portails,
           carte: SUBSET Pages, etape: {"identifiants", "code"}, compte: Profils \cup {{}}, motif: BOOLEAN]

PortailTypeOK ==
  /\ sessions \in Seq([compte: Profils, vive: BOOLEAN]) /\ Len(sessions) <= MaxSessions
  /\ temoin \in Jetons /\ onglet \in Onglet /\ requetes \subseteq Requete
  /\ evenements \in 0..MaxEvenements

Vive(j) == j # 0 /\ sessions[j].vive
Interroger(de, page, j, c) ==
  [de |-> de, page |-> page, courante |-> TRUE, jeton |-> j, compte |-> c, code |-> "attente"]

\* Mutant: every reader of the financings loads what only a manager may.
loadFinancementsTous(roles) == {"financings", "me", "eligible-applications"}

\* What the page asks of the API once its content is mounted.
loadFinancements(roles) ==
  {"financings", "me"} \cup
  (IF "financing.manage" \in permissions(roles) THEN {"eligible-applications"} ELSE {})

loadProgrammes(roles) ==
  {"me"} \cup
  (IF roles \cap {"DIRECTION_FODIP", "SUPER_ADMIN"} # {} THEN {"programs/management"}
   ELSE {"programs"} \cup
        IF "ANALYSTE" \in roles THEN {"programs/references", "programs/proposals"} ELSE {})

loadEntrepreneur == {"companies/me", "applications/me", "programs"}
loadEntreprise == {"companies/me"}
loadSuivi == {"applications/me"}
loadPieces == {"documents/own"}
loadDemande == {"programs"}
loadCatalogue == {"programs"}
loadPropositions == loadCatalogue \cup {"programs/references", "programs/proposals"}
loadSyntheseAgent == {"agent/summary"}
loadDossiersAgent == {"agent/applications"}
loadDossierAgent == {"agent/:id", "scoring"}
loadSyntheseComite == {"committee/summary"}
loadDossiersComite == {"committee/applications"}
loadDossierComite == {"committee/:id"}
loadTableauDeBord == {"dashboard"}
loadRapprochements == {"reconciliations"}
loadFinancement == {"financings/:id"}
loadSyntheseAdministration == {"summary"}
loadUtilisateurs == {"users", "roles", "enterprises", "partner-banks"}
loadUsers == {"users"}
loadJournal == {"administration/audit"}
loadAudit == {"financings", "audit/logs"}
loadFinancementAudite == {"financings/:id"}
loadDossierAudite == {"audit/dossiers/:id"}
loadSynthesePartenaire == {"partner/dashboard"}
loadFinancementsPartenaire == {"partner/financings"}
loadOperations == {"partner/operations"}
loadFinancementPartenaire == {"partner/:id"}
loadNotifications == {"notifications", "me"}
loadCompte == {"me"}

LitEntrepreneur ==
  ({"/entrepreneur"} \X loadEntrepreneur) \cup ({"/entrepreneur/programmes"} \X loadCatalogue)
  \cup ({"/entrepreneur/entreprise"} \X loadEntreprise) \cup ({"/entrepreneur/suivi"} \X loadSuivi)
  \cup ({"/entrepreneur/demande"} \X loadDemande)
  \cup ({"/entrepreneur/suivi/[id]/documents"} \X loadPieces)

LitAgent ==
  ({"/agent/tableau-de-bord"} \X loadSyntheseAgent) \cup ({"/agent/dossiers"} \X loadDossiersAgent)
  \cup ({"/agent/dossiers/[id]"} \X loadDossierAgent)
  \cup ({"/agent/programmes"} \X loadPropositions)

LitComite ==
  ({"/comite/tableau-de-bord"} \X loadSyntheseComite) \cup ({"/comite/dossiers"} \X loadDossiersComite)
  \cup ({"/comite/dossiers/[id]"} \X loadDossierComite) \cup ({"/comite/programmes"} \X loadCatalogue)

\* Two of its pages load by what the account may do.
LitDirection(roles) ==
  ({"/direction/tableau-de-bord"} \X loadTableauDeBord)
  \cup ({"/direction/financements"} \X loadFinancements(roles))
  \cup ({"/direction/programmes"} \X loadProgrammes(roles))
  \cup ({"/direction/rapprochements"} \X loadRapprochements)
  \cup ({"/direction/financements/[id]"} \X loadFinancement)

LitAdministration ==
  ({"/administration/tableau-de-bord"} \X loadSyntheseAdministration)
  \cup ({"/administration/utilisateurs"} \X loadUtilisateurs)
  \cup ({"/administration/recuperation"} \X loadUsers) \cup ({"/administration/journal"} \X loadJournal)

LitAuditeur ==
  ({"/auditeur/tableau-de-bord"} \X loadAudit) \cup ({"/auditeur/programmes"} \X loadCatalogue)
  \cup ({"/auditeur/financements/[id]"} \X loadFinancementAudite)
  \cup ({"/auditeur/dossiers/[id]"} \X loadDossierAudite)

LitPartenaire ==
  ({"/partenaire/tableau-de-bord"} \X loadSynthesePartenaire)
  \cup ({"/partenaire/financements"} \X loadFinancementsPartenaire)
  \cup ({"/partenaire/operations"} \X loadOperations)
  \cup ({"/partenaire/financements/[id]"} \X loadFinancementPartenaire)

LitPartage ==
  ({"/notifications"} \X loadNotifications) \cup ((PagesPartagees \ {"/notifications"}) \X loadCompte)

LuPar(roles) ==
  LitEntrepreneur \cup LitAgent \cup LitComite \cup LitDirection(roles) \cup LitAdministration
  \cup LitAuditeur \cup LitPartenaire \cup LitPartage

load(page, roles) == {l[2] : l \in {x \in LuPar(roles) : x[1] = page}}

\* The pages that call the API through clientApi; the others read the answer
\* of fetch themselves and only show an error.
parClientApi(page) ==
  \/ page \in {"/notifications", "/mes-donnees", "/profil", "/agent/programmes",
               "/comite/programmes", "/auditeur/programmes", "/direction/programmes"}
  \/ page \in PagesDuPortail("entrepreneur") \ {"/entrepreneur/suivi/[id]/documents"}

------------------------------------------------------------------------------
(* Arriving at a page.                                                       *)

SansPage == [page |-> "/", valide |-> "aucune", fraiche |-> FALSE, verifie |-> 0,
             echec |-> FALSE, depart |-> FALSE, authentifie |-> FALSE, carte |-> {},
             dernier |-> {},
             etape |-> "identifiants", compte |-> {}, motif |-> FALSE]

EstPortail(page) == resolvePortalFromPath(page) # {}

\* What the effects of the page that is mounted ask at once.
effets(page, j) ==
  IF EstPortail(page) THEN {Interroger("garde", page, j, {}), Interroger("menu", page, j, {})}
  ELSE IF page = "/connexion" THEN {Interroger("carte", page, j, {})}
  ELSE IF page = "/" THEN {}
  ELSE {Interroger("donnees", page, j, {})}

\* Mutant: the shell does not forget what it asked for the page it leaves.
toutesGardees(qs) == {[q EXCEPT !.courante = FALSE] : q \in qs}

\* The shell, the dashboard of the direction and the profile abort what they
\* asked when they leave their page.
abandonnee(q) ==
  q.de = "garde" \/ (q.de = "donnees" /\ q.page \in {"/direction/tableau-de-bord", "/profil"})

\* A router navigation: the other requests of the document go on, for a page
\* that is gone.
annulees(qs) == {[q EXCEPT !.courante = FALSE] : q \in {r \in qs : ~abandonnee(r)}}

\* sessionStorage: the last portal whose account menu was mounted.  Without
\* one the code falls back on the page that referred to the document: left out.
dernierPortail(page) ==
  IF EstPortail(page) THEN resolvePortalFromPath(page) ELSE onglet.dernier

NouvelOnglet(page) == [SansPage EXCEPT !.page = page, !.dernier = dernierPortail(page)]
MemePortail(page) ==
  EstPortail(page) /\ resolvePortalFromPath(page) = resolvePortalFromPath(onglet.page)

\* Mutant: the validated path of the shell outlives the page.
ongletGarde(page) ==
  IF MemePortail(page) THEN [onglet EXCEPT !.page = page, !.fraiche = FALSE, !.echec = FALSE]
  ELSE NouvelOnglet(page)

\* Inside a portal the shell stays and forgets the validated path; elsewhere
\* another component is mounted.
ongletArrive(page) ==
  IF MemePortail(page)
  THEN [onglet EXCEPT !.page = page, !.valide = "aucune", !.fraiche = FALSE,
                      !.verifie = 0, !.echec = FALSE]
  ELSE NouvelOnglet(page)

\* The shell takes an answer it cannot read to the end for an account without
\* a role, and opens the home page, even when it has left the page that asked.
illisible(q) == q.de = "garde" /\ q.code = "ok"

\* router.push, router.replace, a Link; the body that is being read is aborted.
Naviguer(page, reste, j) ==
  \/ /\ onglet' = ongletArrive(page)
     /\ requetes' = {q \in annulees(reste) : q.de = "menu" => MemePortail(page)} \cup effets(page, j)
  \/ /\ \E q \in reste : illisible(q)
     /\ onglet' = NouvelOnglet("/") /\ requetes' = {}

\* window.location.replace, a reload, a URL: a new document.
Ouvrir(page, motif) ==
  /\ onglet' = [NouvelOnglet(page) EXCEPT !.motif = motif]
  /\ requetes' = effets(page, temoin)

PortailInit ==
  /\ \/ sessions = <<>> /\ temoin = 0
     \/ \E c \in Profils : sessions = <<[compte |-> c, vive |-> TRUE]>> /\ temoin = 1
  /\ \E page \in Depart :
       /\ onglet = [SansPage EXCEPT !.page = page, !.dernier = resolvePortalFromPath(page)]
       /\ requetes = effets(page, temoin)
  /\ evenements = 0

------------------------------------------------------------------------------
(* The answers, at the web server and the API: the session of the cookie     *)
(* sent with the request, as it is when the request is handled.              *)

Repondre(q, code) == requetes' = (requetes \ {q}) \cup {[q EXCEPT !.code = code]}

\* /api/session/me, and the routes of the page behind proxyWithSession.
Lire(q) ==
  LET roles == sessions[q.jeton].compte
      refuse == \E r \in load(q.page, roles) : ~canActivate(roles, r)
  IN
  /\ q.de \in {"garde", "menu", "donnees", "droits", "carte"}
  /\ IF ~Vive(q.jeton) THEN Repondre(q, "401")
     ELSE IF q.de = "donnees" /\ refuse THEN Repondre(q, "403")
     ELSE Repondre(q, "ok")
  /\ UNCHANGED <<sessions, temoin>>

\* login, mfa/verify, mfa/confirm, oidc/finish: a token, or the next step.
Authentifier(q) ==
  /\ q.de = "identifiants"
  /\ \/ /\ q.compte \in AvecCode /\ onglet.etape = "identifiants"
        /\ Repondre(q, "etape") /\ UNCHANGED sessions
     \/ /\ q.compte \notin AvecCode \/ onglet.etape = "code"
        /\ Len(sessions) < MaxSessions
        /\ sessions' = Append(sessions, [compte |-> q.compte, vive |-> TRUE])
        /\ requetes' = (requetes \ {q})
                       \cup {[q EXCEPT !.code = "ok", !.jeton = Len(sessions) + 1]}
     \/ Repondre(q, "401") /\ UNCHANGED sessions
  /\ UNCHANGED temoin

\* session/logout: the token is revoked at best, the cookie is cleared anyway.
Fermer(q) ==
  /\ q.de \in {"deconnexion", "fermeture"}
  /\ Repondre(q, "ok")
  /\ \/ q.jeton # 0 /\ sessions' = [sessions EXCEPT ![q.jeton].vive = FALSE]
     \/ UNCHANGED sessions
  /\ UNCHANGED temoin

Traiter(q) ==
  /\ q.code = "attente"
  /\ Lire(q) \/ Authentifier(q) \/ Fermer(q)
  /\ UNCHANGED <<onglet, evenements>>

------------------------------------------------------------------------------
(* The handlers of the answers in the tab.                                   *)

Reste(q) == requetes \ {q}

\* AppShell: 401, not a role of this portal, anything else.
RecevoirGarde(q) ==
  LET portail == CHOOSE p \in Portails : q.page \in PagesDuPortail(p)
      roles == sessions[q.jeton].compte
  IN
  /\ q.de = "garde"
  /\ \/ q.code = "401" /\ Ouvrir("/connexion", ~onglet.depart)
     \/ /\ q.code = "panne"
        /\ onglet' = [onglet EXCEPT !.echec = TRUE] /\ requetes' = Reste(q)
     \/ /\ q.code = "ok" /\ ~rolesCanAccessPortal(roles, portail)
        /\ \E home \in (IF resolveRoleHome(roles) = {} THEN {"/"} ELSE resolveRoleHome(roles)) :
             Ouvrir(home, FALSE)
     \/ /\ q.code = "ok" /\ rolesCanAccessPortal(roles, portail)
        /\ onglet' = [onglet EXCEPT !.valide = q.page, !.verifie = q.jeton,
                                    !.fraiche = q.courante]
        /\ requetes' = Reste(q) \cup {Interroger("donnees", q.page, temoin, {})}
  /\ UNCHANGED temoin

\* AccountMenu.checkSession: inside a portal it only shows or hides its actions.
RecevoirMenu(q) ==
  /\ q.de = "menu"
  /\ onglet' = [onglet EXCEPT !.authentifie = q.code = "ok"]
  /\ requetes' = Reste(q)
  /\ UNCHANGED temoin

\* clientApi: 401 opens the login page, 403 asks who is signed in.  The dashboard
\* of the direction goes to the login page by itself; the other pages that read
\* fetch themselves keep the error.
RecevoirDonnees(q) ==
  /\ q.de = "donnees"
  /\ IF parClientApi(q.page) /\ q.code = "401" THEN Ouvrir("/connexion", TRUE)
     ELSE IF parClientApi(q.page) /\ q.code = "403"
     THEN requetes' = Reste(q) \cup {Interroger("droits", q.page, temoin, {})} /\ UNCHANGED onglet
     ELSE IF q.page = "/direction/tableau-de-bord" /\ q.code \in {"401", "403"}
     THEN Naviguer("/connexion", Reste(q), temoin)
     ELSE requetes' = Reste(q) /\ UNCHANGED onglet
  /\ UNCHANGED temoin

\* redirectWrongPortal.
RecevoirDroits(q) ==
  LET roles == sessions[q.jeton].compte
      permis == \E p \in dernierPortail(onglet.page) : rolesCanAccessPortal(roles, p)
      home == resolveRoleHome(roles)
  IN
  /\ q.de = "droits"
  /\ IF q.code = "401" THEN Ouvrir("/connexion", TRUE)
     ELSE IF q.code = "ok" /\ ~permis /\ home \notin {{}, {onglet.page}}
     THEN \E h \in home : Ouvrir(h, FALSE)
     ELSE requetes' = Reste(q) /\ UNCHANGED onglet
  /\ UNCHANGED temoin

\* LoginForm's effect: the card of the session that is already open.
RecevoirCarte(q) ==
  /\ q.de = "carte"
  /\ onglet' = IF q.courante /\ q.code = "ok"
               THEN [onglet EXCEPT !.carte = resolveRoleHome(sessions[q.jeton].compte)]
               ELSE onglet
  /\ requetes' = Reste(q)
  /\ UNCHANGED temoin

\* submitCredentials, submitCode, the OIDC continuation, then finalizeSession.
RecevoirIdentifiants(q) ==
  LET home == resolveRoleHome(q.compte) IN
  /\ q.de = "identifiants"
  /\ temoin' = IF q.code = "ok" THEN q.jeton ELSE temoin
  /\ IF q.code = "etape"
     THEN onglet' = [onglet EXCEPT !.etape = "code", !.compte = q.compte] /\ requetes' = Reste(q)
     ELSE IF q.code = "ok" /\ home # {} THEN \E h \in home : Naviguer(h, Reste(q), q.jeton)
     ELSE IF q.code = "ok"
     THEN requetes' = Reste(q) \cup {Interroger("fermeture", q.page, q.jeton, {})} /\ UNCHANGED onglet
     ELSE requetes' = Reste(q) /\ UNCHANGED onglet

\* The end of AccountMenu.logout, and of the form's own logouts.
RecevoirFermeture(q) ==
  /\ q.de \in {"deconnexion", "fermeture"}
  /\ temoin' = IF q.code = "ok" THEN 0 ELSE temoin
  /\ IF q.code = "ok" /\ q.de = "deconnexion" THEN Naviguer("/connexion", Reste(q), 0)
     ELSE /\ requetes' = Reste(q)
          /\ onglet' = [onglet EXCEPT !.carte = IF q.code = "ok" THEN {} ELSE @]

Recevoir(q) ==
  /\ q.code # "attente"
  /\ \/ RecevoirGarde(q) \/ RecevoirMenu(q) \/ RecevoirDonnees(q) \/ RecevoirDroits(q)
     \/ RecevoirCarte(q) \/ RecevoirIdentifiants(q) \/ RecevoirFermeture(q)
  /\ UNCHANGED <<sessions, evenements>>

------------------------------------------------------------------------------
(* What happens around the tab.                                              *)

Evenement == evenements < MaxEvenements /\ evenements' = evenements + 1

\* The links of a page: those of the shell, and the bell, from a portal; from
\* a shared page the home of the account, and before it is known /entrepreneur.
Liens ==
  IF EstPortail(onglet.page)
  THEN (UNION {PagesDuPortail(p) : p \in resolvePortalFromPath(onglet.page)}) \cup PagesPartagees
  ELSE IF onglet.page \in PagesPartagees
  THEN (IF Vive(temoin) THEN resolveRoleHome(sessions[temoin].compte) ELSE {})
       \cup {"/entrepreneur"}
  ELSE {"/connexion"}

Cliquer(page) ==
  /\ Evenement
  /\ page \in Liens \ {onglet.page}
  /\ Naviguer(page, requetes, temoin)
  /\ UNCHANGED <<sessions, temoin>>

\* The card's button; the reload of a page; AccountMenu's timer and focus.
Continuer ==
  /\ Evenement
  /\ \/ \E h \in onglet.carte : Naviguer(h, requetes, temoin)
     \/ Ouvrir(onglet.page, onglet.motif)
     \/ /\ EstPortail(onglet.page)
        /\ requetes' = requetes \cup {Interroger("menu", onglet.page, temoin, {})} /\ UNCHANGED onglet
  /\ UNCHANGED <<sessions, temoin>>

EnAttente(de) == \E q \in requetes : q.de \in de

\* The buttons are disabled while one of the form's requests is pending.
Soumettre(c) ==
  /\ Evenement
  /\ onglet.page = "/connexion" /\ onglet.carte = {}
  /\ ~EnAttente({"carte", "identifiants", "fermeture"})
  /\ onglet.etape = "code" => c = onglet.compte
  /\ requetes' = requetes \cup {Interroger("identifiants", onglet.page, 0, c)}
  /\ UNCHANGED <<sessions, temoin, onglet>>

ChangerDeCompte ==
  /\ Evenement
  /\ onglet.page = "/connexion" /\ onglet.carte # {} /\ ~EnAttente({"fermeture"})
  /\ requetes' = requetes \cup {Interroger("fermeture", onglet.page, temoin, {})}
  /\ UNCHANGED <<sessions, temoin, onglet>>

Quitter ==
  /\ Evenement
  /\ onglet.authentifie
  /\ onglet' = [onglet EXCEPT !.depart = TRUE, !.authentifie = FALSE]
  /\ requetes' = requetes \cup {Interroger("deconnexion", onglet.page, temoin, {})}
  /\ UNCHANGED <<sessions, temoin>>

\* The session ends on its own or by an administrator; the cookie stays.
SessionFinit(j) ==
  /\ Evenement
  /\ Vive(j)
  /\ sessions' = [sessions EXCEPT ![j].vive = FALSE]
  /\ UNCHANGED <<temoin, onglet, requetes>>

\* Another tab of the browser signs in with another account.
AutreOnglet(c) ==
  /\ Evenement
  /\ Len(sessions) < MaxSessions
  /\ sessions' = Append(sessions, [compte |-> c, vive |-> TRUE])
  /\ temoin' = Len(sessions) + 1
  /\ UNCHANGED <<onglet, requetes>>

\* The network or a server fails: no answer, or a status that is none of those.
Panne(q) ==
  /\ Evenement
  /\ q.code = "attente"
  /\ Repondre(q, "panne")
  /\ UNCHANGED <<sessions, temoin, onglet>>

\* The connection is lost while the shell reads who is signed in.
CorpsPerdu(q) ==
  /\ Evenement
  /\ illisible(q)
  /\ Ouvrir("/", FALSE)
  /\ UNCHANGED <<sessions, temoin>>

Automatique == \E q \in requetes : Traiter(q) \/ Recevoir(q)

Utilisateur ==
  \/ \E page \in Pages : Cliquer(page)
  \/ \E c \in Profils : Soumettre(c)
  \/ Continuer \/ ChangerDeCompte \/ Quitter

Environnement ==
  \/ \E j \in DOMAIN sessions : SessionFinit(j)
  \/ \E c \in AutresComptes : AutreOnglet(c)
  \/ \E q \in requetes : Panne(q) \/ CorpsPerdu(q)

PortailNext == Automatique \/ Utilisateur \/ Environnement

\* The web server and the API answer, and the tab handles what it receives.
PortailSpec == PortailInit /\ [][PortailNext]_portailVars /\ WF_portailVars(Automatique)

------------------------------------------------------------------------------
(* Properties.                                                               *)

\* The content of a portal's page is on screen only once the API has said,
\* since the arrival on that page, that the account has a role of the portal.
ContenuVerifie ==
  EstPortail(onglet.page) /\ onglet.valide = onglet.page =>
    /\ onglet.fraiche
    /\ \E p \in resolvePortalFromPath(onglet.page) :
         rolesCanAccessPortal(sessions[onglet.verifie].compte, p)

\* The bell of the shell opens /notifications in every portal, the partner's
\* included, whose role has not notification.read.
ClocheSansDroit(q) == q.page = "/notifications" /\ "notification.read" \notin
                        permissions(sessions[q.jeton].compte)

\* A page reached through the links of the front end, with an account the shell
\* has admitted to its portal, never asks the API for what it refuses to it.
ChargementPermis ==
  \A q \in requetes :
    q.de = "donnees" /\ q.courante /\ q.code = "403" =>
      \/ EstPortail(q.page) /\ sessions[q.jeton].compte # sessions[onglet.verifie].compte
      \/ ClocheSansDroit(q)

\* The shell sends its user back to the login page for the session presented
\* since the arrival on the page, never for an answer that comes late; only a
\* load of clientApi may still do so for a page that is gone.
EjectionJustifiee ==
  [][EstPortail(onglet.page) /\ onglet'.page = "/connexion" /\ onglet'.motif =>
       \E q \in requetes :
         q.code = "401" /\ (q.courante \/ q.de \in {"donnees", "droits"})]_portailVars

\* Whatever the account, the page it opens and the session it has, the
\* redirections end: the tab comes to rest on a page.
NavigationAboutit == []<>(requetes = {})
=============================================================================
