----------------------------- MODULE Demarrage -----------------------------
(****************************************************************************)
(* The start of the API's replicas: start-render.sh runs run-migrations.js, *)
(* then bootstrap-super-admin.js, then the server.  A process that fails    *)
(* may be started again, or not: that is the platform's choice, and no      *)
(* fairness is assumed of it.  Replicas of several images may start         *)
(* together, and any of them may die between two statements.                *)
(*                                                                          *)
(* The advisory locks are session locks: a process that dies loses its      *)
(* connection, hence its locks and its open transaction.                    *)
(****************************************************************************)
EXTENDS Naturals, FiniteSets, Sequences

CONSTANTS
  Repliques,
  Versions,     \* the numbers of the migrations: 1..n
  Contenus,     \* what a migration file may hold
  Emails,
  Rien,
  Invalide,     \* BOOTSTRAP_ADMIN_* that resolveBootstrapConfig refuses
  SansJeton,    \* an environment without a METRICS_TOKEN of 32 characters
  Images,       \* image -> version -> content, or Rien when it has no such file
  Deploiements, \* the assignments of images to replicas considered
  Proteges,     \* the deployments whose APP_ENV is PPD or PROD
  Configs,      \* replica -> BOOTSTRAP_ADMIN_EMAIL, Rien when not configured,
                \* or what is wrong with its environment
  ComptesAvant, \* e-mails of the accounts that exist, none a SUPER_ADMIN
  MaxPannes     \* bound: deaths of processes and failures of statements

Environnements == Emails \cup {Rien, Invalide, SansJeton}

\* The files are numbered from 1, their contents are not their absence, and the
\* e-mails are those of people.
ASSUME DemarrageAssumption ==
  /\ IsFiniteSet(Versions) /\ Versions = 1..Cardinality(Versions)
  /\ Rien \notin Contenus \cup Repliques \cup Emails
  /\ Rien \notin [contenu: Contenus, succes: BOOLEAN]
  /\ \A d \in Deploiements, r \in Repliques :
       Images[d[r]] \in [Versions -> Contenus \cup {Rien}]
  /\ Configs \subseteq [Repliques -> Environnements]
  /\ {Rien, Invalide, SansJeton} \cap Emails = {} /\ Proteges \subseteq Deploiements
  /\ ComptesAvant \subseteq Emails /\ MaxPannes \in Nat

VARIABLES
  image,        \* replica -> image, for the life of the deployment
  replique,     \* where each process is
  config,       \* the environment of each replica
  verrous,      \* which replica holds each advisory lock
  journal,      \* schema_migrations
  effets,       \* what was committed to the schema, per version, in order
  comptes,      \* e-mails of the accounts
  superAdmins,  \* those of the active SUPER_ADMIN accounts
  pannes,
  fenetres      \* deaths between the COMMIT of a version and its record

vars == <<image, replique, config, verrous, journal, effets, comptes, superAdmins,
          pannes, fenetres>>

Verrous == {"migrations", "amorcage"}
Etapes == {"arret", "migrations", "journal", "fichier", "applique", "echoue",
           "amorcage", "superAdmin", "inserer", "sert"}
Ligne == [contenu: Contenus, succes: BOOLEAN]
Arretee == [etape |-> "arret", lues |-> [v \in Versions |-> Rien], v |-> 0]

TypeOK ==
  /\ replique \in [Repliques -> [etape: Etapes,
                                 lues: [Versions -> Contenus \cup {Rien}],
                                 v: Nat]]
  /\ config \in [Repliques -> Environnements]
  /\ verrous \in [Verrous -> Repliques \cup {Rien}]
  /\ journal \in [Versions -> Ligne \cup {Rien}]
  /\ effets \in [Versions -> Seq(Contenus)]
  /\ comptes \subseteq Emails /\ superAdmins \subseteq comptes
  /\ fenetres \in [Versions -> Nat] /\ pannes \in 0..MaxPannes

fichiers(r) == Images[image[r]]
Protege == image \in Proteges

Init ==
  /\ image \in Deploiements
  /\ replique = [r \in Repliques |-> Arretee]
  /\ config \in Configs
  /\ verrous = [k \in Verrous |-> Rien]
  /\ journal = [v \in Versions |-> Rien]
  /\ effets = [v \in Versions |-> <<>>]
  /\ comptes = ComptesAvant
  /\ superAdmins = {}
  /\ pannes = 0
  /\ fenetres = [v \in Versions |-> 0]

Vers(r, e) == replique' = [replique EXCEPT ![r].etape = e]

base == <<image, journal, effets, comptes, superAdmins, fenetres>>

------------------------------------------------------------------------------
(* The end of a process, whatever the reason, and its restart.               *)

\* Mutant: the locks outlive the run.
verrousGardes(r) == verrous

\* The finally blocks, and the server for a process that died: no lock stays.
sansVerrous(r) == [k \in Verrous |-> IF verrous[k] = r THEN Rien ELSE verrous[k]]

Sortir(r) ==
  /\ replique' = [replique EXCEPT ![r] = Arretee]
  /\ verrous' = sansVerrous(r)

\* start-render.sh, the first time or again; without a METRICS_TOKEN it exits
\* before anything.
Lancer(r) ==
  /\ replique[r].etape = "arret" /\ config[r] # SansJeton
  /\ Vers(r, "migrations")
  /\ UNCHANGED <<config, verrous, base, pannes>>

\* A process killed between two statements: its transaction, if any, is lost.
Mourir(r) ==
  /\ replique[r].etape # "arret"
  /\ pannes < MaxPannes
  /\ pannes' = pannes + 1
  /\ fenetres' = IF replique[r].etape = "applique"
                 THEN [fenetres EXCEPT ![replique[r].v] = @ + 1] ELSE fenetres
  /\ Sortir(r)
  /\ UNCHANGED <<image, config, journal, effets, comptes, superAdmins>>

\* The operator removes BOOTSTRAP_ADMIN_* from a replica's environment, and sets
\* its METRICS_TOKEN.
RetirerConfig(r) ==
  /\ replique[r].etape = "arret" /\ config[r] # Rien
  /\ config' = [config EXCEPT ![r] = Rien]
  /\ UNCHANGED <<replique, verrous, base, pannes>>

------------------------------------------------------------------------------
(* run-migrations.js.                                                        *)

\* Mutant: the lock is taken whoever holds it.
essaiSansVerrou(r, k, suite) ==
  /\ verrous' = [verrous EXCEPT ![k] = r] /\ Vers(r, suite)

\* pg_try_advisory_lock: a run that finds it held fails at once.
essaiVerrou(r, k, suite) ==
  \/ /\ verrous[k] = Rien
     /\ verrous' = [verrous EXCEPT ![k] = r] /\ Vers(r, suite)
  \/ verrous[k] # Rien /\ Sortir(r)

VerrouillerMigrations(r) ==
  /\ replique[r].etape = "migrations"
  /\ essaiVerrou(r, "migrations", "journal")
  /\ UNCHANGED <<config, base, pannes>>

\* SELECT version, checksum FROM schema_migrations WHERE success = TRUE.
lues(v) == IF journal[v] # Rien /\ journal[v].succes THEN journal[v].contenu ELSE Rien

LireJournal(r) ==
  /\ replique[r].etape = "journal"
  /\ replique' = [replique EXCEPT ![r] =
       [etape |-> "fichier", lues |-> [v \in Versions |-> lues(v)], v |-> 1]]
  /\ UNCHANGED <<config, verrous, base, pannes>>

\* Mutant: a file already applied is skipped whatever it holds now.
changeIgnore(r, v) == FALSE

\* The checksum recorded is not that of the file.
change(r, v) == replique[r].lues[v] \notin {Rien, fichiers(r)[v]}

\* The next file: nothing of that number in this image, or already applied.
Sauter(r) ==
  LET v == replique[r].v IN
  /\ replique[r].etape = "fichier" /\ v \in Versions
  /\ \/ fichiers(r)[v] = Rien
     \/ replique[r].lues[v] # Rien /\ ~change(r, v)
  /\ replique' = [replique EXCEPT ![r].v = v + 1]
  /\ UNCHANGED <<config, verrous, base, pannes>>

RefuserChange(r) ==
  LET v == replique[r].v IN
  /\ replique[r].etape = "fichier" /\ v \in Versions
  /\ fichiers(r)[v] # Rien /\ change(r, v)
  /\ Sortir(r)
  /\ UNCHANGED <<config, base, pannes>>

\* BEGIN, the file, COMMIT.
Appliquer(r) ==
  LET v == replique[r].v IN
  /\ replique[r].etape = "fichier" /\ v \in Versions
  /\ fichiers(r)[v] # Rien /\ replique[r].lues[v] = Rien
  /\ effets' = [effets EXCEPT ![v] = Append(@, fichiers(r)[v])]
  /\ Vers(r, "applique")
  /\ UNCHANGED <<image, config, verrous, journal, comptes, superAdmins, pannes, fenetres>>

\* The file fails: ROLLBACK, a record of the failure, and the run stops.
Echouer(r) ==
  LET v == replique[r].v IN
  /\ replique[r].etape = "fichier" /\ v \in Versions
  /\ fichiers(r)[v] # Rien /\ replique[r].lues[v] = Rien
  /\ pannes < MaxPannes
  /\ pannes' = pannes + 1
  /\ Vers(r, "echoue")
  /\ UNCHANGED <<config, verrous, base>>

enregistrer(v, contenu, succes) ==
  journal' = [journal EXCEPT ![v] = [contenu |-> contenu, succes |-> succes]]

EnregistrerEchec(r) ==
  LET v == replique[r].v IN
  /\ replique[r].etape = "echoue"
  /\ enregistrer(v, fichiers(r)[v], FALSE)
  /\ Sortir(r)
  /\ UNCHANGED <<image, config, effets, comptes, superAdmins, pannes, fenetres>>

EnregistrerSucces(r) ==
  LET v == replique[r].v IN
  /\ replique[r].etape = "applique"
  /\ enregistrer(v, fichiers(r)[v], TRUE)
  /\ replique' = [replique EXCEPT ![r].etape = "fichier", ![r].v = v + 1]
  /\ UNCHANGED <<image, config, verrous, effets, comptes, superAdmins, pannes, fenetres>>

FinirMigrations(r) ==
  /\ replique[r].etape = "fichier" /\ replique[r].v \notin Versions
  /\ verrous' = sansVerrous(r)
  /\ Vers(r, "amorcage")
  /\ UNCHANGED <<config, base, pannes>>

------------------------------------------------------------------------------
(* bootstrap-super-admin.js, then the server.                                *)

Servir(r) == Vers(r, "sert") /\ verrous' = sansVerrous(r)

SansAmorcage(r) ==
  /\ replique[r].etape = "amorcage" /\ config[r] = Rien
  /\ Servir(r)
  /\ UNCHANGED <<config, base, pannes>>

\* BOOTSTRAP_ADMIN_* set in part, an invalid e-mail or a weak password.
RefuserConfig(r) ==
  /\ replique[r].etape = "amorcage" /\ config[r] = Invalide
  /\ Sortir(r)
  /\ UNCHANGED <<config, base, pannes>>

VerrouillerAmorcage(r) ==
  /\ replique[r].etape = "amorcage" /\ config[r] \in Emails
  /\ essaiVerrou(r, "amorcage", "superAdmin")
  /\ UNCHANGED <<config, base, pannes>>

\* An active SUPER_ADMIN: nothing to do, or a refusal in PPD and PROD.
LireSuperAdmin(r) ==
  /\ replique[r].etape = "superAdmin"
  /\ \/ superAdmins = {} /\ Vers(r, "inserer") /\ UNCHANGED verrous
     \/ superAdmins # {} /\ Protege /\ Sortir(r)
     \/ superAdmins # {} /\ ~Protege /\ Servir(r)
  /\ UNCHANGED <<config, base, pannes>>

\* After bcrypt.hash: the transaction, which the role or the e-mail may refuse.
Inserer(r) ==
  LET e == config[r]
      refuse == effets[1] = <<>> \/ e \in comptes IN
  /\ replique[r].etape = "inserer"
  /\ \/ refuse /\ Sortir(r) /\ UNCHANGED <<comptes, superAdmins>>
     \/ /\ ~refuse /\ Servir(r)
        /\ comptes' = comptes \cup {e} /\ superAdmins' = superAdmins \cup {e}
  /\ UNCHANGED <<image, config, journal, effets, pannes, fenetres>>

------------------------------------------------------------------------------
\* The steps of a process once it is started.
Marche(r) ==
  \/ VerrouillerMigrations(r) \/ LireJournal(r) \/ Sauter(r)
  \/ RefuserChange(r) \/ Appliquer(r) \/ EnregistrerEchec(r)
  \/ EnregistrerSucces(r) \/ FinirMigrations(r) \/ SansAmorcage(r)
  \/ RefuserConfig(r) \/ VerrouillerAmorcage(r) \/ LireSuperAdmin(r) \/ Inserer(r)

Next == \E r \in Repliques :
  Lancer(r) \/ Marche(r) \/ Mourir(r) \/ Echouer(r) \/ RetirerConfig(r)

\* A started process runs on.  That it is started, or started again, is nowhere
\* promised: Render restarts start-render.sh, compose's migrations service never
\* (restart: "no"), the Kubernetes Job at most twice (backoffLimit: 2).
Spec == Init /\ [][Next]_vars /\ \A r \in Repliques : WF_vars(Marche(r))

------------------------------------------------------------------------------
(* Properties.                                                               *)

Sert(r) == replique[r].etape = "sert"
dernier(s) == s[Len(s)]

\* A replica that serves runs on the schema its own image expects: each of its
\* files was applied, and what was applied last under that number is its own
\* content, whatever other images started, failed or died meanwhile.
SchemaDeLImage ==
  \A r \in Repliques : Sert(r) =>
    \A v \in Versions : fichiers(r)[v] # Rien =>
      effets[v] # <<>> /\ dernier(effets[v]) = fichiers(r)[v]

\* What is done once for the database is done once, whoever starts together: a
\* file runs again only after a process died between its COMMIT and the line of
\* schema_migrations that remembers it (the two are not one transaction), and
\* two deployments with different BOOTSTRAP_ADMIN_EMAIL never make two first
\* super administrators.
UneFoisParBase ==
  /\ \A v \in Versions : Len(effets[v]) <= 1 + fenetres[v]
  /\ Cardinality(superAdmins) <= 1

EnArret(r) == replique[r].etape = "arret"

\* What refuses every start of a replica that does not serve, for as long as it
\* lasts: an edited migration; BOOTSTRAP_ADMIN_* that are invalid, that should
\* have been removed, or whose account cannot be made.
Interdit(r) ==
  /\ ~Sert(r)
  /\ \/ \E v \in Versions : journal[v] # Rien /\ journal[v].succes
                            /\ fichiers(r)[v] \notin {Rien, journal[v].contenu}
     \/ config[r] = Invalide
     \/ config[r] \in Emails /\ superAdmins # {} /\ Protege
     \/ /\ config[r] \in Emails /\ superAdmins = {}
        /\ config[r] \in comptes \/ (fichiers(r)[1] = Rien /\ effets[1] = <<>>)

\* Of each replica: if it is started again whenever it stops, it ends up serving,
\* whatever died before and however the locks were fought over, once no replica
\* is both forbidden to start and still started again.  (One that is refused for
\* ever and restarted for ever takes the migrations' lock at each attempt, and
\* pg_try_advisory_lock does not queue: another may find it held each time.)
DemarrageAboutit ==
  \A r \in Repliques :
    /\ []<>~EnArret(r)
    /\ \A s \in Repliques : <>[](EnArret(s) \/ ~Interdit(s))
    => <>[]Sert(r)
=============================================================================
