-------------------------- MODULE DemarrageProofs --------------------------
(****************************************************************************)
(* For every number of replicas, images and migrations, and whatever dies   *)
(* or fails: a replica that serves has the schema of its image, a file runs *)
(* again only after a death before its record, and two first super          *)
(* administrators are never made.                                           *)
(* The second part is the rate limiter, which the replicas share likewise.  *)
(****************************************************************************)
EXTENDS Demarrage, Limites, FiniteSetTheorems, TLAPS

Etat == [etape: Etapes, lues: [Versions -> Contenus \cup {Rien}], v: Nat]

Typed ==
  /\ image \in Deploiements
  /\ replique \in [Repliques -> Etat]
  /\ verrous \in [Verrous -> Repliques \cup {Rien}]
  /\ journal \in [Versions -> Ligne \cup {Rien}]
  /\ effets \in [Versions -> Seq(Contenus)]
  /\ fenetres \in [Versions -> Nat]

\* Where a replica holds the lock of the migrations, and that of the bootstrap.
Migre(r) == replique[r].etape \in {"journal", "fichier", "applique", "echoue"}
Amorce(r) == replique[r].etape \in {"superAdmin", "inserer"}

Exclusion == \A r \in Repliques :
  /\ Migre(r) <=> verrous["migrations"] = r
  /\ Amorce(r) <=> verrous["amorcage"] = r

\* A success recorded is that of the last content committed.
JournalVrai == \A v \in Versions :
  lues(v) # Rien => effets[v] # <<>> /\ dernier(effets[v]) = lues(v)

\* What a run read under the lock is still so for the files it has not passed.
EnMigration(r) == replique[r].etape \in {"fichier", "applique", "echoue"}
LectureDe(r) ==
  /\ EnMigration(r) => /\ replique[r].v \in 1..(Cardinality(Versions) + 1)
                   /\ \A w \in Versions :
                        replique[r].v <= w => replique[r].lues[w] = lues(w)
  /\ replique[r].etape \in {"applique", "echoue"} =>
       LET v == replique[r].v IN
       /\ v \in Versions /\ fichiers(r)[v] \in Contenus /\ lues(v) = Rien
  /\ replique[r].etape = "applique" =>
       LET v == replique[r].v IN
       effets[v] # <<>> /\ dernier(effets[v]) = fichiers(r)[v]

Lecture == \A r \in Repliques : LectureDe(r)

\* The files a replica has passed are recorded with its own contents.
Passe(r, w) ==
  \/ EnMigration(r) /\ w < replique[r].v
  \/ replique[r].etape \in {"amorcage", "superAdmin", "inserer", "sert"}
Passees == \A r \in Repliques : \A w \in Versions :
  Passe(r, w) /\ fichiers(r)[w] # Rien => lues(w) = fichiers(r)[w]

\* One more commit than deaths, and none more while nothing remembers it.
Applique(v) == \E r \in Repliques : replique[r].etape = "applique" /\ replique[r].v = v
CommitsDe(v) ==
  /\ Len(effets[v]) <= 1 + fenetres[v]
  /\ lues(v) = Rien /\ ~Applique(v) => Len(effets[v]) <= fenetres[v]
Commits == \A v \in Versions : CommitsDe(v)

Premier ==
  /\ superAdmins = {} \/ \E e \in Emails : superAdmins = {e}
  /\ config \in [Repliques -> Environnements]
  /\ \A r \in Repliques : Amorce(r) => config[r] \in Emails
  /\ \A r \in Repliques : replique[r].etape = "inserer" => superAdmins = {}

IInv == Typed /\ Exclusion /\ JournalVrai /\ Lecture /\ Passees /\ Commits /\ Premier

------------------------------------------------------------------------------
(* Constants and lookups.                                                    *)

LEMMA Numeros ==
  /\ Cardinality(Versions) \in Nat
  /\ \A v : v \in Versions <=> v \in 1..Cardinality(Versions)
  BY DemarrageAssumption, FS_CardinalityType

LEMMA FichiersType ==
  ASSUME Typed, NEW r \in Repliques
  PROVE fichiers(r) \in [Versions -> Contenus \cup {Rien}]
  BY DemarrageAssumption DEF Typed, fichiers

LEMMA LuesType ==
  ASSUME Typed, NEW v \in Versions
  PROVE lues(v) \in Contenus \cup {Rien}
  BY DEF Typed, lues, Ligne

LEMMA EtapeEcrite ==
  ASSUME Typed, NEW r \in Repliques, NEW e \in Etapes, Vers(r, e)
  PROVE /\ replique' \in [Repliques -> Etat]
        /\ \A s \in Repliques : s # r => replique'[s] = replique[s]
        /\ replique'[r].etape = e
        /\ replique'[r].lues = replique[r].lues /\ replique'[r].v = replique[r].v
  BY DEF Typed, Vers, Etat

LEMMA VerrousRendus ==
  ASSUME Typed, NEW r \in Repliques, verrous' = sansVerrous(r)
  PROVE /\ verrous' \in [Verrous -> Repliques \cup {Rien}]
        /\ \A k \in Verrous : verrous'[k] = IF verrous[k] = r THEN Rien ELSE verrous[k]
  BY DEF Typed, sansVerrous, Verrous

LEMMA Sorti ==
  ASSUME Typed, NEW r \in Repliques, Sortir(r)
  PROVE /\ replique' \in [Repliques -> Etat]
        /\ \A s \in Repliques : s # r => replique'[s] = replique[s]
        /\ replique'[r].etape = "arret"
        /\ verrous' \in [Verrous -> Repliques \cup {Rien}]
        /\ \A k \in Verrous : verrous'[k] = IF verrous[k] = r THEN Rien ELSE verrous[k]
  <1>1. Arretee \in Etat /\ Arretee.etape = "arret"
    BY DEF Arretee, Etat, Etapes
  <1>2. replique' = [replique EXCEPT ![r] = Arretee]
    BY DEF Sortir
  <1>3. /\ replique' \in [Repliques -> Etat]
        /\ \A s \in Repliques : s # r => replique'[s] = replique[s]
        /\ replique'[r] = Arretee
    BY <1>1, <1>2 DEF Typed
  <1> QED
    BY <1>1, <1>3, VerrousRendus DEF Sortir

LEMMA IInvInit == Init => IInv
  <1> SUFFICES ASSUME Init PROVE IInv
    OBVIOUS
  <1> USE DEF Init
  <1>1. Typed
    BY DemarrageAssumption DEF Typed, Etat, Etapes, Arretee, Verrous
  <1>2. \A r \in Repliques : replique[r].etape = "arret"
    BY DEF Arretee
  <1>3. \A v \in Versions : lues(v) = Rien /\ effets[v] = <<>> /\ fenetres[v] = 0
    BY DEF lues
  <1>4. \A r \in Repliques : verrous["migrations"] # r /\ verrous["amorcage"] # r
    BY DemarrageAssumption DEF Verrous
  <1>5. Exclusion
    BY <1>2, <1>4 DEF Exclusion, Migre, Amorce
  <1>6. JournalVrai /\ Commits
    BY <1>3 DEF JournalVrai, Commits, CommitsDe
  <1>7. Lecture /\ Passees
    BY <1>2 DEF Lecture, LectureDe, EnMigration, Passees, Passe
  <1>8. Premier
    BY <1>2, DemarrageAssumption DEF Premier, Amorce
  <1> QED
    BY <1>1, <1>5, <1>6, <1>7, <1>8 DEF IInv

------------------------------------------------------------------------------
(* One replica moves: what is left to show of it and of the others.          *)

Seule(r) ==
  /\ replique' \in [Repliques -> Etat]
  /\ \A s \in Repliques : s # r => replique'[s] = replique[s]

LEMMA ExclusionRendue ==
  ASSUME Typed, Exclusion, NEW r \in Repliques, Seule(r), ~Migre(r)', ~Amorce(r)',
         \A k \in Verrous : verrous'[k] = IF verrous[k] = r THEN Rien ELSE verrous[k]
  PROVE Exclusion'
  <1> SUFFICES ASSUME NEW s \in Repliques
               PROVE /\ Migre(s)' <=> verrous'["migrations"] = s
                     /\ Amorce(s)' <=> verrous'["amorcage"] = s
    BY DEF Exclusion
  <1>1. s # Rien
    BY DemarrageAssumption
  <1>2. {"migrations", "amorcage"} = Verrous
    BY DEF Verrous
  <1>3. CASE s = r
    BY <1>1, <1>2, <1>3
  <1>4. CASE s # r
    <2>1. (Migre(s)' <=> Migre(s)) /\ (Amorce(s)' <=> Amorce(s))
      BY <1>4 DEF Seule, Migre, Amorce
    <2> QED
      BY <1>1, <1>2, <1>4, <2>1 DEF Exclusion
  <1> QED
    BY <1>3, <1>4

LEMMA ExclusionGardee ==
  ASSUME Typed, Exclusion, NEW r \in Repliques, Seule(r), verrous' = verrous,
         Migre(r)' <=> Migre(r), Amorce(r)' <=> Amorce(r)
  PROVE Exclusion'
  <1> SUFFICES ASSUME NEW s \in Repliques
               PROVE /\ Migre(s)' <=> verrous'["migrations"] = s
                     /\ Amorce(s)' <=> verrous'["amorcage"] = s
    BY DEF Exclusion
  <1>1. (Migre(s)' <=> Migre(s)) /\ (Amorce(s)' <=> Amorce(s))
    <2>1. CASE s = r
      BY <2>1
    <2>2. CASE s # r
      BY <2>2 DEF Seule, Migre, Amorce
    <2> QED
      BY <2>1, <2>2
  <1> QED
    BY <1>1 DEF Exclusion

\* What the moving replica must show of itself.
PasseesDe(r) == \A w \in Versions :
  Passe(r, w) /\ fichiers(r)[w] # Rien => lues(w) = fichiers(r)[w]

LEMMA Bouge ==
  ASSUME IInv, NEW r \in Repliques, Seule(r), UNCHANGED base,
         verrous' \in [Verrous -> Repliques \cup {Rien}], Exclusion',
         config' \in [Repliques -> Environnements],
         \A s \in Repliques : s # r => config'[s] = config[s],
         replique[r].etape # "applique",
         LectureDe(r)', PasseesDe(r)',
         Amorce(r)' => config'[r] \in Emails,
         replique'[r].etape = "inserer" => superAdmins = {}
  PROVE IInv'
  <1>1. /\ image' = image /\ journal' = journal /\ effets' = effets
        /\ superAdmins' = superAdmins /\ fenetres' = fenetres
    BY DEF base
  <1>2. Typed'
    BY <1>1 DEF IInv, Typed, Seule
  <1>3. \A w : lues(w)' = lues(w)
    BY <1>1 DEF lues
  <1>4. \A s : fichiers(s)' = fichiers(s)
    BY <1>1 DEF fichiers
  <1>5. JournalVrai'
    BY <1>1, <1>3 DEF IInv, JournalVrai, dernier
  <1>6. ASSUME NEW s \in Repliques PROVE LectureDe(s)'
    <2>1. CASE s # r
      <3>1. replique'[s] = replique[s]
        BY <2>1 DEF Seule
      <3> QED
        BY <1>1, <1>3, <1>4, <3>1 DEF IInv, Lecture, LectureDe, EnMigration, dernier
    <2> QED
      BY <2>1
  <1>7. ASSUME NEW s \in Repliques PROVE PasseesDe(s)'
    <2>1. CASE s # r
      <3>1. replique'[s] = replique[s]
        BY <2>1 DEF Seule
      <3> QED
        BY <1>3, <1>4, <3>1 DEF IInv, Passees, PasseesDe, Passe, EnMigration
    <2> QED
      BY <2>1
  <1>8. ASSUME NEW v \in Versions PROVE CommitsDe(v)'
    <2>1. Applique(v) => Applique(v)'
      BY DEF Applique, Seule
    <2> QED
      BY <1>1, <1>3, <2>1 DEF IInv, Commits, CommitsDe
  <1>9. Premier'
    <2>1. ASSUME NEW s \in Repliques
          PROVE /\ Amorce(s)' => config'[s] \in Emails
                /\ replique'[s].etape = "inserer" => superAdmins' = {}
      BY <1>1 DEF IInv, Premier, Seule, Amorce
    <2> QED
      BY <1>1, <2>1 DEF IInv, Premier
  <1> QED
    BY <1>2, <1>5, <1>6, <1>7, <1>8, <1>9
    DEF IInv, Lecture, Passees, PasseesDe, Commits

\* A replica that is stopped, or on its way to the migrations, has nothing to show.
LEMMA RienAMontrer ==
  ASSUME NEW r, replique[r].etape \in {"arret", "migrations", "journal"}
  PROVE LectureDe(r) /\ PasseesDe(r)
  BY DEF LectureDe, EnMigration, PasseesDe, Passe

LEMMA SortirStep ==
  ASSUME IInv, NEW r \in Repliques, Sortir(r), UNCHANGED <<config, base>>,
         replique[r].etape # "applique"
  PROVE IInv'
  <1>1. /\ Seule(r) /\ replique'[r].etape = "arret"
        /\ verrous' \in [Verrous -> Repliques \cup {Rien}]
        /\ \A k \in Verrous : verrous'[k] = IF verrous[k] = r THEN Rien ELSE verrous[k]
    BY Sorti DEF IInv, Seule
  <1>2. ~Migre(r)' /\ ~Amorce(r)'
    BY <1>1 DEF Migre, Amorce
  <1>3. Exclusion'
    BY <1>1, <1>2, ExclusionRendue DEF IInv
  <1>4. LectureDe(r)' /\ PasseesDe(r)'
    BY <1>1 DEF LectureDe, EnMigration, PasseesDe, Passe
  <1> QED
    BY <1>1, <1>2, <1>3, <1>4, Bouge DEF IInv, Premier

------------------------------------------------------------------------------
(* The steps that move one replica and write nothing.                        *)

LEMMA LancerStep ==
  ASSUME IInv, NEW r \in Repliques, Lancer(r) PROVE IInv'
  <1>1. Seule(r) /\ replique'[r].etape = "migrations"
    BY EtapeEcrite DEF IInv, Lancer, Seule, Etapes
  <1>2. /\ verrous' = verrous /\ config' = config /\ UNCHANGED base
        /\ replique[r].etape = "arret"
    BY DEF Lancer
  <1>3. Exclusion'
    BY <1>1, <1>2, ExclusionGardee DEF IInv, Migre, Amorce
  <1>4. LectureDe(r)' /\ PasseesDe(r)' /\ ~Amorce(r)'
    BY <1>1 DEF LectureDe, EnMigration, PasseesDe, Passe, Amorce
  <1> QED
    BY <1>1, <1>2, <1>3, <1>4, Bouge DEF IInv, Premier, Typed

LEMMA RetirerConfigStep ==
  ASSUME IInv, NEW r \in Repliques, RetirerConfig(r) PROVE IInv'
  <1>1. /\ verrous' = verrous /\ replique' = replique /\ UNCHANGED base
        /\ replique[r].etape = "arret" /\ config' = [config EXCEPT ![r] = Rien]
    BY DEF RetirerConfig
  <1>2. Seule(r) /\ Exclusion'
    BY <1>1 DEF IInv, Typed, Seule, Exclusion, Migre, Amorce
  <1>3. LectureDe(r)' /\ PasseesDe(r)' /\ ~Amorce(r)'
    BY <1>1 DEF LectureDe, EnMigration, PasseesDe, Passe, Amorce
  <1>4. /\ config' \in [Repliques -> Environnements]
        /\ \A s \in Repliques : s # r => config'[s] = config[s]
    BY <1>1 DEF IInv, Premier, Environnements
  <1> QED
    BY <1>1, <1>2, <1>3, <1>4, Bouge DEF IInv, Typed

\* A lock taken while nobody has it.
LEMMA ExclusionPrise ==
  ASSUME Typed, Exclusion, NEW r \in Repliques, Seule(r), NEW k \in Verrous,
         verrous[k] = Rien, verrous' = [verrous EXCEPT ![k] = r],
         Migre(r)' <=> k = "migrations", Amorce(r)' <=> k = "amorcage",
         ~Migre(r), ~Amorce(r)
  PROVE Exclusion'
  <1> SUFFICES ASSUME NEW s \in Repliques
               PROVE /\ Migre(s)' <=> verrous'["migrations"] = s
                     /\ Amorce(s)' <=> verrous'["amorcage"] = s
    BY DEF Exclusion
  <1>1. s # Rien /\ r # Rien
    BY DemarrageAssumption
  <1>2. \A j \in Verrous : verrous'[j] = IF j = k THEN r ELSE verrous[j]
    BY DEF Typed
  <1>3. /\ "migrations" \in Verrous /\ "amorcage" \in Verrous
        /\ k = "migrations" \/ k = "amorcage"
    BY DEF Verrous
  <1>4. /\ Migre(r) <=> verrous["migrations"] = r
        /\ Amorce(r) <=> verrous["amorcage"] = r
        /\ Migre(s) <=> verrous["migrations"] = s
        /\ Amorce(s) <=> verrous["amorcage"] = s
    BY DEF Exclusion
  <1>5. CASE s = r
    BY <1>1, <1>2, <1>3, <1>4, <1>5
  <1>6. CASE s # r
    <2>1. (Migre(s)' <=> Migre(s)) /\ (Amorce(s)' <=> Amorce(s))
      BY <1>6 DEF Seule, Migre, Amorce
    <2> QED
      BY <1>1, <1>2, <1>3, <1>4, <1>6, <2>1
  <1> QED
    BY <1>5, <1>6

LEMMA VerrouillerMigrationsStep ==
  ASSUME IInv, NEW r \in Repliques, VerrouillerMigrations(r) PROVE IInv'
  <1>1. /\ replique[r].etape = "migrations" /\ UNCHANGED base /\ config' = config
        /\ essaiVerrou(r, "migrations", "journal")
    BY DEF VerrouillerMigrations
  <1>2. CASE Sortir(r)
    BY <1>1, <1>2, SortirStep
  <1>3. CASE /\ verrous["migrations"] = Rien /\ Vers(r, "journal")
             /\ verrous' = [verrous EXCEPT !["migrations"] = r]
    <2>1. Seule(r) /\ replique'[r].etape = "journal"
      BY <1>3, EtapeEcrite DEF IInv, Seule, Etapes
    <2>2. Exclusion'
      BY <1>1, <1>3, <2>1, ExclusionPrise DEF IInv, Migre, Amorce, Verrous
    <2>3. LectureDe(r)' /\ PasseesDe(r)' /\ ~Amorce(r)'
      BY <2>1 DEF LectureDe, EnMigration, PasseesDe, Passe, Amorce
    <2>4. verrous' \in [Verrous -> Repliques \cup {Rien}]
      BY <1>3 DEF IInv, Typed
    <2> QED
      BY <1>1, <2>1, <2>2, <2>3, <2>4, Bouge DEF IInv, Premier
  <1> QED
    BY <1>1, <1>2, <1>3 DEF essaiVerrou

LEMMA VerrouillerAmorcageStep ==
  ASSUME IInv, NEW r \in Repliques, VerrouillerAmorcage(r) PROVE IInv'
  <1>1. /\ replique[r].etape = "amorcage" /\ UNCHANGED base /\ config' = config
        /\ config[r] \in Emails /\ essaiVerrou(r, "amorcage", "superAdmin")
    BY DEF VerrouillerAmorcage
  <1>2. CASE Sortir(r)
    BY <1>1, <1>2, SortirStep
  <1>3. CASE /\ verrous["amorcage"] = Rien /\ Vers(r, "superAdmin")
             /\ verrous' = [verrous EXCEPT !["amorcage"] = r]
    <2>1. Seule(r) /\ replique'[r].etape = "superAdmin"
      BY <1>3, EtapeEcrite DEF IInv, Seule, Etapes
    <2>2. Exclusion'
      BY <1>1, <1>3, <2>1, ExclusionPrise DEF IInv, Migre, Amorce, Verrous
    <2>3. LectureDe(r)'
      BY <2>1 DEF LectureDe, EnMigration
    <2>4. PasseesDe(r)'
      BY <1>1 DEF IInv, Passees, PasseesDe, Passe, fichiers, lues, base
    <2>5. verrous' \in [Verrous -> Repliques \cup {Rien}]
      BY <1>3 DEF IInv, Typed
    <2>6. config[r] \in Emails
      BY <1>1 DEF IInv, Premier
    <2> QED
      BY <1>1, <2>1, <2>2, <2>3, <2>4, <2>5, <2>6, Bouge DEF IInv, Premier
  <1> QED
    BY <1>1, <1>2, <1>3 DEF essaiVerrou

LEMMA LireJournalStep ==
  ASSUME IInv, NEW r \in Repliques, LireJournal(r) PROVE IInv'
  <1>1. /\ replique[r].etape = "journal" /\ UNCHANGED base
        /\ config' = config /\ verrous' = verrous
    BY DEF LireJournal
  <1> DEFINE lu == [v \in Versions |-> lues(v)]
             e == [etape |-> "fichier", lues |-> lu, v |-> 1]
  <1>2. e \in Etat
    <2>1. lu \in [Versions -> Contenus \cup {Rien}]
      BY LuesType DEF IInv
    <2> HIDE DEF lu
    <2> QED
      BY <2>1 DEF Etat, Etapes
  <1>3. Seule(r) /\ replique'[r] = e
    <2> HIDE DEF e
    <2>1. replique' = [replique EXCEPT ![r] = e]
      BY DEF LireJournal, e
    <2> QED
      BY <1>2, <2>1 DEF IInv, Typed, Seule
  <1>4. replique'[r].etape = "fichier" /\ replique'[r].v = 1
    BY <1>3
  <1>5. \A w \in Versions : replique'[r].lues[w] = lues(w)'
    BY <1>1, <1>3 DEF lues, base
  <1>6. Exclusion'
    BY <1>1, <1>3, <1>4, ExclusionGardee DEF IInv, Migre, Amorce
  <1>7. LectureDe(r)'
    BY <1>4, <1>5, Numeros DEF LectureDe, EnMigration
  <1>8. PasseesDe(r)' /\ ~Amorce(r)'
    BY <1>4, Numeros DEF PasseesDe, Passe, Amorce
  <1> QED
    BY <1>1, <1>3, <1>4, <1>6, <1>7, <1>8, Bouge DEF IInv, Typed, Premier

LEMMA SauterStep ==
  ASSUME IInv, NEW r \in Repliques, Sauter(r) PROVE IInv'
  <1> DEFINE v == replique[r].v
  <1>1. /\ replique[r].etape = "fichier" /\ v \in Versions /\ UNCHANGED base
        /\ config' = config /\ verrous' = verrous
        /\ replique' = [replique EXCEPT ![r].v = v + 1]
        /\ fichiers(r)[v] = Rien \/ (replique[r].lues[v] # Rien /\ ~change(r, v))
    BY DEF Sauter
  <1>2. /\ Seule(r) /\ replique'[r].etape = "fichier" /\ replique'[r].v = v + 1
        /\ replique'[r].lues = replique[r].lues
    <2>1. replique[r] \in Etat
      BY DEF IInv, Typed
    <2>2. v + 1 \in Nat
      BY <2>1 DEF Etat
    <2> DEFINE e == [replique[r] EXCEPT !.v = v + 1]
    <2>3. e \in Etat /\ e.etape = "fichier" /\ e.v = v + 1 /\ e.lues = replique[r].lues
      BY <1>1, <2>1, <2>2 DEF Etat
    <2>4. replique' = [replique EXCEPT ![r] = e]
      BY <1>1
    <2> HIDE DEF e
    <2>5. Seule(r) /\ replique'[r] = e
      BY <2>3, <2>4 DEF IInv, Typed, Seule
    <2> QED
      BY <2>3, <2>5
  <1>3. /\ \A w : lues(w)' = lues(w)
        /\ fichiers(r)' = fichiers(r)
    BY <1>1 DEF lues, fichiers, base
  <1>4. Exclusion'
    BY <1>1, <1>2, ExclusionGardee DEF IInv, Migre, Amorce
  <1>5. v \in 1..Cardinality(Versions) /\ Cardinality(Versions) \in Nat
    BY <1>1, Numeros
  <1>6. \A w \in Versions : v <= w => replique[r].lues[w] = lues(w)
    BY <1>1 DEF IInv, Lecture, LectureDe, EnMigration
  <1>7. LectureDe(r)'
    <2>1. v + 1 \in 1..(Cardinality(Versions) + 1)
      BY <1>5
    <2>2. ASSUME NEW w \in Versions, v + 1 <= w PROVE replique[r].lues[w] = lues(w)
      BY <2>2, <1>5, <1>6, Numeros
    <2> QED
      BY <1>2, <1>3, <2>1, <2>2 DEF LectureDe, EnMigration
  <1>8. fichiers(r)[v] # Rien => lues(v) = fichiers(r)[v]
    BY <1>1, <1>5, <1>6 DEF change
  <1>9. PasseesDe(r)'
    <2> SUFFICES ASSUME NEW w \in Versions, w < v + 1, fichiers(r)[w] # Rien
                 PROVE lues(w) = fichiers(r)[w]
      BY <1>2, <1>3 DEF PasseesDe, Passe
    <2>1. w = v \/ w < v
      BY <1>5, Numeros
    <2> QED
      BY <1>1, <1>8, <2>1 DEF IInv, Passees, Passe, EnMigration
  <1>10. ~Amorce(r)'
    BY <1>2 DEF Amorce
  <1> QED
    BY <1>1, <1>2, <1>4, <1>7, <1>9, <1>10, Bouge DEF IInv, Typed, Premier

LEMMA RefuserChangeStep ==
  ASSUME IInv, NEW r \in Repliques, RefuserChange(r) PROVE IInv'
  BY SortirStep DEF RefuserChange

LEMMA EchouerStep ==
  ASSUME IInv, NEW r \in Repliques, Echouer(r) PROVE IInv'
  <1> DEFINE v == replique[r].v
  <1>1. /\ replique[r].etape = "fichier" /\ v \in Versions /\ UNCHANGED base
        /\ config' = config /\ verrous' = verrous /\ Vers(r, "echoue")
        /\ fichiers(r)[v] # Rien /\ replique[r].lues[v] = Rien
    BY DEF Echouer
  <1>2. /\ Seule(r) /\ replique'[r].etape = "echoue" /\ replique'[r].v = v
        /\ replique'[r].lues = replique[r].lues
    BY <1>1, EtapeEcrite DEF IInv, Seule, Etapes
  <1>3. /\ \A w : lues(w)' = lues(w)
        /\ fichiers(r)' = fichiers(r)
    BY <1>1 DEF lues, fichiers, base
  <1>4. Exclusion'
    BY <1>1, <1>2, ExclusionGardee DEF IInv, Migre, Amorce
  <1>5. /\ v \in 1..(Cardinality(Versions) + 1)
        /\ \A w \in Versions : v <= w => replique[r].lues[w] = lues(w)
    BY <1>1 DEF IInv, Lecture, LectureDe, EnMigration
  <1>6. lues(v) = Rien /\ fichiers(r)[v] \in Contenus
    BY <1>1, <1>5, FichiersType, Numeros DEF IInv
  <1>7. LectureDe(r)'
    BY <1>1, <1>2, <1>3, <1>5, <1>6 DEF LectureDe, EnMigration
  <1>8. PasseesDe(r)'
    BY <1>1, <1>2, <1>3 DEF IInv, Passees, PasseesDe, Passe, EnMigration
  <1>9. ~Amorce(r)'
    BY <1>2 DEF Amorce
  <1> QED
    BY <1>1, <1>2, <1>4, <1>7, <1>8, <1>9, Bouge DEF IInv, Typed, Premier

LEMMA FinirMigrationsStep ==
  ASSUME IInv, NEW r \in Repliques, FinirMigrations(r) PROVE IInv'
  <1>1. /\ replique[r].etape = "fichier" /\ replique[r].v \notin Versions
        /\ UNCHANGED base /\ config' = config
        /\ verrous' = sansVerrous(r) /\ Vers(r, "amorcage")
    BY DEF FinirMigrations
  <1>2. Seule(r) /\ replique'[r].etape = "amorcage"
    BY <1>1, EtapeEcrite DEF IInv, Seule, Etapes
  <1>3. /\ \A w : lues(w)' = lues(w)
        /\ fichiers(r)' = fichiers(r)
    BY <1>1 DEF lues, fichiers, base
  <1>4. ~Migre(r)' /\ ~Amorce(r)'
    BY <1>2 DEF Migre, Amorce
  <1>5. Exclusion' /\ verrous' \in [Verrous -> Repliques \cup {Rien}]
    BY <1>1, <1>2, <1>4, ExclusionRendue, VerrousRendus DEF IInv
  <1>6. LectureDe(r)'
    BY <1>2 DEF LectureDe, EnMigration
  <1>7. \A w \in Versions : w < replique[r].v
    <2>1. replique[r].v \in 1..(Cardinality(Versions) + 1)
      BY <1>1 DEF IInv, Lecture, LectureDe, EnMigration
    <2> QED
      BY <1>1, <2>1, Numeros
  <1>8. PasseesDe(r)'
    BY <1>1, <1>3, <1>7 DEF IInv, Passees, PasseesDe, Passe, EnMigration
  <1> QED
    BY <1>1, <1>2, <1>4, <1>5, <1>6, <1>8, Bouge DEF IInv, Premier

LEMMA ServirStep ==
  ASSUME IInv, NEW r \in Repliques, Servir(r), UNCHANGED <<config, base>>,
         replique[r].etape \in {"amorcage", "superAdmin"}
  PROVE IInv'
  <1>1. Seule(r) /\ replique'[r].etape = "sert"
    BY EtapeEcrite DEF IInv, Seule, Etapes, Servir
  <1>2. ~Migre(r)' /\ ~Amorce(r)'
    BY <1>1 DEF Migre, Amorce
  <1>3. Exclusion' /\ verrous' \in [Verrous -> Repliques \cup {Rien}]
    BY <1>1, <1>2, ExclusionRendue, VerrousRendus DEF IInv, Servir
  <1>4. LectureDe(r)'
    BY <1>1 DEF LectureDe, EnMigration
  <1>5. PasseesDe(r)'
    BY DEF IInv, Passees, PasseesDe, Passe, fichiers, lues, base
  <1> QED
    BY <1>1, <1>2, <1>3, <1>4, <1>5, Bouge DEF IInv, Premier

LEMMA SansAmorcageStep ==
  ASSUME IInv, NEW r \in Repliques, SansAmorcage(r) PROVE IInv'
  BY ServirStep DEF SansAmorcage

LEMMA RefuserConfigStep ==
  ASSUME IInv, NEW r \in Repliques, RefuserConfig(r) PROVE IInv'
  BY SortirStep DEF RefuserConfig

LEMMA LireSuperAdminStep ==
  ASSUME IInv, NEW r \in Repliques, LireSuperAdmin(r) PROVE IInv'
  <1>1. replique[r].etape = "superAdmin" /\ UNCHANGED base /\ config' = config
    BY DEF LireSuperAdmin
  <1>2. CASE Sortir(r)
    BY <1>1, <1>2, SortirStep
  <1>3. CASE Servir(r)
    BY <1>1, <1>3, ServirStep
  <1>4. CASE superAdmins = {} /\ Vers(r, "inserer") /\ verrous' = verrous
    <2>1. Seule(r) /\ replique'[r].etape = "inserer"
      BY <1>4, EtapeEcrite DEF IInv, Seule, Etapes
    <2>2. Exclusion'
      BY <1>1, <1>4, <2>1, ExclusionGardee DEF IInv, Migre, Amorce
    <2>3. LectureDe(r)'
      BY <2>1 DEF LectureDe, EnMigration
    <2>4. PasseesDe(r)'
      BY <1>1 DEF IInv, Passees, PasseesDe, Passe, fichiers, lues, base
    <2>5. config[r] \in Emails
      BY <1>1 DEF IInv, Premier, Amorce
    <2> QED
      BY <1>1, <1>4, <2>1, <2>2, <2>3, <2>4, <2>5, Bouge DEF IInv, Typed, Premier
  <1> QED
    BY <1>1, <1>2, <1>3, <1>4 DEF LireSuperAdmin

------------------------------------------------------------------------------
(* The steps that write, and the deaths.                                     *)

LEMMA SeulMigrant ==
  ASSUME Exclusion, NEW r \in Repliques, Migre(r)
  PROVE \A s \in Repliques : s # r => ~Migre(s)
  BY DEF Exclusion

LEMMA ReplicaType ==
  ASSUME Typed, NEW r \in Repliques PROVE replique[r] \in Etat
  BY DEF Typed

LEMMA MourirStep ==
  ASSUME IInv, NEW r \in Repliques, Mourir(r) PROVE IInv'
  <1> DEFINE v == replique[r].v
  <1>1. /\ Sortir(r) /\ image' = image /\ config' = config /\ journal' = journal
        /\ effets' = effets /\ superAdmins' = superAdmins
        /\ fenetres' = IF replique[r].etape = "applique"
                       THEN [fenetres EXCEPT ![v] = @ + 1] ELSE fenetres
    BY DEF Mourir
  <1>2. /\ Seule(r) /\ replique'[r].etape = "arret"
        /\ verrous' \in [Verrous -> Repliques \cup {Rien}]
        /\ \A k \in Verrous : verrous'[k] = IF verrous[k] = r THEN Rien ELSE verrous[k]
    BY <1>1, Sorti DEF IInv, Seule
  <1>3. /\ \A w : lues(w)' = lues(w)
        /\ \A s : fichiers(s)' = fichiers(s)
    BY <1>1 DEF lues, fichiers
  <1>4. replique[r].etape = "applique" => v \in Versions
    BY DEF IInv, Lecture, LectureDe
  <1>5. /\ fenetres' \in [Versions -> Nat]
        /\ \A w \in Versions : fenetres[w] <= fenetres'[w]
        /\ replique[r].etape = "applique" => fenetres'[v] = fenetres[v] + 1
    BY <1>1, <1>4 DEF IInv, Typed
  <1>6. Typed'
    BY <1>1, <1>2, <1>5 DEF IInv, Typed, Seule
  <1>7. Exclusion' /\ ~Amorce(r)'
    BY <1>2, ExclusionRendue DEF IInv, Migre, Amorce
  <1>8. JournalVrai'
    BY <1>1, <1>3 DEF IInv, JournalVrai, dernier
  <1>9. ASSUME NEW s \in Repliques PROVE LectureDe(s)' /\ PasseesDe(s)'
    <2>1. CASE s # r
      <3>1. replique'[s] = replique[s]
        BY <1>2, <2>1 DEF Seule
      <3> QED
        BY <1>1, <1>3, <3>1
        DEF IInv, Lecture, LectureDe, EnMigration, Passees, PasseesDe, Passe, dernier
    <2>2. CASE s = r
      BY <1>2, <2>2 DEF LectureDe, EnMigration, PasseesDe, Passe
    <2> QED
      BY <2>1, <2>2
  <1>10. ASSUME NEW w \in Versions PROVE CommitsDe(w)'
    <2>1. Len(effets[w]) \in Nat /\ fenetres[w] \in Nat /\ fenetres'[w] \in Nat
      BY <1>5 DEF IInv, Typed
    <2>2. CommitsDe(w)
      BY DEF IInv, Commits
    <2>3. CASE Applique(w) /\ ~Applique(w)'
      <3>1. replique[r].etape = "applique" /\ v = w
        BY <1>2, <2>3 DEF Applique, Seule
      <3> QED
        BY <1>1, <1>5, <2>1, <2>2, <3>1 DEF CommitsDe
    <2>4. CASE Applique(w) => Applique(w)'
      BY <1>1, <1>3, <1>5, <2>1, <2>2, <2>4 DEF CommitsDe
    <2> QED
      BY <2>3, <2>4
  <1>11. Premier'
    <2>1. ASSUME NEW s \in Repliques
          PROVE /\ Amorce(s)' => config[s] \in Emails
                /\ replique'[s].etape = "inserer" => superAdmins = {}
      BY <1>2, <1>7 DEF IInv, Premier, Seule, Amorce
    <2> QED
      BY <1>1, <2>1 DEF IInv, Premier
  <1> QED
    BY <1>6, <1>7, <1>8, <1>9, <1>10, <1>11
    DEF IInv, Lecture, Passees, PasseesDe, Commits

LEMMA AppliquerStep ==
  ASSUME IInv, NEW r \in Repliques, Appliquer(r) PROVE IInv'
  <1> DEFINE v == replique[r].v
             c == fichiers(r)[v]
  <1>1. /\ replique[r].etape = "fichier" /\ v \in Versions
        /\ c # Rien /\ replique[r].lues[v] = Rien
        /\ effets' = [effets EXCEPT ![v] = Append(@, c)]
        /\ Vers(r, "applique") /\ image' = image /\ config' = config
        /\ verrous' = verrous /\ journal' = journal
        /\ superAdmins' = superAdmins /\ fenetres' = fenetres
    BY DEF Appliquer
  <1>2. /\ Seule(r) /\ replique'[r].etape = "applique" /\ replique'[r].v = v
        /\ replique'[r].lues = replique[r].lues
    BY <1>1, EtapeEcrite DEF IInv, Seule, Etapes
  <1>3. /\ \A w : lues(w)' = lues(w)
        /\ \A s : fichiers(s)' = fichiers(s)
    BY <1>1 DEF lues, fichiers
  <1>4. /\ v \in 1..(Cardinality(Versions) + 1)
        /\ \A w \in Versions : v <= w => replique[r].lues[w] = lues(w)
    BY <1>1 DEF IInv, Lecture, LectureDe, EnMigration
  <1>5. lues(v) = Rien /\ c \in Contenus
    BY <1>1, <1>4, FichiersType, Numeros DEF IInv
  <1>6. effets[v] \in Seq(Contenus)
    BY <1>1 DEF IInv, Typed
  <1>7. /\ Append(effets[v], c) \in Seq(Contenus)
        /\ Append(effets[v], c) # <<>> /\ dernier(Append(effets[v], c)) = c
        /\ Len(Append(effets[v], c)) = Len(effets[v]) + 1
    BY <1>5, <1>6 DEF dernier
  <1>8. /\ effets' \in [Versions -> Seq(Contenus)]
        /\ \A w \in Versions : w # v => effets'[w] = effets[w]
        /\ effets'[v] = Append(effets[v], c)
    BY <1>1, <1>7 DEF IInv, Typed
  <1>9. Typed'
    BY <1>1, <1>2, <1>8 DEF IInv, Typed, Seule
  <1>10. Exclusion' /\ ~Amorce(r)'
    BY <1>1, <1>2, ExclusionGardee DEF IInv, Migre, Amorce
  <1>11. \A s \in Repliques : s # r => ~Migre(s) /\ replique'[s] = replique[s]
    BY <1>1, <1>2, SeulMigrant DEF IInv, Migre, Seule
  <1>12. JournalVrai'
    <2> SUFFICES ASSUME NEW w \in Versions, lues(w) # Rien
                 PROVE effets'[w] # <<>> /\ dernier(effets'[w]) = lues(w)
      BY <1>3 DEF JournalVrai, dernier
    <2>1. w # v
      BY <1>5
    <2> QED
      BY <1>8, <2>1 DEF IInv, JournalVrai
  <1>13. ASSUME NEW s \in Repliques PROVE LectureDe(s)' /\ PasseesDe(s)'
    <2>1. CASE s # r
      <3>1. ~EnMigration(s)'
        BY <1>11, <2>1 DEF Migre, EnMigration
      <3>2. LectureDe(s)'
        BY <3>1 DEF LectureDe, EnMigration
      <3> QED
        BY <1>3, <1>11, <2>1, <3>1, <3>2 DEF IInv, Passees, PasseesDe, Passe
    <2>2. CASE s = r
      <3>1. LectureDe(r)'
        BY <1>1, <1>2, <1>3, <1>4, <1>5, <1>7, <1>8 DEF LectureDe, EnMigration, dernier
      <3>2. PasseesDe(r)'
        BY <1>1, <1>2, <1>3 DEF IInv, Passees, PasseesDe, Passe, EnMigration
      <3> QED
        BY <2>2, <3>1, <3>2
    <2> QED
      BY <2>1, <2>2
  <1>14. ASSUME NEW w \in Versions PROVE CommitsDe(w)'
    <2>1. CommitsDe(w)
      BY DEF IInv, Commits
    <2>2. CASE w = v
      <3>1. ~Applique(v)
        BY <1>1, <1>11 DEF Applique, Migre
      <3>2. Len(effets[v]) <= fenetres[v]
        BY <1>5, <2>1, <2>2, <3>1 DEF CommitsDe
      <3>3. Applique(w)'
        BY <1>2, <2>2 DEF Applique
      <3>4. Len(effets[v]) \in Nat /\ fenetres[v] \in Nat
        BY <1>1 DEF IInv, Typed
      <3> QED
        BY <1>1, <1>7, <1>8, <2>2, <3>2, <3>3, <3>4 DEF CommitsDe
    <2>3. CASE w # v
      <3>1. Applique(w) => Applique(w)'
        BY <1>1, <1>11 DEF Applique
      <3> QED
        BY <1>1, <1>3, <1>8, <2>1, <2>3, <3>1 DEF CommitsDe
    <2> QED
      BY <2>2, <2>3
  <1>15. Premier'
    <2>1. ASSUME NEW s \in Repliques
          PROVE /\ Amorce(s)' => config[s] \in Emails
                /\ replique'[s].etape = "inserer" => superAdmins = {}
      BY <1>2, <1>10 DEF IInv, Premier, Seule, Amorce
    <2> QED
      BY <1>1, <2>1 DEF IInv, Premier
  <1> QED
    BY <1>9, <1>10, <1>12, <1>13, <1>14, <1>15
    DEF IInv, Lecture, Passees, PasseesDe, Commits

LEMMA EnregistrerEchecStep ==
  ASSUME IInv, NEW r \in Repliques, EnregistrerEchec(r) PROVE IInv'
  <1> DEFINE v == replique[r].v
  <1>1. /\ replique[r].etape = "echoue" /\ Sortir(r) /\ image' = image
        /\ config' = config /\ effets' = effets /\ superAdmins' = superAdmins
        /\ fenetres' = fenetres
        /\ journal' = [journal EXCEPT ![v] =
                         [contenu |-> fichiers(r)[v], succes |-> FALSE]]
    BY DEF EnregistrerEchec, enregistrer
  <1>2. /\ Seule(r) /\ replique'[r].etape = "arret"
        /\ verrous' \in [Verrous -> Repliques \cup {Rien}]
        /\ \A k \in Verrous : verrous'[k] = IF verrous[k] = r THEN Rien ELSE verrous[k]
    BY <1>1, Sorti DEF IInv, Seule
  <1>3. v \in Versions /\ fichiers(r)[v] \in Contenus /\ lues(v) = Rien
    BY <1>1 DEF IInv, Lecture, LectureDe
  <1>4. journal' \in [Versions -> Ligne \cup {Rien}]
    BY <1>1, <1>3 DEF IInv, Typed, Ligne
  <1>5. \A w \in Versions : lues(w)' = lues(w)
    BY <1>1, <1>3 DEF IInv, Typed, lues
  <1>6. \A s : fichiers(s)' = fichiers(s)
    BY <1>1 DEF fichiers
  <1>7. Typed'
    BY <1>1, <1>2, <1>4 DEF IInv, Typed, Seule
  <1>8. Exclusion' /\ ~Amorce(r)'
    BY <1>2, ExclusionRendue DEF IInv, Migre, Amorce
  <1>9. JournalVrai'
    BY <1>1, <1>5 DEF IInv, JournalVrai, dernier
  <1>10. ASSUME NEW s \in Repliques PROVE LectureDe(s)' /\ PasseesDe(s)'
    <2>1. CASE s # r
      <3>1. replique'[s] = replique[s]
        BY <1>2, <2>1 DEF Seule
      <3> QED
        BY <1>1, <1>5, <1>6, <3>1
        DEF IInv, Lecture, LectureDe, EnMigration, Passees, PasseesDe, Passe, dernier
    <2>2. CASE s = r
      BY <1>2, <2>2 DEF LectureDe, EnMigration, PasseesDe, Passe
    <2> QED
      BY <2>1, <2>2
  <1>11. ASSUME NEW w \in Versions PROVE CommitsDe(w)'
    <2>1. Applique(w) => Applique(w)'
      BY <1>1, <1>2 DEF Applique, Seule
    <2> QED
      BY <1>1, <1>5, <2>1 DEF IInv, Commits, CommitsDe
  <1>12. Premier'
    <2>1. ASSUME NEW s \in Repliques
          PROVE /\ Amorce(s)' => config[s] \in Emails
                /\ replique'[s].etape = "inserer" => superAdmins = {}
      BY <1>2, <1>8 DEF IInv, Premier, Seule, Amorce
    <2> QED
      BY <1>1, <2>1 DEF IInv, Premier
  <1> QED
    BY <1>7, <1>8, <1>9, <1>10, <1>11, <1>12
    DEF IInv, Lecture, Passees, PasseesDe, Commits

LEMMA EnregistrerSuccesStep ==
  ASSUME IInv, NEW r \in Repliques, EnregistrerSucces(r) PROVE IInv'
  <1>1. PICK v \in Versions : v = replique[r].v
    BY DEF EnregistrerSucces, IInv, Lecture, LectureDe
  <1>2. PICK c \in Contenus : c = fichiers(r)[v]
    BY <1>1 DEF EnregistrerSucces, IInv, Lecture, LectureDe
  <1> DEFINE e == [replique[r] EXCEPT !.etape = "fichier", !.v = v + 1]
  <1>3. /\ replique[r].etape = "applique" /\ image' = image
        /\ config' = config /\ effets' = effets /\ superAdmins' = superAdmins
        /\ fenetres' = fenetres /\ verrous' = verrous
        /\ journal' = [journal EXCEPT ![v] = [contenu |-> c, succes |-> TRUE]]
        /\ replique' = [replique EXCEPT ![r] = e]
    BY <1>1, <1>2 DEF EnregistrerSucces, enregistrer
  <1>4. /\ lues(v) = Rien /\ effets[v] # <<>> /\ dernier(effets[v]) = c
        /\ \A w \in Versions : v <= w => replique[r].lues[w] = lues(w)
    BY <1>1, <1>2, <1>3 DEF IInv, Lecture, LectureDe, EnMigration
  <1>5. v \in 1..Cardinality(Versions) /\ Cardinality(Versions) \in Nat
    BY Numeros
  <1>6. e \in Etat /\ e.etape = "fichier" /\ e.v = v + 1 /\ e.lues = replique[r].lues
    <2>1. replique[r] \in Etat
      BY ReplicaType DEF IInv
    <2> DEFINE f == [replique[r] EXCEPT !.etape = "fichier"]
    <2>2. f \in Etat /\ f.etape = "fichier" /\ f.lues = replique[r].lues
      BY <2>1 DEF Etat, Etapes
    <2>3. e = [f EXCEPT !.v = v + 1]
      OBVIOUS
    <2>4. v + 1 \in Nat
      BY <1>5
    <2> HIDE DEF e, f
    <2> QED
      BY <2>2, <2>3, <2>4 DEF Etat
  <1> HIDE DEF e
  <1>7. Seule(r) /\ replique'[r] = e
    BY <1>3, <1>6 DEF IInv, Typed, Seule
  <1>8. /\ replique'[r].etape = "fichier" /\ replique'[r].v = v + 1
        /\ replique'[r].lues = replique[r].lues
    BY <1>6, <1>7
  <1>9. /\ journal' \in [Versions -> Ligne \cup {Rien}]
        /\ \A w \in Versions : w # v => journal'[w] = journal[w]
        /\ journal'[v] = [contenu |-> c, succes |-> TRUE]
    BY <1>3 DEF IInv, Typed, Ligne
  <1>10. [contenu |-> c, succes |-> TRUE] # Rien /\ c # Rien
    <2>1. [contenu |-> c, succes |-> TRUE] \in [contenu: Contenus, succes: BOOLEAN]
      OBVIOUS
    <2> QED
      BY <2>1, DemarrageAssumption
  <1>11. /\ lues(v)' = c
         /\ \A w \in Versions : w # v => lues(w)' = lues(w)
    BY <1>9, <1>10 DEF lues
  <1>12. \A s : fichiers(s)' = fichiers(s)
    BY <1>3 DEF fichiers
  <1>13. Typed'
    BY <1>3, <1>7, <1>9 DEF IInv, Typed, Seule
  <1>14. Exclusion' /\ ~Amorce(r)'
    BY <1>3, <1>7, <1>8, ExclusionGardee DEF IInv, Migre, Amorce
  <1>15. \A s \in Repliques : s # r => ~Migre(s) /\ replique'[s] = replique[s]
    BY <1>3, <1>7, SeulMigrant DEF IInv, Migre, Seule
  <1>16. JournalVrai'
    <2> SUFFICES ASSUME NEW w \in Versions, lues(w)' # Rien
                 PROVE effets[w] # <<>> /\ dernier(effets[w]) = lues(w)'
      BY <1>3 DEF JournalVrai, dernier
    <2>1. CASE w = v
      BY <1>4, <1>11, <2>1
    <2>2. CASE w # v
      BY <1>11, <2>2 DEF IInv, JournalVrai
    <2> QED
      BY <2>1, <2>2
  <1>17. LectureDe(r)'
    <2>1. v + 1 \in 1..(Cardinality(Versions) + 1)
      BY <1>5
    <2>2. ASSUME NEW w \in Versions, v + 1 <= w PROVE replique[r].lues[w] = lues(w)'
      <3>1. w # v /\ v <= w
        BY <1>5, <2>2, Numeros
      <3> QED
        BY <1>4, <1>11, <3>1
    <2> QED
      BY <1>8, <2>1, <2>2 DEF LectureDe, EnMigration
  <1>18. PasseesDe(r)'
    <2> SUFFICES ASSUME NEW w \in Versions, w < v + 1, fichiers(r)[w] # Rien
                 PROVE lues(w)' = fichiers(r)[w]
      BY <1>8, <1>12 DEF PasseesDe, Passe
    <2>1. CASE w = v
      BY <1>2, <1>11, <2>1
    <2>2. CASE w # v
      <3>1. w < v
        BY <1>5, <2>2, Numeros
      <3> QED
        BY <1>1, <1>3, <1>11, <2>2, <3>1 DEF IInv, Passees, Passe, EnMigration
    <2> QED
      BY <2>1, <2>2
  <1>19. ASSUME NEW s \in Repliques, s # r PROVE LectureDe(s)' /\ PasseesDe(s)'
    <2>1. ~EnMigration(s)' /\ ~EnMigration(s)
      BY <1>15, <1>19 DEF Migre, EnMigration
    <2>2. LectureDe(s)'
      BY <2>1 DEF LectureDe, EnMigration
    <2>3. ASSUME NEW w \in Versions, Passe(s, w)', fichiers(s)[w] # Rien
          PROVE lues(w)' = fichiers(s)[w]
      <3>1. Passe(s, w)
        BY <1>15, <1>19, <2>1, <2>3 DEF Passe
      <3>2. lues(w) = fichiers(s)[w]
        BY <2>3, <3>1 DEF IInv, Passees
      <3> QED
        BY <1>4, <1>11, <2>3, <3>2
    <2> QED
      BY <1>12, <2>2, <2>3 DEF PasseesDe
  <1>20. ASSUME NEW w \in Versions PROVE CommitsDe(w)'
    <2>1. CommitsDe(w)
      BY DEF IInv, Commits
    <2>2. CASE w = v
      BY <1>3, <1>10, <1>11, <2>1, <2>2 DEF CommitsDe
    <2>3. CASE w # v
      <3>1. Applique(w) => Applique(w)'
        BY <1>1, <1>15, <2>3 DEF Applique
      <3> QED
        BY <1>3, <1>11, <2>1, <2>3, <3>1 DEF CommitsDe
    <2> QED
      BY <2>2, <2>3
  <1>21. Premier'
    <2>1. ASSUME NEW s \in Repliques
          PROVE /\ Amorce(s)' => config[s] \in Emails
                /\ replique'[s].etape = "inserer" => superAdmins = {}
      BY <1>7, <1>8, <1>14 DEF IInv, Premier, Seule, Amorce
    <2> QED
      BY <1>3, <2>1 DEF IInv, Premier
  <1> QED
    BY <1>13, <1>14, <1>16, <1>17, <1>18, <1>19, <1>20, <1>21
    DEF IInv, Lecture, Passees, PasseesDe, Commits

LEMMA InsererStep ==
  ASSUME IInv, NEW r \in Repliques, Inserer(r) PROVE IInv'
  <1>1. /\ replique[r].etape = "inserer" /\ UNCHANGED <<image, config, journal, effets, fenetres>>
    BY DEF Inserer
  <1>2. CASE Sortir(r) /\ UNCHANGED <<comptes, superAdmins>>
    BY <1>1, <1>2, SortirStep DEF base
  <1>3. CASE Servir(r) /\ superAdmins' = superAdmins \cup {config[r]}
    <2>1. Seule(r) /\ replique'[r].etape = "sert"
      BY <1>3, EtapeEcrite DEF IInv, Seule, Etapes, Servir
    <2>2. ~Migre(r)' /\ ~Amorce(r)'
      BY <2>1 DEF Migre, Amorce
    <2>3. Exclusion' /\ verrous' \in [Verrous -> Repliques \cup {Rien}]
      BY <1>3, <2>1, <2>2, ExclusionRendue, VerrousRendus DEF IInv, Servir
    <2>4. Typed'
      BY <1>1, <2>1, <2>3 DEF IInv, Typed, Seule
    <2>5. /\ \A w : lues(w)' = lues(w)
          /\ \A s : fichiers(s)' = fichiers(s)
      BY <1>1 DEF lues, fichiers
    <2>6. JournalVrai'
      BY <1>1, <2>5 DEF IInv, JournalVrai, dernier
    <2>7. ASSUME NEW s \in Repliques PROVE LectureDe(s)' /\ PasseesDe(s)'
      <3>1. CASE s # r
        <4>1. replique'[s] = replique[s]
          BY <2>1, <3>1 DEF Seule
        <4> QED
          BY <1>1, <2>5, <4>1
          DEF IInv, Lecture, LectureDe, EnMigration, Passees, PasseesDe, Passe, dernier
      <3>2. CASE s = r
        <4>1. LectureDe(r)'
          BY <2>1 DEF LectureDe, EnMigration
        <4>2. PasseesDe(r)'
          BY <1>1, <2>5 DEF IInv, Passees, PasseesDe, Passe
        <4> QED
          BY <3>2, <4>1, <4>2
      <3> QED
        BY <3>1, <3>2
    <2>8. ASSUME NEW w \in Versions PROVE CommitsDe(w)'
      <3>1. Applique(w) => Applique(w)'
        BY <1>1, <2>1 DEF Applique, Seule
      <3> QED
        BY <1>1, <2>5, <3>1 DEF IInv, Commits, CommitsDe
    <2>9. Premier'
      <3>1. superAdmins = {} /\ config[r] \in Emails
        BY <1>1 DEF IInv, Premier, Amorce
      <3>2. superAdmins' = {config[r]}
        BY <1>3, <3>1
      <3>3. ASSUME NEW s \in Repliques
            PROVE /\ Amorce(s)' => config[s] \in Emails
                  /\ replique'[s].etape # "inserer"
        <4>1. CASE s = r
          BY <2>1, <4>1 DEF Amorce
        <4>2. CASE s # r
          <5>1. ~Amorce(s) /\ replique'[s] = replique[s]
            BY <1>1, <2>1, <4>2 DEF IInv, Exclusion, Amorce, Seule
          <5> QED
            BY <5>1 DEF Amorce
        <4> QED
          BY <4>1, <4>2
      <3> QED
        BY <1>1, <3>1, <3>2, <3>3 DEF IInv, Premier
    <2> QED
      BY <2>3, <2>4, <2>6, <2>7, <2>8, <2>9
      DEF IInv, Lecture, Passees, PasseesDe, Commits
  <1> QED
    BY <1>1, <1>2, <1>3 DEF Inserer

------------------------------------------------------------------------------
LEMMA IInvStep == IInv /\ [Next]_vars => IInv'
  <1> SUFFICES ASSUME IInv, [Next]_vars PROVE IInv'
    OBVIOUS
  <1>1. CASE UNCHANGED vars
    BY <1>1 DEF vars, IInv, Typed, Exclusion, Migre, Amorce, JournalVrai, lues, dernier,
       Lecture, LectureDe, EnMigration, fichiers, Passees, Passe, Commits, CommitsDe, Applique,
       Premier
  <1>2. ASSUME NEW r \in Repliques,
               Lancer(r) \/ Marche(r) \/ Mourir(r) \/ Echouer(r) \/ RetirerConfig(r)
        PROVE IInv'
    <2>1. CASE Lancer(r) \/ Mourir(r) \/ Echouer(r) \/ RetirerConfig(r)
      BY <2>1, LancerStep, MourirStep, EchouerStep, RetirerConfigStep
    <2>2. CASE Marche(r)
      BY <2>2, VerrouillerMigrationsStep, LireJournalStep, SauterStep,
         RefuserChangeStep, AppliquerStep, EnregistrerEchecStep, EnregistrerSuccesStep,
         FinirMigrationsStep, SansAmorcageStep,
         RefuserConfigStep, VerrouillerAmorcageStep,
         LireSuperAdminStep, InsererStep DEF Marche
    <2> QED
      BY <1>2, <2>1, <2>2
  <1> QED
    BY <1>1, <1>2 DEF Next

\* The invariant holds in every reachable state: the locks belong to the runs
\* that hold them, schema_migrations tells the truth about the schema, and what
\* a run read of it under the lock stays true of the files it has not reached.
THEOREM Invariant == Spec => []IInv
  BY IInvInit, IInvStep, PTL DEF Spec

\* A replica that serves has the schema of its own image (run-migrations.js).
THEOREM SchemaAttendu == Spec => []SchemaDeLImage
  <1>1. IInv => SchemaDeLImage
    <2> SUFFICES ASSUME IInv, NEW r \in Repliques, Sert(r), NEW v \in Versions,
                        fichiers(r)[v] # Rien
                 PROVE effets[v] # <<>> /\ dernier(effets[v]) = fichiers(r)[v]
      BY DEF SchemaDeLImage
    <2>1. lues(v) = fichiers(r)[v]
      BY DEF IInv, Passees, Passe, Sert
    <2> QED
      BY <2>1 DEF IInv, JournalVrai
  <1> QED
    BY <1>1, Invariant, PTL

\* A file runs again only after a death before its record, and two first super
\* administrators are never made (run-migrations.js, bootstrap-super-admin.js).
THEOREM UneFois == Spec => []UneFoisParBase
  <1>1. IInv => UneFoisParBase
    <2> SUFFICES ASSUME IInv PROVE UneFoisParBase
      OBVIOUS
    <2>1. \A v \in Versions : Len(effets[v]) <= 1 + fenetres[v]
      BY DEF IInv, Commits, CommitsDe
    <2>2. Cardinality(superAdmins) <= 1
      <3>1. CASE superAdmins = {}
        BY <3>1, FS_EmptySet
      <3>2. CASE \E e \in Emails : superAdmins = {e}
        <4>1. Cardinality(superAdmins) = 1
          BY <3>2, FS_Singleton
        <4> QED
          BY <4>1
      <3> QED
        BY <3>1, <3>2 DEF IInv, Premier
    <2> QED
      BY <2>1, <2>2 DEF UneFoisParBase
  <1> QED
    BY <1>1, Invariant, PTL
-----------------------------------------------------------------------------
(* Rate limiting: LimitesSpec, for any number of requests and any limit.   *)

\* The lock is held by one request, which decides and writes.
CleExclusive ==
  /\ \A r, s \in verrouCle : r = s
  /\ \A r \in Requetes : requete[r].etape \in {"decide", "ecrit"} => r \in verrouCle

\* A request read its time in the last MaxAttente ticks, or has answered.
Horloge ==
  \A r \in Requetes :
    /\ EnCours(r) => requete[r].instant <= heure /\ heure <= requete[r].instant + MaxAttente
    /\ requete[r].fin <= heure

\* What a request decides from is still so when it writes.
DecisionDe(r) ==
  LET q == requete[r] IN
  /\ q.etape \in {"decide", "ecrit"} => q.bloque = blocage
  /\ q.etape = "ecrit" =>
       /\ q.bloque <= q.instant
       /\ q.coups = gardes(q) \cup {[de |-> r, expire |-> q.instant + Ttl]}
       /\ q.refus = depasse(q.coups)

Decisions == \A r \in Requetes : DecisionDe(r)

\* The hit of a request admitted is swept only once its window is over.
CompteEncore(s) ==
  \/ requete[s].fin + Ttl <= heure + MaxAttente
  \/ \E h \in coups : h.de = s /\ requete[s].fin + Ttl <= h.expire + MaxAttente

Admise(s) == requete[s].etape = "admise"

CoupsAdmis == \A s \in Requetes : Admise(s) => CompteEncore(s)

\* A hit is that of a request answered since.
Recent(h) ==
  requete[h.de].etape \in Repondues /\ h.expire <= requete[h.de].fin + Ttl

CoupsRecents == IsFiniteSet(coups) /\ \A h \in coups : Recent(h)

\* A block is that of a request answered since, and none was admitted under it.
BlocageJuste ==
  blocage > 0 =>
    /\ \A s \in Requetes : Admise(s) => requete[s].fin + Ttl <= blocage + MaxAttente
    /\ \E s \in Requetes :
         requete[s].etape \in Repondues /\ blocage <= requete[s].fin + Ttl

\* What the rows of the key say of the requests.
RowsInv == CoupsAdmis /\ CoupsRecents /\ BlocageJuste /\ FenetreGlissante

LimitesInv == LimitesTypeOK /\ CleExclusive /\ Horloge /\ Decisions /\ RowsInv

(* The fields of a request.                                                *)
LEMMA ChampsRequete ==
  ASSUME LimitesTypeOK, LimitesAssumption, NEW r \in Requetes
  PROVE  /\ requete[r].etape \in EtapesRequete
         /\ requete[r].instant \in 0 .. MaxHeure
         /\ requete[r].bloque \in Instants
         /\ requete[r].coups \in SUBSET Coup
         /\ requete[r].refus \in BOOLEAN
         /\ requete[r].fin \in 0 .. MaxHeure
         /\ heure \in Nat /\ blocage \in Nat /\ Ttl \in Nat /\ MaxAttente \in Nat
<1>1. requete[r] \in Requete  BY DEF LimitesTypeOK
<1>2. QED  BY <1>1 DEF Requete, LimitesTypeOK, LimitesAssumption, Instants

LEMMA NeuveRequete ==
  ASSUME LimitesAssumption
  PROVE  Neuve \in Requete
<1>1. 0 \in 0 .. MaxHeure /\ 0 \in Instants  BY DEF LimitesAssumption, Instants
<1>2. QED  BY <1>1 DEF Neuve, Requete, EtapesRequete

\* The step changes request r only, into q.
Devient(r, q) == requete' = [requete EXCEPT ![r] = q]

(* What becomes of the requests.                                           *)
LEMMA DevientUne ==
  ASSUME LimitesTypeOK, NEW r \in Requetes, NEW q \in Requete, Devient(r, q)
  PROVE  /\ requete' \in [Requetes -> Requete]
         /\ requete'[r] = q
         /\ \A s \in Requetes : s # r => requete'[s] = requete[s]
BY DEF Devient, LimitesTypeOK

\* A step that writes no row and admits nobody.
SansEcriture ==
  /\ UNCHANGED <<coups, blocage>>
  /\ heure' \in Nat /\ heure <= heure'
  /\ \A s \in Requetes :
       /\ Admise(s)' <=> Admise(s)
       /\ requete[s].etape \in Repondues =>
            requete'[s].etape \in Repondues /\ requete'[s].fin = requete[s].fin

LEMMA SansEcritureRows ==
  ASSUME LimitesTypeOK, LimitesAssumption, RowsInv, SansEcriture
  PROVE  RowsInv'
<1>0. \A s \in Requetes : requete[s].fin \in Nat
  BY ChampsRequete
<1>1. heure \in Nat /\ MaxAttente \in Nat /\ Ttl \in Nat
  BY DEF LimitesTypeOK, LimitesAssumption
<1>2. \A s \in Requetes : Admise(s)' => Admise(s) /\ requete'[s].fin = requete[s].fin
  BY DEF SansEcriture, Admise, Repondues
<1>3. CoupsAdmis'
  <2>1. SUFFICES ASSUME NEW s \in Requetes, Admise(s)'  PROVE CompteEncore(s)'
    BY DEF CoupsAdmis
  <2>2. CompteEncore(s) /\ requete'[s].fin = requete[s].fin
    BY <1>2, <2>1 DEF RowsInv, CoupsAdmis
  <2>3. CASE requete[s].fin + Ttl <= heure + MaxAttente
    <3>1. requete'[s].fin + Ttl <= heure' + MaxAttente
      BY <1>0, <1>1, <2>2, <2>3 DEF SansEcriture
    <3>2. QED  BY <3>1 DEF CompteEncore
  <2>4. CASE \E h \in coups : h.de = s /\ requete[s].fin + Ttl <= h.expire + MaxAttente
    BY <2>2, <2>4 DEF SansEcriture, CompteEncore
  <2>5. QED  BY <2>2, <2>3, <2>4 DEF CompteEncore
<1>4. CoupsRecents'
  <2>1. coups' = coups  BY DEF SansEcriture
  <2>2. coups \subseteq Coup  BY DEF LimitesTypeOK
  <2>3. \A h \in coups : h.de \in Requetes  BY <2>2 DEF Coup
  <2>4. \A h \in coups : Recent(h)'
    BY <2>3 DEF RowsInv, CoupsRecents, Recent, SansEcriture
  <2>5. QED  BY <2>1, <2>4 DEF RowsInv, CoupsRecents
<1>5. BlocageJuste'
  <2>1. blocage' = blocage  BY DEF SansEcriture
  <2>2. SUFFICES ASSUME blocage > 0
                 PROVE  /\ \A s \in Requetes : Admise(s)' => requete'[s].fin + Ttl <= blocage + MaxAttente
                        /\ \E s \in Requetes : requete'[s].etape \in Repondues
                                               /\ blocage <= requete'[s].fin + Ttl
    BY <2>1 DEF BlocageJuste
  <2>3. \A s \in Requetes : Admise(s)' => requete'[s].fin + Ttl <= blocage + MaxAttente
    BY <1>2, <2>2 DEF RowsInv, BlocageJuste
  <2>4. PICK s \in Requetes : requete[s].etape \in Repondues /\ blocage <= requete[s].fin + Ttl
    BY <2>2 DEF RowsInv, BlocageJuste
  <2>5. requete'[s].etape \in Repondues /\ requete'[s].fin = requete[s].fin
    BY <2>4 DEF SansEcriture
  <2>6. QED  BY <2>3, <2>4, <2>5
<1>6. FenetreGlissante'
  <2>1. \A t, f : Admises(t, f)' = Admises(t, f)
    BY <1>2 DEF Admises, SansEcriture, Admise
  <2>2. QED  BY <2>1 DEF RowsInv, FenetreGlissante
<1>7. QED  BY <1>3, <1>4, <1>5, <1>6 DEF RowsInv

(* A request that answers without having written.                          *)
LEMMA RepondreSansEcrire ==
  ASSUME LimitesInv, LimitesAssumption, NEW r \in Requetes, EnCours(r),
         NEW e \in {"refusee", "ouverte"}, Repondre(r, e),
         UNCHANGED <<heure, coups, blocage>>
  PROVE  LimitesInv'
<1> DEFINE q == [Neuve EXCEPT !.etape = e, !.fin = heure]
<1>0. LimitesTypeOK /\ CleExclusive /\ Horloge /\ Decisions /\ RowsInv  BY DEF LimitesInv
<1>1. /\ q \in Requete
      /\ q.etape = e /\ q.fin = heure
  BY <1>0, NeuveRequete DEF Requete, EtapesRequete, Repondues, LimitesTypeOK
<1>2. Devient(r, q)  BY DEF Repondre, Devient
<1> HIDE DEF q
<1>3. /\ requete' \in [Requetes -> Requete]
      /\ requete'[r] = q
      /\ \A s \in Requetes : s # r => requete'[s] = requete[s]
  BY <1>0, <1>1, <1>2, DevientUne
<1>4. verrouCle' = verrouCle \ {r}  BY DEF Repondre
<1>5. LimitesTypeOK'  BY <1>0, <1>3, <1>4 DEF LimitesTypeOK, Coup
<1>6. CleExclusive'  BY <1>0, <1>1, <1>3, <1>4 DEF CleExclusive
<1>7. Horloge'
  <2>1. q.fin <= heure /\ ~ (q.etape \in {"verrou", "decide", "ecrit"})
    BY <1>0, <1>1 DEF LimitesTypeOK
  <2>2. QED  BY <1>0, <1>3, <2>1 DEF Horloge, EnCours
<1>8. Decisions'
  <2>1. SUFFICES ASSUME NEW s \in Requetes  PROVE DecisionDe(s)'  BY DEF Decisions
  <2>2. CASE s = r  BY <1>1, <1>3, <2>2 DEF DecisionDe
  <2>3. CASE s # r
    BY <1>0, <1>3, <2>3 DEF Decisions, DecisionDe, gardes, depasse
  <2>4. QED  BY <2>2, <2>3
<1>9. SansEcriture
  <2>1. heure' \in Nat /\ heure <= heure'  BY <1>0 DEF LimitesTypeOK
  <2>2. ~ Admise(r) /\ requete[r].etape \notin Repondues /\ q.etape # "admise"
    BY <1>1 DEF EnCours, Admise, Repondues
  <2>3. QED  BY <1>3, <2>1, <2>2 DEF SansEcriture, Admise
<1>10. RowsInv'  BY <1>0, <1>9, SansEcritureRows
<1>11. QED  BY <1>5, <1>6, <1>7, <1>8, <1>10 DEF LimitesInv

(* The clock.                                                              *)
LEMMA TicStep ==
  ASSUME LimitesInv, LimitesAssumption, Tic
  PROVE  LimitesInv'
<1>0. LimitesTypeOK /\ CleExclusive /\ Horloge /\ Decisions /\ RowsInv  BY DEF LimitesInv
<1>1. heure \in Nat /\ MaxHeure \in Nat /\ MaxAttente \in Nat
  BY <1>0 DEF LimitesTypeOK, LimitesAssumption
<1>2. LimitesTypeOK'  BY <1>0, <1>1 DEF LimitesTypeOK, Tic
<1>3. CleExclusive'  BY <1>0 DEF CleExclusive, Tic
<1>4. Horloge'
  <2>1. SUFFICES ASSUME NEW r \in Requetes
                 PROVE  /\ EnCours(r) => /\ requete[r].instant <= heure + 1
                                         /\ heure + 1 <= requete[r].instant + MaxAttente
                        /\ requete[r].fin <= heure + 1
    BY DEF Tic, Horloge, EnCours
  <2>2. requete[r].instant \in Nat /\ requete[r].fin \in Nat
    BY <1>0, ChampsRequete
  <2>3. EnCours(r) => heure < requete[r].instant + MaxAttente  BY DEF Tic
  <2>4. QED  BY <1>0, <1>1, <2>2, <2>3 DEF Horloge
<1>5. Decisions'
  BY <1>0 DEF Decisions, DecisionDe, gardes, depasse, Tic
<1>6. SansEcriture
  BY <1>1 DEF SansEcriture, Tic, Admise
<1>7. RowsInv'  BY <1>0, <1>6, SansEcritureRows
<1>8. QED  BY <1>2, <1>3, <1>4, <1>5, <1>7 DEF LimitesInv

(* BEGIN and the reading of the clock.                                     *)
LEMMA CommencerStep ==
  ASSUME LimitesInv, LimitesAssumption, NEW r \in Requetes, Commencer(r)
  PROVE  LimitesInv'
<1> DEFINE q == [requete[r] EXCEPT !.etape = "verrou", !.instant = heure]
<1>0. LimitesTypeOK /\ CleExclusive /\ Horloge /\ Decisions /\ RowsInv  BY DEF LimitesInv
<1>1. requete[r] \in Requete  BY <1>0 DEF LimitesTypeOK
<1>2. /\ q \in Requete
      /\ q.etape = "verrou" /\ q.instant = heure /\ q.fin = requete[r].fin
  BY <1>0, <1>1 DEF Requete, EtapesRequete, LimitesTypeOK
<1>3. Devient(r, q)  BY <1>0 DEF Commencer, Devient, LimitesTypeOK
<1> HIDE DEF q
<1>4. /\ requete' \in [Requetes -> Requete]
      /\ requete'[r] = q
      /\ \A s \in Requetes : s # r => requete'[s] = requete[s]
  BY <1>0, <1>2, <1>3, DevientUne
<1>5. UNCHANGED <<heure, verrouCle, coups, blocage>>  BY DEF Commencer
<1>6. LimitesTypeOK'  BY <1>0, <1>4, <1>5 DEF LimitesTypeOK, Coup
<1>7. CleExclusive'  BY <1>0, <1>2, <1>4, <1>5 DEF CleExclusive
<1>8. Horloge'
  <2>1. heure \in Nat /\ MaxAttente \in Nat  BY <1>0 DEF LimitesTypeOK, LimitesAssumption
  <2>2. q.instant <= heure /\ heure <= q.instant + MaxAttente /\ q.fin <= heure
    BY <1>0, <1>2, <2>1 DEF Horloge
  <2>3. QED  BY <1>0, <1>4, <1>5, <2>2 DEF Horloge, EnCours
<1>9. Decisions'
  <2>1. SUFFICES ASSUME NEW s \in Requetes  PROVE DecisionDe(s)'  BY DEF Decisions
  <2>2. CASE s = r  BY <1>2, <1>4, <2>2 DEF DecisionDe
  <2>3. CASE s # r
    BY <1>0, <1>4, <1>5, <2>3 DEF Decisions, DecisionDe, gardes, depasse
  <2>4. QED  BY <2>2, <2>3
<1>10. SansEcriture
  <2>1. heure' \in Nat /\ heure <= heure'  BY <1>0, <1>5 DEF LimitesTypeOK
  <2>2. ~ Admise(r) /\ requete[r].etape \notin Repondues /\ q.etape # "admise"
    BY <1>2 DEF Commencer, Admise, Repondues
  <2>3. QED  BY <1>4, <1>5, <2>1, <2>2 DEF SansEcriture, Admise
<1>11. RowsInv'  BY <1>0, <1>10, SansEcritureRows
<1>12. QED  BY <1>6, <1>7, <1>8, <1>9, <1>11 DEF LimitesInv

(* The lock is had, and the block row read.                                *)
LEMMA LireBlocageStep ==
  ASSUME LimitesInv, LimitesAssumption, NEW r \in Requetes, LireBlocage(r)
  PROVE  LimitesInv'
<1> DEFINE q == [requete[r] EXCEPT !.etape = "decide", !.bloque = blocage]
<1>0. LimitesTypeOK /\ CleExclusive /\ Horloge /\ Decisions /\ RowsInv  BY DEF LimitesInv
<1>1. requete[r] \in Requete  BY <1>0 DEF LimitesTypeOK
<1>2. /\ q \in Requete
      /\ q.etape = "decide" /\ q.bloque = blocage
      /\ q.instant = requete[r].instant /\ q.fin = requete[r].fin
  BY <1>0, <1>1 DEF Requete, EtapesRequete, LimitesTypeOK
<1>3. Devient(r, q)  BY <1>0 DEF LireBlocage, Devient, LimitesTypeOK
<1> HIDE DEF q
<1>4. /\ requete' \in [Requetes -> Requete]
      /\ requete'[r] = q
      /\ \A s \in Requetes : s # r => requete'[s] = requete[s]
  BY <1>0, <1>2, <1>3, DevientUne
<1>5. /\ UNCHANGED <<heure, coups, blocage>>
      /\ verrouCle = {} /\ verrouCle' = {r}
  BY DEF LireBlocage, cleLibre
<1>6. LimitesTypeOK'  BY <1>0, <1>4, <1>5 DEF LimitesTypeOK, Coup
<1>7. CleExclusive'  BY <1>0, <1>2, <1>4, <1>5 DEF CleExclusive
<1>8. EnCours(r)  BY DEF LireBlocage, EnCours
<1>9. Horloge'
  BY <1>0, <1>2, <1>4, <1>5, <1>8 DEF Horloge, EnCours
<1>10. Decisions'
  <2>1. SUFFICES ASSUME NEW s \in Requetes  PROVE DecisionDe(s)'  BY DEF Decisions
  <2>2. CASE s = r  BY <1>2, <1>4, <1>5, <2>2 DEF DecisionDe
  <2>3. CASE s # r
    BY <1>0, <1>4, <1>5, <2>3 DEF Decisions, DecisionDe, gardes, depasse
  <2>4. QED  BY <2>2, <2>3
<1>11. SansEcriture
  <2>1. heure' \in Nat /\ heure <= heure'  BY <1>0, <1>5 DEF LimitesTypeOK
  <2>2. ~ Admise(r) /\ requete[r].etape \notin Repondues /\ q.etape # "admise"
    BY <1>2, <1>8 DEF EnCours, Admise, Repondues
  <2>3. QED  BY <1>4, <1>5, <2>1, <2>2 DEF SansEcriture, Admise
<1>12. RowsInv'  BY <1>0, <1>11, SansEcritureRows
<1>13. QED  BY <1>6, <1>7, <1>9, <1>10, <1>12 DEF LimitesInv

(* The sweep, the hit and the count.                                       *)
LEMMA CompterStep ==
  ASSUME LimitesInv, LimitesAssumption, NEW r \in Requetes, Compter(r)
  PROVE  LimitesInv'
<1> DEFINE c == gardes(requete[r]) \cup {[de |-> r, expire |-> requete[r].instant + Ttl]}
           q == [requete[r] EXCEPT !.etape = "ecrit", !.coups = c, !.refus = depasse(c)]
<1>0. LimitesTypeOK /\ CleExclusive /\ Horloge /\ Decisions /\ RowsInv  BY DEF LimitesInv
<1>1. requete[r] \in Requete  BY <1>0 DEF LimitesTypeOK
<1>a. c \in SUBSET Coup
  <2>1. requete[r].instant + Ttl \in Instants
    BY <1>1 DEF Requete, LimitesAssumption, Instants
  <2>2. gardes(requete[r]) \in SUBSET Coup  BY <1>0 DEF gardes, LimitesTypeOK
  <2>3. QED  BY <2>1, <2>2 DEF Coup
<1>b. depasse(c) \in BOOLEAN  BY DEF depasse
<1>3. Devient(r, q)  BY <1>0 DEF Compter, Devient, LimitesTypeOK
<1>c. requete[r].etape = "decide" /\ requete[r].bloque <= requete[r].instant
  BY DEF Compter
<1>d. /\ gardes(q) = gardes(requete[r])
      /\ q.coups = c /\ q.refus = depasse(c)
  BY <1>1 DEF gardes, Requete
<1> HIDE DEF c
<1>2. /\ q \in Requete
      /\ q.etape = "ecrit" /\ q.bloque = requete[r].bloque
      /\ q.instant = requete[r].instant /\ q.fin = requete[r].fin
  BY <1>1, <1>a, <1>b DEF Requete, EtapesRequete
<1>e. q.coups = gardes(q) \cup {[de |-> r, expire |-> q.instant + Ttl]} /\ q.refus = depasse(q.coups)
  BY <1>2, <1>d DEF c
<1> HIDE DEF q
<1>4. /\ requete' \in [Requetes -> Requete]
      /\ requete'[r] = q
      /\ \A s \in Requetes : s # r => requete'[s] = requete[s]
  BY <1>0, <1>2, <1>3, DevientUne
<1>5. UNCHANGED <<heure, verrouCle, coups, blocage>>  BY DEF Compter
<1>6. LimitesTypeOK'  BY <1>0, <1>4, <1>5 DEF LimitesTypeOK, Coup
<1>7. CleExclusive'  BY <1>0, <1>2, <1>4, <1>5, <1>c DEF CleExclusive
<1>8. EnCours(r)  BY <1>c DEF EnCours
<1>9. Horloge'
  BY <1>0, <1>2, <1>4, <1>5, <1>8 DEF Horloge, EnCours
<1>10. Decisions'
  <2>1. SUFFICES ASSUME NEW s \in Requetes  PROVE DecisionDe(s)'  BY DEF Decisions
  <2>2. CASE s = r
    <3>1. q.bloque = blocage  BY <1>0, <1>2, <1>c DEF Decisions, DecisionDe
    <3>2. QED  BY <1>2, <1>4, <1>5, <1>c, <1>e, <2>2, <3>1 DEF DecisionDe, gardes, depasse
  <2>3. CASE s # r
    BY <1>0, <1>4, <1>5, <2>3 DEF Decisions, DecisionDe, gardes, depasse
  <2>4. QED  BY <2>2, <2>3
<1>11. SansEcriture
  <2>1. heure' \in Nat /\ heure <= heure'  BY <1>0, <1>5 DEF LimitesTypeOK
  <2>2. ~ Admise(r) /\ requete[r].etape \notin Repondues /\ q.etape # "admise"
    BY <1>2, <1>c DEF Admise, Repondues
  <2>3. QED  BY <1>4, <1>5, <2>1, <2>2 DEF SansEcriture, Admise
<1>12. RowsInv'  BY <1>0, <1>11, SansEcritureRows
<1>13. QED  BY <1>6, <1>7, <1>9, <1>10, <1>12 DEF LimitesInv

(* Distinct requests have distinct hits, so no more are admitted than hits *)
(* are counted.                                                            *)
LEMMA AutantDeCoups ==
  ASSUME NEW A, NEW C, IsFiniteSet(C), \A s \in A : \E h \in C : h.de = s
  PROVE  Cardinality(A) \in Nat /\ Cardinality(A) <= Cardinality(C)
<1> DEFINE f == [s \in A |-> CHOOSE h \in C : h.de = s]
<1>1. \A s \in A : f[s] \in C /\ f[s].de = s  OBVIOUS
<1>2. f \in [A -> C]  BY <1>1
<1> HIDE DEF f
<1>3. f \in Injection(A, C)  BY <1>1, <1>2 DEF Injection, IsInjective
<1>4. QED  BY <1>3, FS_Injection, FS_CardinalityType

(* COMMIT.                                                                 *)
LEMMA ValiderRows ==
  ASSUME LimitesInv, LimitesAssumption, NEW r \in Requetes, Valider(r),
         NEW e \in Repondues, e = "admise" => ~ requete[r].refus,
         requete'[r].etape = e, requete'[r].fin = heure,
         \A s \in Requetes : s # r => requete'[s] = requete[s]
  PROVE  RowsInv'
<1> DEFINE q == requete[r]
           own == [de |-> r, expire |-> q.instant + Ttl]
<1>0. LimitesTypeOK /\ CleExclusive /\ Horloge /\ Decisions /\ RowsInv  BY DEF LimitesInv
<1>1. /\ \A s \in Requetes : requete[s].fin \in Nat
      /\ q.instant \in Nat /\ q.bloque \in Nat /\ q.refus \in BOOLEAN
      /\ heure \in Nat /\ blocage \in Nat /\ Ttl \in Nat \ {0} /\ MaxAttente \in Nat
      /\ Limite \in Nat \ {0}
  BY <1>0, ChampsRequete DEF Instants, LimitesAssumption
<1>2. q.etape = "ecrit"  BY DEF Valider
<1>3. /\ q.bloque = blocage /\ q.bloque <= q.instant
      /\ q.coups = gardes(q) \cup {own}
      /\ q.refus = (Cardinality(q.coups) > Limite)
  BY <1>0, <1>2 DEF Decisions, DecisionDe, depasse
<1>4. q.instant <= heure /\ heure <= q.instant + MaxAttente
  BY <1>0, <1>2 DEF Horloge, EnCours
<1>5. /\ coups' = q.coups
      /\ blocage' = IF q.refus THEN q.instant + Ttl ELSE IF q.bloque > 0 THEN 0 ELSE blocage
      /\ heure' = heure
  BY DEF Valider
<1>6. gardes(q) \subseteq coups
      /\ (q.bloque = 0 => gardes(q) = {h \in coups : h.expire > q.instant})
      /\ (q.bloque > 0 => gardes(q) = {})
  BY <1>1 DEF gardes
<1>7. \A h \in coups : h.de \in Requetes /\ h.expire \in Nat /\ Recent(h) /\ h.de # r
  <2>1. TAKE h \in coups
  <2>2. h \in Coup  BY <1>0 DEF LimitesTypeOK
  <2>3. h.de \in Requetes /\ h.expire \in Nat  BY <2>2, <1>1 DEF Coup, Instants
  <2>4. Recent(h)  BY <1>0 DEF RowsInv, CoupsRecents
  <2>5. h.de # r  BY <1>2, <2>4 DEF Recent, Repondues
  <2>6. QED  BY <2>3, <2>4, <2>5
<1>8. \A s \in Requetes : s # r => (Admise(s)' <=> Admise(s)) /\ requete'[s].fin = requete[s].fin
  BY DEF Admise
<1>9. Admise(r)' => ~ q.refus  BY DEF Admise
<1>10. own.de = r /\ own.expire = q.instant + Ttl /\ own \in coups'
  BY <1>3, <1>5
<1>11. CoupsAdmis'
  <2>1. SUFFICES ASSUME NEW s \in Requetes, Admise(s)'  PROVE CompteEncore(s)'
    BY DEF CoupsAdmis
  <2>2. CASE s = r
    <3>1. requete'[s].fin + Ttl <= own.expire + MaxAttente
      BY <1>1, <1>4, <1>10, <2>2
    <3>2. QED  BY <1>10, <2>2, <3>1 DEF CompteEncore
  <2>3. CASE s # r
    <3>1. Admise(s) /\ requete'[s].fin = requete[s].fin /\ CompteEncore(s)
      BY <1>0, <1>8, <2>1, <2>3 DEF RowsInv, CoupsAdmis
    <3>2. CASE requete[s].fin + Ttl <= heure + MaxAttente
      BY <1>5, <3>1, <3>2 DEF CompteEncore
    <3>3. CASE q.bloque > 0
      <4>1. requete[s].fin + Ttl <= blocage + MaxAttente
        BY <1>0, <1>3, <3>1, <3>3 DEF RowsInv, BlocageJuste
      <4>2. blocage <= heure  BY <1>1, <1>3, <1>4
      <4>3. requete[s].fin + Ttl <= heure + MaxAttente  BY <1>1, <4>1, <4>2
      <4>4. QED  BY <1>5, <3>1, <4>3 DEF CompteEncore
    <3>4. CASE q.bloque = 0 /\ \E h \in coups : h.de = s /\ requete[s].fin + Ttl <= h.expire + MaxAttente
      <4>1. PICK h \in coups : h.de = s /\ requete[s].fin + Ttl <= h.expire + MaxAttente
        BY <3>4
      <4>2. CASE h.expire > q.instant
        <5>1. h \in coups'  BY <1>3, <1>5, <1>6, <3>4, <4>1, <4>2
        <5>2. QED  BY <3>1, <4>1, <5>1 DEF CompteEncore
      <4>3. CASE ~ (h.expire > q.instant)
        <5>1. h.expire \in Nat  BY <1>7, <4>1
        <5>2. requete[s].fin + Ttl <= heure + MaxAttente
          BY <1>1, <1>4, <4>1, <4>3, <5>1
        <5>3. QED  BY <1>5, <3>1, <5>2 DEF CompteEncore
      <4>4. QED  BY <4>2, <4>3
    <3>5. QED  BY <1>1, <3>1, <3>2, <3>3, <3>4 DEF CompteEncore
  <2>4. QED  BY <2>2, <2>3
<1>12. CoupsRecents'
  <2>1. IsFiniteSet(coups')
    <3>1. IsFiniteSet(gardes(q))  BY <1>0, <1>6, FS_Subset DEF RowsInv, CoupsRecents
    <3>2. coups' = gardes(q) \cup {own}  BY <1>3, <1>5
    <3> HIDE DEF own, q
    <3>3. IsFiniteSet(gardes(q) \cup {own})  BY <3>1, FS_AddElement
    <3>4. QED  BY <3>2, <3>3
  <2>2. ASSUME NEW h \in coups'  PROVE Recent(h)'
    <3>1. CASE h = own
      <4>1. h.de = r /\ h.expire = q.instant + Ttl  BY <3>1
      <4>2. h.expire <= heure + Ttl  BY <1>1, <1>4, <4>1
      <4>3. QED  BY <4>1, <4>2 DEF Recent
    <3>2. CASE h \in coups
      <4>1. h.de \in Requetes /\ h.de # r /\ Recent(h)  BY <1>7, <3>2
      <4>2. requete'[h.de] = requete[h.de]  BY <4>1
      <4>3. QED  BY <4>1, <4>2 DEF Recent
    <3>3. QED  BY <1>3, <1>5, <1>6, <3>1, <3>2
  <2>3. QED  BY <2>1, <2>2 DEF CoupsRecents
<1>13. BlocageJuste'
  <2>1. CASE q.refus
    <3>1. blocage' = q.instant + Ttl  BY <1>5, <2>1
    <3>2. \A s \in Requetes : Admise(s)' => requete'[s].fin + Ttl <= q.instant + Ttl + MaxAttente
      <4>1. SUFFICES ASSUME NEW s \in Requetes, Admise(s)'
                     PROVE  requete'[s].fin + Ttl <= q.instant + Ttl + MaxAttente
        OBVIOUS
      <4>2. s # r  BY <1>9, <2>1, <4>1
      <4>3. requete'[s].fin = requete[s].fin /\ requete[s].fin <= heure
        BY <1>0, <1>8, <4>2 DEF Horloge
      <4>4. QED  BY <1>1, <1>4, <4>3
    <3>3. requete'[r].etape \in Repondues /\ q.instant + Ttl <= requete'[r].fin + Ttl
      BY <1>1, <1>4
    <3>4. QED  BY <3>1, <3>2, <3>3 DEF BlocageJuste
  <2>2. CASE ~ q.refus
    <3>1. blocage' = 0  BY <1>1, <1>3, <1>5, <2>2
    <3>2. QED  BY <3>1 DEF BlocageJuste
  <2>3. QED  BY <2>1, <2>2
<1>14. FenetreGlissante'
  <2>1. SUFFICES ASSUME NEW t \in 0 .. MaxHeure, NEW f \in t .. MaxHeure,
                        f - t + MaxAttente < Ttl
                 PROVE  Cardinality(Admises(t, f)') <= Limite
    BY DEF FenetreGlissante
  <2>2. CASE ~ (Admise(r)' /\ heure \in t .. f)
    <3>1. ~ Admise(r)  BY <1>2 DEF Admise
    <3>2. Admises(t, f)' = Admises(t, f)
      BY <1>8, <2>2, <3>1 DEF Admises, Admise
    <3>3. QED  BY <1>0, <2>1, <3>2 DEF RowsInv, FenetreGlissante
  <2>3. CASE Admise(r)' /\ heure \in t .. f
    <3>1. Cardinality(coups') <= Limite /\ IsFiniteSet(coups') /\ Cardinality(coups') \in Nat
      <4>1. IsFiniteSet(coups')  BY <1>12 DEF CoupsRecents
      <4>2. Cardinality(coups') \in Nat  BY <4>1, FS_CardinalityType
      <4>3. ~ (Cardinality(coups') > Limite)  BY <1>3, <1>5, <1>9, <2>3
      <4>4. QED  BY <1>1, <4>1, <4>2, <4>3
    <3>2. \A s \in Admises(t, f)' : \E h \in coups' : h.de = s
      <4>1. SUFFICES ASSUME NEW s \in Requetes, Admise(s)', requete'[s].fin \in t .. f
                     PROVE  \E h \in coups' : h.de = s
        BY DEF Admises, Admise
      <4>2. CompteEncore(s)'  BY <1>11, <4>1 DEF CoupsAdmis
      <4>3. ~ (requete'[s].fin + Ttl <= heure' + MaxAttente)
        BY <1>1, <1>5, <2>1, <2>3, <4>1
      <4>4. QED  BY <4>2, <4>3 DEF CompteEncore
    <3>3. Cardinality(Admises(t, f)') \in Nat /\ Cardinality(Admises(t, f)') <= Cardinality(coups')
      BY <3>1, <3>2, AutantDeCoups
    <3>4. QED  BY <1>1, <3>1, <3>3
  <2>4. QED  BY <2>2, <2>3
<1>15. QED  BY <1>11, <1>12, <1>13, <1>14 DEF RowsInv

LEMMA ValiderStep ==
  ASSUME LimitesInv, LimitesAssumption, NEW r \in Requetes, Valider(r)
  PROVE  LimitesInv'
<1>0. LimitesTypeOK /\ CleExclusive /\ Horloge /\ Decisions /\ RowsInv  BY DEF LimitesInv
<1>1. PICK e \in Repondues : Repondre(r, e) /\ (e = "admise" => ~ requete[r].refus)
  <2>1. requete[r].refus \in BOOLEAN  BY <1>0, ChampsRequete
  <2>2. CASE Repondre(r, "ouverte")  BY <2>2 DEF Repondues
  <2>3. CASE Repondre(r, IF requete[r].refus THEN "refusee" ELSE "admise")
    <3>1. CASE requete[r].refus
      <4>1. Repondre(r, "refusee")  BY <2>3, <3>1
      <4>2. QED  BY <4>1 DEF Repondues
    <3>2. CASE ~ requete[r].refus
      <4>1. Repondre(r, "admise")  BY <2>3, <3>2
      <4>2. QED  BY <3>2, <4>1 DEF Repondues
    <3>3. QED  BY <3>1, <3>2
  <2>4. QED  BY <2>2, <2>3 DEF Valider
<1> DEFINE q == [Neuve EXCEPT !.etape = e, !.fin = heure]
<1>2. /\ q \in Requete
      /\ q.etape = e /\ q.fin = heure
  BY <1>0, NeuveRequete DEF Requete, EtapesRequete, LimitesTypeOK
<1>3. Devient(r, q)  BY <1>1 DEF Repondre, Devient
<1> HIDE DEF q
<1>4. /\ requete' \in [Requetes -> Requete]
      /\ requete'[r] = q
      /\ \A s \in Requetes : s # r => requete'[s] = requete[s]
  BY <1>0, <1>2, <1>3, DevientUne
<1>5. verrouCle' = verrouCle \ {r} /\ heure' = heure  BY <1>1 DEF Repondre, Valider
<1>6. requete[r].etape = "ecrit"  BY DEF Valider
<1>7. coups' \in SUBSET Coup /\ blocage' \in Instants
  <2>1. /\ requete[r].instant \in 0 .. MaxHeure /\ requete[r].coups \in SUBSET Coup
    BY <1>0, ChampsRequete
  <2>2. requete[r].instant + Ttl \in Instants /\ 0 \in Instants /\ blocage \in Instants
    BY <1>0, <2>1 DEF LimitesTypeOK, LimitesAssumption, Instants
  <2>3. QED  BY <2>1, <2>2 DEF Valider
<1>8. LimitesTypeOK'  BY <1>0, <1>4, <1>5, <1>7 DEF LimitesTypeOK, Coup
<1>9. CleExclusive'  BY <1>0, <1>2, <1>4, <1>5 DEF CleExclusive, Repondues
<1>10. Horloge'
  <2>1. q.fin <= heure /\ ~ (q.etape \in {"verrou", "decide", "ecrit"})
    BY <1>0, <1>2 DEF LimitesTypeOK, Repondues
  <2>2. QED  BY <1>0, <1>4, <1>5, <2>1 DEF Horloge, EnCours
<1>11. Decisions'
  <2>1. SUFFICES ASSUME NEW s \in Requetes  PROVE ~ (requete'[s].etape \in {"decide", "ecrit"})
    BY DEF Decisions, DecisionDe
  <2>2. CASE s = r  BY <1>2, <1>4, <2>2 DEF Repondues
  <2>3. CASE s # r
    <3>1. r \in verrouCle  BY <1>0, <1>6 DEF CleExclusive
    <3>2. ~ (requete[s].etape \in {"decide", "ecrit"})
      BY <1>0, <2>3, <3>1 DEF CleExclusive
    <3>3. QED  BY <1>4, <2>3, <3>2
  <2>4. QED  BY <2>2, <2>3
<1>12. RowsInv'  BY <1>1, <1>2, <1>4, ValiderRows
<1>13. QED  BY <1>8, <1>9, <1>10, <1>11, <1>12 DEF LimitesInv

LEMMA LimitesInvInit ==
  ASSUME LimitesInit, LimitesAssumption
  PROVE  LimitesInv
<1>1. heure = 0 /\ coups = {} /\ blocage = 0 /\ verrouCle = {} /\ requete = [r \in Requetes |-> Neuve]
  BY DEF LimitesInit
<1>2. LimitesTypeOK
  BY <1>1, NeuveRequete, LimitesAssumption DEF LimitesTypeOK, LimitesAssumption, Instants
<1>3. \A r \in Requetes : requete[r].etape = "attend" /\ requete[r].fin = 0
  BY <1>1 DEF Neuve
<1>4. CleExclusive /\ Horloge /\ Decisions
  BY <1>1, <1>3 DEF CleExclusive, Horloge, Decisions, DecisionDe, EnCours
<1>5. CoupsAdmis /\ CoupsRecents /\ BlocageJuste
  BY <1>1, <1>3, FS_EmptySet DEF CoupsAdmis, CoupsRecents, BlocageJuste, Admise
<1>6. FenetreGlissante
  <2>1. \A t, f : Admises(t, f) = {}  BY <1>3 DEF Admises
  <2>2. 0 <= Limite  BY LimitesAssumption DEF LimitesAssumption
  <2>3. QED  BY <2>1, <2>2, FS_EmptySet DEF FenetreGlissante
<1>7. QED  BY <1>2, <1>4, <1>5, <1>6 DEF LimitesInv, RowsInv

LEMMA LimitesInvStep ==
  ASSUME LimitesInv, LimitesAssumption, [LimitesNext]_limitesVars
  PROVE  LimitesInv'
<1>1. CASE UNCHANGED limitesVars
  BY <1>1 DEF limitesVars, LimitesInv, LimitesTypeOK, CleExclusive, Horloge, Decisions,
     DecisionDe, gardes, depasse, EnCours, RowsInv, CoupsAdmis, CompteEncore, CoupsRecents,
     Recent, BlocageJuste, Admise, FenetreGlissante, Admises
<1>2. CASE Tic  BY <1>2, TicStep
<1>3. ASSUME NEW r \in Requetes, Commencer(r) \/ Incrementer(r) \/ LaisserPasser(r)
      PROVE  LimitesInv'
  <2>1. CASE RefuserBloquee(r)
    <3>1. EnCours(r) /\ UNCHANGED <<heure, coups, blocage>>
      BY <2>1 DEF RefuserBloquee, EnCours
    <3>2. QED  BY <2>1, <3>1, RepondreSansEcrire DEF RefuserBloquee
  <2>2. CASE LaisserPasser(r)
    <3>1. EnCours(r) /\ UNCHANGED <<heure, coups, blocage>>  BY <2>2 DEF LaisserPasser
    <3>2. QED  BY <2>2, <3>1, RepondreSansEcrire DEF LaisserPasser
  <2>3. QED
    BY <1>3, <2>1, <2>2, CommencerStep, LireBlocageStep, CompterStep, ValiderStep
    DEF Incrementer
<1>4. QED  BY <1>1, <1>2, <1>3 DEF LimitesNext

(* A refusal is due to a request answered less than Ttl ago.               *)
LEMMA RefusRecent ==
  ASSUME LimitesInv, LimitesAssumption, [LimitesNext]_limitesVars, NEW r \in Requetes
  PROVE  ApresCalme(r)
<1>0. LimitesTypeOK /\ CleExclusive /\ Horloge /\ Decisions /\ RowsInv  BY DEF LimitesInv
<1>1. SUFFICES ASSUME requete[r].etape # "refusee", requete'[r].etape = "refusee"
               PROVE  \E s \in Requetes \ {r} : /\ requete[s].etape \in Repondues
                                                /\ requete[s].fin + Ttl > requete[r].instant
  BY DEF ApresCalme
<1>2. /\ \A s \in Requetes : requete[s].fin \in Nat
      /\ requete[r].instant \in Nat /\ requete[r].bloque \in Nat
      /\ blocage \in Nat /\ Ttl \in Nat /\ Limite \in Nat \ {0}
  BY <1>0, ChampsRequete DEF Instants, LimitesAssumption
<1>3. RefuserBloquee(r) \/ (Valider(r) /\ requete[r].refus)
  <2>1. PICK x \in Requetes : Commencer(x) \/ Incrementer(x) \/ LaisserPasser(x)
    BY <1>1 DEF LimitesNext, limitesVars, Tic
  <2>2. requete \in [Requetes -> Requete]  BY <1>0 DEF LimitesTypeOK
  <2>3. CASE Commencer(x)  BY <1>1, <2>2, <2>3 DEF Commencer
  <2>4. CASE LireBlocage(x)  BY <1>1, <2>2, <2>4 DEF LireBlocage
  <2>5. CASE Compter(x)  BY <1>1, <2>2, <2>5 DEF Compter
  <2>6. CASE LaisserPasser(x)  BY <1>1, <2>2, <2>6 DEF LaisserPasser, Repondre, Neuve
  <2>7. CASE RefuserBloquee(x)
    <3>1. x = r  BY <1>1, <2>2, <2>7 DEF RefuserBloquee, Repondre
    <3>2. QED  BY <2>7, <3>1
  <2>8. CASE Valider(x)
    <3>1. x = r  BY <1>1, <2>2, <2>8 DEF Valider, Repondre
    <3>2. requete[r].refus
      <4>1. SUFFICES ASSUME ~ requete[r].refus  PROVE FALSE  OBVIOUS
      <4>2. Repondre(r, "admise") \/ Repondre(r, "ouverte")  BY <2>8, <3>1, <4>1 DEF Valider
      <4>3. QED  BY <1>1, <2>2, <4>2 DEF Repondre, Neuve
    <3>3. QED  BY <2>8, <3>1, <3>2
  <2>9. QED  BY <2>1, <2>3, <2>4, <2>5, <2>6, <2>7, <2>8 DEF Incrementer
<1>4. CASE RefuserBloquee(r)
  <2>1. requete[r].etape = "decide" /\ requete[r].bloque > requete[r].instant
    BY <1>4 DEF RefuserBloquee
  <2>2. blocage > requete[r].instant  BY <1>0, <2>1 DEF Decisions, DecisionDe
  <2>3. PICK s \in Requetes : requete[s].etape \in Repondues /\ blocage <= requete[s].fin + Ttl
    BY <1>0, <1>2, <2>2 DEF RowsInv, BlocageJuste
  <2>4. s # r  BY <2>1, <2>3 DEF Repondues
  <2>5. requete[s].fin + Ttl > requete[r].instant  BY <1>2, <2>2, <2>3
  <2>6. QED  BY <2>3, <2>4, <2>5
<1>5. CASE Valider(r) /\ requete[r].refus
  <2> DEFINE q == requete[r]
             own == [de |-> r, expire |-> q.instant + Ttl]
  <2>1. q.etape = "ecrit"  BY <1>5 DEF Valider
  <2>2. q.coups = gardes(q) \cup {own} /\ Cardinality(q.coups) > Limite
    BY <1>0, <1>5, <2>1 DEF Decisions, DecisionDe, depasse
  <2>3. gardes(q) # {}
    <3>1. SUFFICES ASSUME gardes(q) = {}  PROVE FALSE  OBVIOUS
    <3>2. q.coups = {own}  BY <2>2, <3>1
    <3> HIDE DEF own, q
    <3>3. Cardinality({own}) = 1  BY FS_Singleton
    <3>4. QED  BY <1>2, <2>2, <3>2, <3>3
  <2>4. PICK h \in coups : h.expire > q.instant
    BY <2>3 DEF gardes
  <2>5. Recent(h) /\ h \in Coup  BY <1>0 DEF RowsInv, CoupsRecents, LimitesTypeOK
  <2>6. h.de \in Requetes /\ h.expire \in Nat
    BY <1>2, <2>5, LimitesAssumption DEF Coup, Instants, LimitesAssumption
  <2>7. h.de # r  BY <2>1, <2>5 DEF Recent, Repondues
  <2>8. requete[h.de].fin + Ttl > q.instant  BY <1>2, <2>4, <2>5, <2>6 DEF Recent
  <2>9. QED  BY <2>5, <2>6, <2>7, <2>8 DEF Recent
<1>6. QED  BY <1>3, <1>4, <1>5

\* The invariant of the limiter: one transaction at a time decides, what it
\* decides from holds until it commits, a request admitted is counted until its
\* window is over, and a block or a hit is due to a request answered since.
THEOREM LimitesInvariant == LimitesSpec => []LimitesInv
  BY LimitesInvInit, LimitesInvStep, LimitesAssumption, PTL DEF LimitesSpec

\* Whatever the replicas and their waits, no window admits more than the limit,
\* and a quiet key is never refused (postgres-throttler-storage.service.ts).
THEOREM LimiteRespectee == LimitesSpec => LimiteTenue
<1>1. LimitesInv /\ LimitesInv' => FenetreGlissante'
  BY DEF LimitesInv, RowsInv
<1>2. LimitesInv /\ [LimitesNext]_limitesVars => \A r \in Requetes : ApresCalme(r)
  BY RefusRecent, LimitesAssumption
<1>3. QED  BY <1>1, <1>2, LimitesInvariant, PTL DEF LimitesSpec, LimiteTenue
=============================================================================
