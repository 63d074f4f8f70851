------------------------------ MODULE Limites ------------------------------
(****************************************************************************)
(* Rate limiting shared by every replica: increment() of                    *)
(* postgres-throttler-storage.service.ts, for one key and one throttler.    *)
(* Each request counts in a transaction of its own, serialised by an        *)
(* advisory lock; the time it compares with was read before it waited for   *)
(* that lock.                                                               *)
(****************************************************************************)
EXTENDS Naturals, FiniteSets

CONSTANTS
  Requetes,
  Limite,      \* limit: requests admitted per window
  Ttl,         \* ttl, also the duration of a block (blockDuration defaults to it)
  MaxAttente,  \* how long a transaction may last, in ticks: no timeout of the
               \* code sets it, and what FenetreGlissante claims depends on it
  MaxHeure     \* bound: the clock

ASSUME LimitesAssumption ==
  Ttl \in Nat \ {0} /\ Limite \in Nat \ {0} /\ MaxAttente \in Nat /\ MaxHeure \in Nat

VARIABLES
  heure,
  requete,     \* the increment() of each request
  verrouCle,   \* pg_advisory_xact_lock on the key: the requests that hold it
  coups,       \* rate_limit_hits: each row, its request and its expires_at
  blocage      \* rate_limit_blocks: block_expires_at, 0 when there is no row

limitesVars == <<heure, requete, verrouCle, coups, blocage>>

Instants == 0..(MaxHeure + Ttl)
Coup == [de: Requetes, expire: Instants]
Repondues == {"admise", "refusee", "ouverte"}
EtapesRequete == {"attend", "verrou", "decide", "ecrit"} \cup Repondues
Requete == [etape: EtapesRequete, instant: 0..MaxHeure, bloque: Instants,
            coups: SUBSET Coup, refus: BOOLEAN, fin: 0..MaxHeure]

LimitesTypeOK ==
  /\ heure \in 0..MaxHeure
  /\ requete \in [Requetes -> Requete]
  /\ verrouCle \subseteq Requetes
  /\ coups \subseteq Coup
  /\ blocage \in Instants

Neuve == [etape |-> "attend", instant |-> 0, bloque |-> 0, coups |-> {},
          refus |-> FALSE, fin |-> 0]

LimitesInit ==
  /\ heure = 0
  /\ requete = [r \in Requetes |-> Neuve]
  /\ verrouCle = {}
  /\ coups = {}
  /\ blocage = 0

EnCours(r) == requete[r].etape \in {"verrou", "decide", "ecrit"}

\* BEGIN, then Date.now(): NOW() of the transaction is the same instant, on one
\* clock for the replicas and the database.
Commencer(r) ==
  /\ requete[r].etape = "attend"
  /\ requete' = [requete EXCEPT ![r].etape = "verrou", ![r].instant = heure]
  /\ UNCHANGED <<heure, verrouCle, coups, blocage>>

\* Mutant: no lock on the key.
cleToujoursLibre == TRUE

cleLibre == verrouCle = {}

\* The lock, then the block row of the key.
LireBlocage(r) ==
  /\ requete[r].etape = "verrou"
  /\ cleLibre
  /\ verrouCle' = verrouCle \cup {r}
  /\ requete' = [requete EXCEPT ![r].etape = "decide", ![r].bloque = blocage]
  /\ UNCHANGED <<heure, coups, blocage>>

Repondre(r, e) ==
  /\ requete' = [requete EXCEPT ![r] =
       [Neuve EXCEPT !.etape = e, !.fin = heure]]
  /\ verrouCle' = verrouCle \ {r}

\* The block still runs: refused, and no hit is added.
RefuserBloquee(r) ==
  /\ requete[r].etape = "decide" /\ requete[r].bloque > requete[r].instant
  /\ Repondre(r, "refusee")
  /\ UNCHANGED <<heure, coups, blocage>>

\* The rows that survive: none after a block that lapsed, else those alive.
gardes(q) == IF q.bloque > 0 THEN {} ELSE {h \in coups : h.expire > q.instant}

depasse(c) == Cardinality(c) > Limite

\* Sweep, insert, count: the transaction's own view of the hits.
Compter(r) ==
  LET q == requete[r]
      c == gardes(q) \cup {[de |-> r, expire |-> q.instant + Ttl]} IN
  /\ q.etape = "decide" /\ q.bloque <= q.instant
  /\ requete' = [requete EXCEPT ![r].etape = "ecrit", ![r].coups = c,
                                ![r].refus = depasse(c)]
  /\ UNCHANGED <<heure, verrouCle, coups, blocage>>

\* COMMIT, and the answer to the guard; where it is lost, the request goes
\* through although its hit is there.
Valider(r) ==
  LET q == requete[r] IN
  /\ q.etape = "ecrit"
  /\ coups' = q.coups
  /\ blocage' = IF q.refus THEN q.instant + Ttl ELSE IF q.bloque > 0 THEN 0 ELSE blocage
  /\ Repondre(r, IF q.refus THEN "refusee" ELSE "admise") \/ Repondre(r, "ouverte")
  /\ UNCHANGED heure

\* Any error of the database: ROLLBACK, and the request goes through uncounted.
LaisserPasser(r) ==
  /\ EnCours(r)
  /\ Repondre(r, "ouverte")
  /\ UNCHANGED <<heure, coups, blocage>>

Tic ==
  /\ heure < MaxHeure
  /\ \A r \in Requetes : EnCours(r) => heure < requete[r].instant + MaxAttente
  /\ heure' = heure + 1
  /\ UNCHANGED <<requete, verrouCle, coups, blocage>>

Incrementer(r) ==
  LireBlocage(r) \/ RefuserBloquee(r) \/ Compter(r) \/ Valider(r)

LimitesNext ==
  \/ Tic
  \/ \E r \in Requetes : Commencer(r) \/ Incrementer(r) \/ LaisserPasser(r)

LimitesSpec == LimitesInit /\ [][LimitesNext]_limitesVars
               /\ WF_limitesVars(\E r \in Requetes : Incrementer(r))

------------------------------------------------------------------------------
(* Properties.                                                               *)

Admises(debut, fin) ==
  {r \in Requetes : requete[r].etape = "admise" /\ requete[r].fin \in debut..fin}

\* Whatever replica counts them, and however long they wait for the lock with
\* a time already read, no window of Ttl - MaxAttente ticks admits more than
\* Limite counted requests.
FenetreGlissante ==
  \A t \in 0..MaxHeure : \A f \in t..MaxHeure :
    f - t + MaxAttente < Ttl => Cardinality(Admises(t, f)) <= Limite

\* A key that stays quiet for a whole window is not refused when it comes back.
ApresCalme(r) ==
  requete[r].etape # "refusee" /\ requete'[r].etape = "refusee" =>
    \E s \in Requetes \ {r} : /\ requete[s].etape \in Repondues
                              /\ requete[s].fin + Ttl > requete[r].instant

\* The limit holds and does not outlive its reason: no window admits too much,
\* and a block and its hits end with the quiet of the key.
LimiteTenue ==
  [][FenetreGlissante' /\ \A r \in Requetes : ApresCalme(r)]_limitesVars
=============================================================================
