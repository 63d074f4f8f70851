# Formal models of FODIP_gestion

FODIP_gestion is the platform of a guarantee and financing fund: SMEs (PME)
submit applications, agents examine and score them, a committee decides, the
Direction pays and collects, partner banks declare what they paid and
collected. This directory holds TLA+ models of its API (`apps/api/src`, NestJS on
PostgreSQL), of the scripts that start it and of the web pages that call it
(`apps/web`, Next.js), the TLC runs that check them and the TLAPS proofs about
them. Paths below are relative to the repository; `api/` stands for
`apps/api/src/` and `web/` for `apps/web/`.

## 1. The system

### Components, their state and their operations

| Component | State | Operations that change it |
|---|---|---|
| Applications (`api/applications`) | `dossiers_financement`, `dossier_statuts_historique` | createDraft, updateOwned, submitOwned |
| Agent instruction (`api/agent-applications`) | the same row: agent, statut | claim, transition (review) |
| Scoring (`api/scoring`) | `scores_dossier`, `scores_details` | save |
| Committee (`api/committee`) | statut, `decisions_comite` | decide |
| Financings (`api/financings`) | `financements`, `echeances`, `decaissements`, `remboursements` | createFromApplication, planDisbursement, executeDisbursement, createRepayment, saveImpact |
| Partner banks (`api/partner`) | the same tables | createDisbursement, createRepayment |
| Idempotency (`api/common/idempotency.service.ts`) | `idempotency_keys` | run |
| Bank reconciliation (`api/reconciliations`) | statement lines and their matches | createEntry, matchEntry |
| Documents (`api/documents`) | `dossier_documents`, objects in S3/MinIO | uploadOwn, verify |
| Programmes (`api/programs`) | `programmes_fodip`, rule versions | proposals, drafts, submit, approve, activate |
| Reminders, WhatsApp (`api/communications`) | dispatches and messages | the batch, sends, webhooks |
| Notifications (`api/notifications`, migration 008) | `notifications` | triggers, markRead |
| Administration (`api/administration`), data rights | users, roles, references | create, update, resets, anonymize |
| Authentication (`api/auth`, `api/users`, `api/common/guards`, `api/common/revocation`) | session versions, TOTP secrets, revoked tokens, delivery tokens | sign-ins, enrolment, revocation, the guards |
| Rate limiting (`api/common/postgres-throttler-storage.service.ts`) | hits and blocks of a key | increment |
| Companies (`api/companies`) | `entreprises.version` | one optimistic update |
| Start of a replica (`apps/api/scripts`) | `schema_migrations`, advisory locks, the first account | migrate, bootstrap |
| Web front end (`web/app`, `web/lib`) | a tab: its page, its requests, its forms | navigation, loads, submissions |
| Analytics, audit read model, health, metrics | none of their own | reads |

### How they interact

Everything goes through PostgreSQL. Several replicas run the same code with no
shared memory; every query runs at READ COMMITTED, either alone
(`DatabaseService.query`: one statement, one transaction) or between BEGIN and
COMMIT on one connection (`DatabaseService.transaction`, which rolls back when
anything throws). What serialises two calls is a row lock (`FOR UPDATE`), an
advisory lock, a conditional `UPDATE ... WHERE statut = ...`, or a unique index. A
service reads first to produce a readable error, then calls the repository, which
must check again: between the two any other call may have committed.

The money handlers of the Direction and of the partner banks write the same
tables from two repositories. `IdempotencyService.run` wraps four of them and
reconciliation's two; the forms of the web pages draw its keys. A dossier goes from
the PME to the agent, to the committee and back, and ends in at most one financing.
Sign-ins and administrators' commands share the account's row; a token carries what
the sign-in read of it, and the guard compares versions at every request. The
front end guards its pages with what `/auth/me` answers, and redirects by itself.

### What is hard here

* two handlers on the same row, in an order no test sets up;
* the service check, stale by the time the transaction locks the row;
* locks taken in different orders by the two repayment handlers (deadlock);
* a failure after the money committed and before the answer is stored;
* an ABA: a status that left and came back between a read and a conditional update;
* sums of doubles compared with exact decimals, schedules and scores rounded at
  every step;
* an object in S3 and a row in PostgreSQL, written one after the other;
* a reminder batch that runs twice at once, is interrupted anywhere, and whose
  outcome is told by webhooks in any order;
* a sign-in of several requests while an administrator rewrites the account;
* replicas of several images that start together and die between two statements;
* lists and figures computed by queries of their own, that must agree with the rows
  and with what the API then accepts;
* answers that come to a page that is gone, or to another account's session.

`PROJECT.json` lists each one under "hazards", at its line.

### What makes each part correct

* Money: no financing is committed beyond its grant, no instalment overpaid, no
  row rewritten; another Direction user executes what one planned; every call is
  answered; what the screens show is what the API would take.
* Idempotency: a payment the user meant moves money once, and a success on screen is
  the payment it was clicked for.
* Dossier: its history is a permitted life without gaps, by one agent; the
  committee decides once on a scored dossier; one financing, of the amount approved;
  a submitted dossier is always in somebody's list, who can open it.
* Schedules and scores: paid back to the centime, on dates that exist; the weighted
  mean, rounded where the code rounds.
* Programmes: what is in force was reviewed, as it is, by another; the catalogue shows
  it; a captured version never changes.
* Documents: the last version of a type is current, a replaced one is frozen, answers
  agree with what is stored, two queries agree on what is missing.
* Reconciliation: one line, one executed operation of the same bank, sign and amount.
* Reminders: a retry follows only failed attempts, the two journals agree, nothing is
  downgraded.
* Accounts and sessions: a super administrator remains; a token opens what the account
  may do now; codes and delivery tokens serve once; a closed session stays closed.
* Start: a serving replica has its own schema; a migration runs once, one first super
  administrator is made; a replica that keeps being started ends up serving, unless it or another one is refused for ever.
* Front end: a portal's page shows itself only to an account the API has confirmed,
  asks for nothing it will be refused, and the redirections end.

## 2. Modules

| Module | What it is |
|---|---|
| `Sommes` | `SUM(col)`: over the rows in their order, or over a set of rows in any order |
| `Ledger` | abstract specification: the money tables, one operation per step |
| `Financings` | the five money handlers, one SQL statement per step, with row locks, stale checks, rollback and deadlock; implements `Ledger` |
| `Portefeuille` | what the Direction, a bank and the dashboards read of the money tables |
| `IdempotencyContract` | abstract specification: what an Idempotency-Key promises |
| `Idempotency` | `run()`, one statement per step, with the failures of each; implements `IdempotencyContract` |
| `Formulaires` | the money forms of the portals in front of `run()`: keys, double clicks, reloads, late answers |
| `Rapprochement` | statement lines and their matches, over the operations of `Ledger` |
| `Parcours` | abstract specification: the life of one application, one operation per step |
| `Dossier` | the same application, from the PME's draft through agent, score and committee to its financing, by overlapping calls that read, check and write; implements `Parcours` |
| `Amortissement` | `buildAmortizationSchedule` and `addMonths`, and a reference definition |
| `Notation` | `calculateScore` and `classifyScore`, and a reference definition |
| `Lectures` | what each actor is shown of the dossier: worklists, screens, buttons, figures, notifications |
| `Programs` | one programme, the versions of its rules, their review, and the dossiers that capture one |
| `Catalogue` | what the PME, the Direction and the proposers read of it, and their buttons |
| `Documents` | the documents of one dossier: concurrent uploads (object and row) and verifications |
| `Pieces` | the checklist of the PME, the agents' queue, and the alert on missing documents |
| `Rappels` | the WhatsApp reminder batch, `sendTemplateToUser`, Meta and its webhooks |
| `Comptes` | the accounts and the administrators' commands, statement by statement |
| `Sessions` | sign-ins, second factor, institutional provider, tokens and guards, composed with `Comptes` |
| `Droits` | permissions of each role, guards of the routes, portals and the calls of their pages |
| `Portail` | the web front end in one tab: login form, shell, loads, redirections |
| `Limites` | rate limiting of one key by any number of replicas |
| `Demarrage` | the start of the replicas: migrations, first administrator, server |
| `MC...` | instances for TLC |
| `...Proofs` | theorems and proofs of the module they are named after and of those that build on it: `FinancingsProofs` also `Ledger`, `Sommes`, `Portefeuille`, `Rapprochement`; `IdempotencyProofs` also `Formulaires`; `DossierProofs` also `Parcours`, `Lectures`, `Amortissement`, `Notation`; `ProgramsProofs` also `Catalogue`; `DocumentsProofs` also `Pieces`; `SessionsProofs` also `Comptes`, `Droits`, `Portail`; `DemarrageProofs` also `Limites` |

Operators whose comment begins with "Mutant" are plausible bugs, each next to
the definition it would replace. They are never used by a specification; the
"mutants" of `PROJECT.json` say which property sees which of them.

### How the state and the actions correspond to the code

**Financings.** A call's `requete` is its request, `pc` its next statement, `lu`
what its transaction read under its lock. `ServiceCheck` is the read in
`financings.service.ts` or `partner.service.ts`; the following actions are the
statements of the repository in order. A write and COMMIT are one step, since
nothing is visible in between. Locks are not a variable: they are the function
`Verrous` of where a transaction stands, and `Demande` is what its next statement
waits for, the FOR KEY SHARE of a foreign key included. `Rollback` is any failure
before COMMIT. `SommesTronquees` are the pairs whose sum as doubles is below the
decimal sum; `calls` leaves it empty.

**Portefeuille, Lectures, Catalogue, Pieces.** Reads write nothing, so they are
operators over the state of the module they extend, one snapshot each; a property
relates them to the rows or to one another in every reachable state (those of
`Portefeuille` in the states where the calls are answered, `AppelsClos`, which have all the rows
there ever are, since a call at work may fail: TLC has less to compute there, and the
theorems have every state). The money
reads depend on CURRENT_DATE (`jour`): the arrears through the instalments of that day or
earlier (`EcheancesPassees`), the partner's list of coming instalments through their order
too, for it ends with `LIMIT 10`; the properties range over the days (`Jours`).
`EcheancesAVenir` is the set of the lists the query may return, since the order leaves
equal dates open, and `AVenirFidele` says what each of them guarantees: it lists only
open instalments to come, and one is missing only from a full list, none of whose rows
is due later.

**Idempotency and Formulaires.** One row per key (`cles`); a call goes claim,
handler, complete, or cleanup when the handler threw, or lookup when the claim found
a row. `Pannes` chooses what may fail: "apresCommit" (between the handler's COMMIT
and the stored answer), "nettoyage" (the DELETE of a failed attempt), "arret" (the
process stops). A complete that fails may have stored the answer all the same, since what
is lost is perhaps only the reply to its UPDATE: the catch then deletes a completed row.
In `Formulaires` a call is one submission of the form: `Soumettre`
sends the key and the amount of the last render, whether or not another is in flight;
`RecevoirOk` empties the field and draws the key again, whichever submission
it answers; `RecevoirPerdu` loses an answer the API may still produce; `Recharger`
opens the page anew. `intention` is the payment the user is after: no variable of the
program, but what "the same payment" means.

**Rapprochement.** `matchEntry` is five steps: the line and the operation are each
locked then checked, and the INSERT, the audit row and COMMIT are one. `overview` is
the page's read, two queries; a page proposes what it read, other callers any pair.

**Dossier.** The PME's handlers are one conditional UPDATE each, hence one action.
A staff call arrives (`Recevoir`), reads and checks (`Read`, and
`IsCommitteeReady` for the extra query of a review), then runs one statement:
`Claim`, `Transition`, `SaveScore`, `Decide` or `CreateFromApplication`, whose
WHERE clause is an operator of its own. `Abandon` is every way of writing
nothing: a refusal, a WHERE that matches no row, a failure. What comes with a decision
of the committee (`Avis`) is the length of its comment, with and without the spaces
around it, and the terms; `ValidateCommitteeDecision` checks them all. A score is one value
there; how it is computed is `Notation`. The order of `decisions` stands for that of
their dates. The columns and the rules of transition are declared in `Parcours`, whose
operations judge the dossier as it is when they take it: `PrendreEnCharge` is what
`Claim` must amount to, `Instruire` a `Transition`, `Noter` a `SaveScore`, `Decider` a
`Decide`, `Financer` a `CreateFromApplication`, and every other step changes nothing.
Where the code checks a row read earlier, the operation is as weak as what is left of the
check: a score on a dossier that has moved on, an approval above an amount lowered
since the dossier was sent back.

**Amortissement, Notation.** Functions over whole numbers: centimes, ten-thousandths of a
percent (the four decimals of the DTO and of the column), points. `roundMoney` is a division rounded half up; the schedule is built
instalment by instalment as the loop does, with the last one taking the rest. They
are compared with definitions that do not follow the code: the capital adds
up, dates exist and follow, a score is the mean on a common denominator.

**Programs.** Every handler locks the row its decision rests on before reading,
so it is one action; only `update` of a proposer reads, unlocked, whether the
rules have been submitted, and is two (`LireProposition`, `UpdateProposition`).
`vise` and `redacteurs` are no columns but history that the properties need: the
content that was approved, and everybody who wrote the draft.

**Documents.** Rows are listed in the order of their COMMITs, so that what a
READ COMMITTED statement sees is a prefix, of length `vu`. The object is stored
before the transaction and removed by the catch, whose delete may fail and is then
swallowed; `Commit` may succeed and its answer be lost; the read that follows is outside
the try, so that its failure answers an error and leaves object and row
(`ObjetsCoherents` says which outcomes leave what). An UPDATE takes its locks in one step. The malware scan and the
signature of the file are one refusal (`Check`).

**Rappels.** One action per awaited statement of `runForDate` and
`sendTemplateToUser`; `Interrupt` may stop a run between any two, since nothing
catches around them. `claim()` is the only arbiter between runs. Meta is external:
`meta[i]` is what it knows of message i, and a webhook reports any event of it,
any number of times, in any order. `du` folds the rules of `listCandidates` (what is
overdue, missing or to come, and midnight) into one bit per reminder that the
world may flip.

**Comptes and Sessions.** A command is `verrouille` (the advisory lock of `update` and
`anonymize`), `lu` (`SELECT ... FOR UPDATE`), `compte` (the count of super
administrators) and the writes. A sign-in (`connexion`) keeps the row it read (`lu`)
across bcrypt, the challenge and the code. A token is what `issue` signs; `Accepte`
is the guard: signature, expiry, `findSessionStateById`, revocation, versions, in one step
and on one clock where the code has the application's and the database's. `codeValide` reads
the clock once; `mfa.service.ts:186-189` reads it twice, and may so record the step after
the one the code was accepted for, which refuses more. Clocks
are steps of their own (`JetonExpire`, `PasSuivant`, `ReferenceTemporaireExpire`).
Hashes, seeds and signatures are values that cannot be guessed.

**Droits and Portail.** `Droits` is a table: what the migrations grant, the guards of
the controllers (`Gardes`: a row is a route with the roles and the permissions its
decorators ask), what each page calls. `Portail` has the tab, its requests
in flight (each with the session cookie it was sent with) and the sessions of the
browser; a navigation of the router keeps the requests, a
`window.location.replace` drops them. An answer whose body the shell cannot read to the
end, because the connection is lost (`CorpsPerdu`) or the page is left (`Naviguer`), is
taken for an account without roles and opens `/`. The portal of a tab whose
sessionStorage is empty is that of the page that referred to it in the code
(`client-api.ts:30-39`); the model has no referrer. `onglet.valide` is the path the shell has
validated, "aucune" before it has.

**Limites.** One request is one transaction: the time is read before the lock
(`Commencer`), the rest under it. `coups` are the rows of `rate_limit_hits` (whose they
are and when they expire), `q.coups` what the transaction itself sees of them after its
sweep and its insert. `Valider` is COMMIT, whose answer may be lost: the request then
goes through although its hit is there. One clock stands for `Date.now()` of every replica and
`NOW()` of the database. `MaxAttente` bounds the time between `Commencer` and COMMIT; it is
a parameter of the property, not a fact of the code: `database.service.ts` sets no
statement timeout. `LaisserPasser` is the other way of failing
open, after a rollback.

**Demarrage.** One action per statement of the two scripts, in the order of
`start-render.sh`. `Mourir` may stop a replica anywhere: its transaction and its session
locks go with its connection. `fenetres` counts deaths between a COMMIT and its record.
`config` is a replica's environment: the account to bootstrap, none, BOOTSTRAP_* that
`resolveBootstrapConfig` refuses, or no METRICS_TOKEN (`Lancer` is then disabled: the
script exits before anything). `Proteges` are the deployments whose APP_ENV is PPD or PROD.
`DemarrageAboutit` is said of each replica, and says no more than is true: a lock
that is tried and not waited for gives nothing to a replica whose attempts all fall while another
one, refused for ever and restarted for ever, holds it (TLC shows it when the
hypothesis on the others is dropped).

## 3. Runs

All runs use small sets of model values; the bounds are in the `.cfg`.

| Run | Module | Distinct states | Shows |
|---|---|---|---|
| `calls` | `MCFinancings` | 347 032 | any two money calls overlap safely, implement `Ledger` and are answered; arrears, balances and lists agree with the rows |
| `claims` | `MCIdempotency` | 752 268 | forms and `run()`: a payment is written once and shown as itself, whatever is clicked twice, lost or stopped; the contract holds |
| `twice` | `MCIdempotency` | until the violation | violation: a failure after the handler's COMMIT lets a retry pay again |
| `dossier_workflow` | `MCDossier` | 845 372 | two overlapping staff calls and a PME that edits implement `Parcours` over a whole life of a dossier, with what every actor is shown of it, its schedule and its score |
| `programs_versions` | `MCPrograms` | 695 008 | two versions, two members of the Direction, two proposers (one is both), two dossiers; the catalogue and the buttons |
| `documents_versions` | `MCDocuments` | 1 228 260 | three uploads of one type and two verifications, with failures everywhere; checklist and alert |
| `rappels_relances` | `MCRappels` | 712 554 | three overlapping runs over one reminder, interruptions, ageing claims, lost answers, webhooks |
| `rapprochement` | `MCRapprochement` | 713 514 | two agents match lines and operations while the ledger goes on |
| `acces` | `MCSessions` | 456 544 | sign-ins and administrators' commands on the same accounts |
| `limites` | `MCLimites` | 179 679 | four requests on one rate-limited key |
| `demarrage` | `MCDemarrage` | 460 414 | three replicas start together and die anywhere; some are forbidden to start |
| `portail` | `MCPortail` | 206 700 | one tab, every role, late answers, other tabs, expired sessions |

`dossier_workflow` also evaluates `NoteDe`, which compares `calculateScore` and its
level with the reference on some two thousand grids of answers.

### Why the bounds are enough to be interesting

* `calls`: two calls are what each race of these handlers needs (a deadlock
  included); every pair of requests over two financings, two banks and two users of the
  Direction is enumerated, the out of scope ones too. Amounts 1 and 2 against ceilings of
  2 and 1 fall short of them, reach them and pass them. Two instalments of 2, due on two days,
  belong to the financing of one bank, and one of 1 to that of the other bank, whose financing
  the first one follows too: money paid on the later instalment hides the earlier one, and one,
  both or none of the banks is in arrears. A list of one line (`Limite = 1`) is full. Three or
  more calls, and the instalment of 0 that a rounded schedule ends with, are covered by the
  proofs.
* `claims`: three keys, four requests, two payments and two amounts: a double click,
  a retry after a lost answer, the next payment of the same amount, an edited amount
  under the old key. `Pannes = {"arret"}`: the process may stop between two
  statements; what happens when a statement fails is `twice` and the proofs.
* `twice`: the same submissions with the failures of `SpecPannes`.
* `dossier_workflow`: `Borne = 7` stops new calls after seven entries of history, the
  length of a life that is sent back once by the committee and decided again. One of
  the agents is a super administrator. Amounts 5 and 101, durations 1 to 36, rates 0,
  12.5 % and 99.9999 %, dates at the end of months: roundings of every sign, schedules whose
  last instalments are 0, February. The decisions come with good terms, a grace period
  that is too long, a reason, three spaces and a reason that is too long.
* `programs_versions`: `MaxVersions = 2`, enough for a version in force and
  its successor; two contents tell an edit from the original.
* `documents_versions`: with three uploads two overlap over a version that is
  already there; two mandatory types, one of them never provided. Every statement and the
  store may fail, the catch's delete and the final read included.
* `rappels_relances`: delays of 1 and 2 and `MaxHorloge = 2` let a claim be
  quarantined and a failure be tried again; three runs, so that a third one can take
  over what a second took from a first. `Pannes` has every failure: the answer of Meta
  lost, an UPDATE inside the try that fails, or whose answer is lost.
* `rapprochement`: two lines of one debit and a credit, a financing of a bank and one
  without; two agents, one on the page, the other calling with any pair; two calls.
* `acces`: two super administrators who are signed in and a PME; two commands and two
  sign-ins in flight, two attempts, two exchanges, two TOTP steps and two keys, of which
  one expiry, step or rotation happens: every pair of commands, and a sign-in
  around any of them. Symmetry permutes calls and sign-ins, which no property names.
* `limites`: limit 2, window 3, waits of at most 1; four requests let a window fill, a
  third be refused and a fourth come after the quiet.
* `demarrage`: an upgrade from one image to another, with or without a third whose
  first file was edited, or the same in PROD; two replicas that would make the first
  administrator, or one whose e-mail is taken, invalid settings, no METRICS_TOKEN; two
  deaths or failures of statements.
* `portail`: every role, an account with two and one with none; two sessions and two
  events that the tab does not decide (a logout, an expiry, another tab, a failure).

TLC stops in states where a bound forbids every action; deadlock is therefore not
checked where bounds stop the system for good (`claims`, `dossier_workflow`, `acces`,
`demarrage`, `limites`, `portail`, `rapprochement`). It is checked in the other runs.

### Fairness

* `calls`: `WF` of `Handler(r)` for each call. Node's event loop runs the
  continuation of every query that PostgreSQL answered, and PostgreSQL grants a lock
  that becomes free and breaks a deadlock after `deadlock_timeout`
  (`DeadlockVictim` is part of `Handler`). Weak fairness is enough because
  calls are finite in number. A failure (`Rollback`) is never assumed to happen, nor
  not to.
* `rapprochement`: `WF` of `matchEntry(a)` for each agent, for the same reason; the two
  rows are always locked in the same order, so that no deadlock has to be broken.
* `demarrage`: `WF` of `Marche(r)` for each replica: a process that was started goes on.
  `Lancer`, `Mourir`, `Echouer` and `RetirerConfig` have no fairness: Render restarts
  `start-render.sh`, but compose's `migrations` service is `restart: "no"` and the Kubernetes
  Job has `backoffLimit: 2`. That a replica is started again is a hypothesis of the
  property, not of the specification.
* `portail`: `WF` of `Automatique`: the servers answer, with some status, and the tab
  handles what it receives. Users and the environment have none.

### Disagreements between the code and what it says

`twice` shows one: the catch of `run()` covers the UPDATE that stores the answer, by
another transaction than the handler's; when it fails the key is deleted and a retry
pays again, although `idempotency.service.ts:23-24` says "every later request with the
same key gets that stored result played back, `handler()` never runs again".

Four definitions state what the repository says and are refuted by TLC when they are
added to the INVARIANTS of the configuration named; no run is kept for them:

* `SoldeePayee` (`Financings`; one instalment with `UneEcheance`, `Accorde80`, `Du80`,
  `Tronquees80` of `MCFinancings`, `Echeances = {e1}`, `Montants = {10, 70}`). `$2 >= montant_total_du`
  (`financings.repository.ts:277`) compares a sum of doubles with a NUMERIC: 0.70 + 0.10
  against 0.80 leaves the instalment PARTIELLEMENT_PAYEE.
  `docs/20-TESTS-ENTREPRISE.md:85`: "`PARTIELLEMENT_PAYEE` après un paiement partiel,
  `PAYEE` seulement une fois soldée".
* `DeuxActeurs` (`Programs`, `MCPrograms_versions.cfg`). Four eyes looks at the last
  editor and the submitter only (`programs.repository.ts:412`): an author approves his
  own draft once another one touched and submitted it.
  `docs/37-ADMINISTRATION-PROGRAMMES.md:71`: "le même utilisateur ne peut pas
  préparer/soumettre puis se valider lui-même".
* `UneSeuleCourante` (`Documents`, `MCDocuments_versions.cfg`). The UPDATE that
  supersedes does not see an uncommitted sibling and no index forbids two current
  versions (`documents.repository.ts:139`, whose comment says "only the (at most one)
  row that was still current a moment ago is touched"). `CourantesSimultanees` states
  what does hold: two current versions were uploaded at the same time.
* `UnSeulEnvoi` (`Rappels`, `MCRappels_relances.cfg`). A timed out request that Meta
  accepted is recorded as refused (`meta-whatsapp.provider.ts:177`) and sent again, against
  the comment at `reminder.service.ts:27-29`.

Others were met while reading and are part of the models, where a property has the
exception or says what does hold:

* *Money.* `vw_financing_performance` subtracts everything paid, also ahead, from what
  is due: a prepaid later instalment hides an overdue one from the alert (`ImpayeMinore`).
  A late duplicate's success empties the field and draws the key again: a lost answer
  before and a retry after may then pay twice (the `troublees` of
  `UneFoisParIntention`). After a process stopped on a claimed key, or an amount edited
  after a lost answer, the form gets 409 until the page is loaded again.
* *Committee and scoring.* The approved amount is compared with a row read earlier
  (`committee.repository.ts:160`): after a send-back, a lower amount and a new
  presentation, an older call may approve more than is now requested
  (`docs/10-SCORING-COMITE.md:45`). A score can be saved when the dossier is no longer
  EN_INSTRUCTION (`scoring.service.ts:28`, `docs/10-SCORING-COMITE.md:39`), and two
  overlapping saves of one score end in an internal error for the second.
* *Screens.* The agents' review and score forms are shown to every reader of a dossier
  that has its agent; the approve button to the author of a version; "Soumettre à la
  Direction" on a programme that has left BROUILLON. The API refuses. ANALYSTE is shown
  forms of `direction/financements/[id]` and `rapprochements` that answer 403. The
  committee's form takes three spaces, or more than 2 000 characters, for a comment that
  the API refuses with 400 (`CommentaireRefuse`). The grace period it asks for is stored,
  and the schedule takes no account of it.
* *Notifications.* The key `DOSSIER:id:statut` with ON CONFLICT DO NOTHING tells a
  second COMPLEMENT_REQUIS or PRET_COMITE to nobody.
* *Front end.* `/assistance` says it "remains public" (`assistance/page.tsx:44-45`)
  but its calls need a session and a 401 sends to the login page. The bell is shown to a partner, who
  gets 403 (`AppShell.tsx:103`). Leaving a page, or losing the connection, while the shell reads
  who is signed in opens `/` instead of what was asked for (`AppShell.tsx:179-182`). A load in flight at logout still ends on
  `reason=session-expired`.
* *Rate limiting.* A request that waited for the lock counts with an older time: the limit
  holds on windows shorter than the ttl by the time waited (`FenetreGlissante`), not on
  the full ttl.
* *Sessions.* A sign-in that read the account before `confirmEnrollment` of another one may
  write its own pending secret over the confirmed one; `resetMfa` between read and
  confirmation leaves a confirmed account without secret; an erased account may be
  reactivated. None of them lets a token in (`DroitsEnVigueur`, `JetonMort`).
* *Idempotency, documents, reminders.* A claimed key whose DELETE fails stays without
  an answer; a document whose COMMIT answer was lost keeps a row, current and perhaps
  superseding another, whose object the catch removed, and an upload answered with an
  error may have left its object, or object and row; a
  webhook that comes before `markSent` finds no message and is ignored, and a
  `markSent` whose answer is lost makes the catch write FAILED over what webhooks may
  have said (the exception in `JamaisRetrograde`).

## 4. Proofs

Every theorem is proved for all values of the constants, under the modules' named
ASSUMEs only. The induction is the usual one: a strengthened invariant holds initially,
is kept by each action (one lemma per action, under it one step per conjunct), and
implies the property. The proofs about reads start from the invariant of the module
whose rows are read, with what the reads need added to it.

* **Ledger, Sommes** (in `FinancingsProofs`): the sum of a sequence after an Append, or
  after a status changed, is proved from the recursive function's definition; so is
  that of a column over a set of rows, by induction on the number of rows: it does not
  depend on the order they are taken in, it is monotone, additive, adds up over disjoint
  parts, hence over the groups of a GROUP BY. The ceilings, four eyes and the history
  follow for one-step operations.
* **Financings** implements `Ledger` (`ImplementeLedger`). The inductive invariant
  adds to the types that locks exclude (`ExclusionMutuelle`) and that what a
  transaction read under its lock is still true when it writes
  (`InstantaneAJour`). The second needs the first: another call could only change the
  sum while holding the same row. Ceilings, four eyes and history come from `Ledger`
  through the refinement; `StatutSuitPaiements` is proved beside it.
* **Portefeuille**: the arrears (`ImpayeMinore`) follow from the types, from the fact
  that no instalment is overpaid and from the lemmas on sums, for any set of past
  instalments. What a partner is shown (`MontantsAffiches`) needs an invariant of its
  own, `Declarations`: a declaration that was accepted left its row, which the
  history conserves; and that a list cut at any limit exists (`ListeExiste`, by induction on
  the set of instalments) and tells the truth (`ListeFidele`).
* **Rapprochement**: `RapprochementInv` says who holds the line and the operation
  (`VerrousExclusifs`), that each check made under a lock stays true while it is held
  (`Verifie`), and, since executed operations stay so, that what a page has read or asks
  for agrees (`EcranVrai`, `AppelVrai`). `RapprochementFidele` and `RefusExplique` are
  two of its conjuncts.
* **Idempotency** implements `IdempotencyContract` when neither "apresCommit" nor
  "nettoyage" is in `Pannes` (`ContratCorrect`); `UnSeulExecutant`, `ReponseFidele`
  and `ReponseStable` hold whatever fails; the last one says that a stored answer is
  forgotten by the catch of the call that stored it and by nothing else. The invariant ties each call at work to the
  row it owns.
* **Formulaires**: `FInv` adds to it that the key of the form is the last one
  drawn, for the payment the user is after (`CleCourante`), and that a key serves one
  payment and a payment has one key unless it was drawn again under it
  (`UneCleParIntention`). `UneFoisParIntention` and `SuccesFidele` hold for "nettoyage"
  and "arret", not for "apresCommit": run `twice` shows why.
* **Dossier, Lectures**: the invariant says what stays true between the reads of a call
  and its statement, e.g. that a review past `IsCommitteeReady` has a score for good, and
  that the history names one agent. The worklists rest on two more facts (`LInv`): a
  dossier has an agent, who worked on it, exactly once it left the queue (`Partage`),
  and an approved amount is positive.
* **Dossier** implements `Parcours` (`ParcoursTheorem`), with the identity as refinement
  mapping: every statement that finds its row is the operation an actor was entitled to at
  that moment, whatever was committed since its reads. A review, a decision and a financing
  rest on `Fondes` (a status read earlier that the WHERE compares again, or that
  nothing leaves, brings the rest of what was read with it); a score is written
  without comparing anything, and needs `NotesFondees`: the agent it was read under is
  still in charge, because no call takes a dossier from its agent.
* **Amortissement**: `EcheancierCorrect` is about every principal, rate,
  duration and date, without a specification: the loop is a function on the number of
  instalments, and what remains due after each of them is proved by induction on it.
  `EcheancierExact` applies it to the amount of the financing.
* **Notation**: `NoteTheorem` is about every grid of criteria, every accepted set of
  answers and every common denominator, without a specification. A contribution is within
  half a millionth of its share (`ContributionProche`), inequalities between rows carry
  over to their sums by induction on the rows (`SommeEncadree`), and `Centieme` absorbs
  what is left (`TotalProche`). One more unit in one answer lowers no contribution
  (`MillioniemesCroissants`), hence neither the total nor the class. Its hypotheses are the
  errors `calculateScore` throws (`Notable`), the CHECKs on `criteres_scoring` (weights
  not negative, maxima positive) and fewer than 100 criteria: the roundings of 100
  contributions may add up to the hundredth that keeps the total at 100. No constraint of
  the schema says so; the model that the migrations install has four. Whole numbers stand
  for units of the columns' scale, e.g. hundredths of a point.
* **Programs**: `UnBrouillon`, `CopieConforme`, that an approval standing on a
  draft covers its present content and was given by another (`Relues`), and that what is
  captured has left BROUILLON (`Captures`). **Catalogue**: from these, "the version in
  force" is the same row for every query. `BoutonsFideles` compares the buttons with the
  guards of the handlers, which are operators of their own (`Approuvable`, `Activable`,
  `Proposable`, `Modifiable`) that the actions begin with; it needs besides that no dossier
  captured a draft (`Capturees`), for the trigger would refuse to edit one.
* **Documents**: one row per upload, objects of the transactions in progress, and
  rows under verification current and unheld by any upload (`Verrouillees`).
  **Pieces**: from these, the last version of a type is the one both queries find; and the
  rounding of the percentage cannot reach 100 with one of at most six documents missing.
* **Rappels**: a run at work owns a claim that nobody can take (`Reclames`), every
  attempt but the last is closed, for webhooks too (`Successions`, `Ferme`), and each
  dispatch and each run say the truth about the messages (`Sorts`, `Tenus`).
* **Sessions, Comptes**: for any number of accounts, commands, sign-ins and tokens. The
  invariant says who holds which lock and that the row a command read under it has not
  changed (`Verrous`); that a command about to take a super administrator away has
  counted another one, whom only a command holding the same advisory lock could take
  (`Protection`); that whatever remembers an account (a command, a sign-in, a
  token) at its present version remembers its present roles and scope
  (`Souvenirs`); that an accepted code's step has been consumed for the secret it belongs
  to, which is never drawn again (`Codes`); and that a delivery token exchanged is marked
  (`Livrees`). `DernierSuperAdmin`, `DroitsEnVigueur`, `UsageUnique` and `JetonMort` follow.
* **Droits, Portail**: for any accounts, sessions and answers. `PortailInv` follows
  every request from the page that sent it to its answer (`Suivie`) and says whom the
  validated path stands for (`Valide`): `ContenuVerifie` and `EjectionJustifiee` follow. That a
  page asks for nothing its accounts are refused (`ChargesPermises`) is a fact of the
  tables alone, proved portal by portal; with the invariant it gives `ChargementPermis`.
* **Demarrage**: for any images, replicas and deaths. Each advisory lock belongs to the
  run it lets in (`Exclusion`), hence nobody else writes between a run's read of
  `schema_migrations` and its end: what it read is still so for the files ahead
  (`Lecture`), the files behind are recorded with its own contents (`Passees`), and a
  recorded success is what was committed last (`JournalVrai`). `Commits` counts one
  commit per version plus one per death that nothing remembers.
* **Limites**: for any limit, ttl, wait and number of requests. The lock makes what a
  request decides from still so when it writes (`Decisions`). A request admitted has a hit
  of its own that lasts until its window is over (`CoupsAdmis`), or a block that lasts
  longer (`BlocageJuste`): the requests admitted in a window map one to one to hits that
  the last of them counted, which are no more than the limit. A hit or a block is that of
  a request answered since (`CoupsRecents`), hence the quiet of `ApresCalme`.

The assumptions are on the constants, and TLC evaluates each of them:

* names that mean nobody or nothing (`Personne`, `Rien`, `Absent`) are no user, bank,
  key, document or note; columns have their types (`LedgerAssumption`,
  `FinancingsAssumption`, `RapprochementAssumption`, `IdempotencyAssumption`,
  `DossierAssumption`, `ProgramsAssumption`, `DocumentsAssumption`, `RappelsAssumption`);
* tables are finite where they are summed or counted: instalments and financings
  (`PortefeuilleAssumption`, with dates, a positive limit, and each bank following the
  financings it is the correspondent of), dossiers (`CatalogueAssumption`), accounts
  (`ComptesAssumption`, which also wants one active super administrator to start with);
* the decision's DTO and `parseIsoDate` accept rates up to 100 % with four decimals, durations
  of 1 to 120 months, grace periods up to 120 and dates that exist (`LecturesAssumption`,
  `DossierAssumption`); a programme's checklist has at most
  the six types of the schema (`PiecesAssumption`); keys are drawn in order
  (`FormulairesAssumption`); the limit and the ttl are positive (`LimitesAssumption`);
* tokens in circulation at the start were issued for their accounts
  (`SessionsAssumption`), versions are numbered from 1 and images hold migrations
  (`DemarrageAssumption`), and a tab opens on a page that exists (`PortailAssumption`).

Only model-checked: liveness (`ChaqueAppelRepondu`, `RapprochementRepondu`,
`DemarrageAboutit`, `NavigationAboutit`), which is out of the prover's reach. Every other
property of the runs is a theorem. The ASSUME of `MCDossier` evaluates `NoteDe` on grids
of answers, so that what `NoteTheorem` proves is seen to be satisfiable.

## 5. Not modelled, and what is left

Left out on purpose, with the reason in `PROJECT.json`: companies (one guarded UPDATE
whose version nothing else reads), the audit read model, health, metrics, tracing and
logging, the deployment, and inside the modelled parts:

* `saveImpact`, an upsert of indicators (two first saves at once both audit
  CREATE_IMPACT without old values), `markRead`, the export of one's own data;
* the analytics by region and sector, the trends and the impact: sums over other columns
  (the sectors include drafts while regions and programmes do not), and saved
  preferences;
* the support assistant, the templates' text, the signatures of the scheduler and of
  Meta;
* the lists' filters, the imports and the offline drafts of the pages. No list discards an
  answer that comes after a later one's;
* dates of opening of programmes, regional scopes, the malware scanner's protocol, the
  limit of the connection pool, hashing and signing;
* the detail pages' several queries are one snapshot in the models of reads, but for the
  page of reconciliation, whose two lists are read apart;
* the guard's two reads are one step; the dossier's status, which `uploadOwn` reads once
  before it stores the object; a dossier submitted before versions were captured.

Doubles are exact decimals in `Amortissement` and `Notation`.

In order of what would add most:

1. The composition of `Formulaires` with `Financings` through `IdempotencyContract` and
   `Ledger`: what a retried HTTP request does to the balances.
2. `Notifications` as a component: the dispatch, `markRead` and the counter of the bell.
3. The breakdowns of analytics by region, sector and programme.
