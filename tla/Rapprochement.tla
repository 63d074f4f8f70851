--------------------------- MODULE Rapprochement ---------------------------
(****************************************************************************)
(* The bank reconciliation: the lines of the banks' statements, recorded by *)
(* the Direction, and their matches with the disbursements and repayments   *)
(* of the ledger.  Agents match concurrently, from a page whose two lists   *)
(* were read by two queries, while the ledger goes on.                      *)
(*                                                                          *)
(* One step is one SQL statement of matchEntry; the INSERT, the audit row   *)
(* and COMMIT are one step.  The ledger's operations are those of Ledger,   *)
(* which Financings implements.                                             *)
(****************************************************************************)
EXTENDS Ledger, FiniteSets

CONSTANTS
  Banques, Actives,   \* partenaires_bancaires, and those with actif = TRUE
  BanqueDe,           \* financements.banque_partenaire_id; Personne is NULL
  References,         \* reference_externe, unique within a bank
  Releves,            \* the statement lines the Direction may record
  Agents,             \* who holds reconciliation.manage
  ParLaPage,          \* those of them who use the web page
  MaxMouvements,      \* bound: statement lines
  MaxAppels           \* bound: matchEntry calls

ASSUME RapprochementAssumption ==
  /\ BanqueDe \in [Financements -> Banques \cup {Personne}]
  /\ Releves \subseteq [banque: Banques, reference: References, sens: {"DEBIT", "CREDIT"},
                        montant: Montants]
  /\ Personne \notin Banques
  /\ Actives \subseteq Banques /\ ParLaPage \subseteq Agents
  /\ MaxMouvements \in Nat /\ MaxAppels \in Nat

VARIABLES
  mouvements,     \* mouvements_bancaires, in the order of insertion
  rapprochements, \* rapprochements_bancaires
  appel,          \* the matchEntry call of each agent
  ecran,          \* what the page of each agent shows, and what it has read
  appels

rapVars == <<mouvements, rapprochements, appel, ecran, appels>>
banqueVars == <<ledgerVars, rapVars>>

\* An operation the API names: its type, its financing or instalment, its row.
\* Every row weighs at least one unit of its ceiling.
OperationsBancaires ==
  (UNION {{<<"DECAISSEMENT", f, n>> : n \in 1..MontantAccorde[f]} : f \in Financements})
  \cup (UNION {{<<"REMBOURSEMENT", e, n>> : n \in 1..MontantTotalDu[e]} : e \in Echeances})

Lignes(o) == IF o[1] = "DECAISSEMENT" THEN decaissements[o[2]] ELSE remboursements[o[2]]
existe(o) == o[3] \in DOMAIN Lignes(o)
montant(o) == IF o[1] = "DECAISSEMENT" THEN Lignes(o)[o[3]].montant ELSE Lignes(o)[o[3]]
executee(o) == o[1] = "DECAISSEMENT" => Lignes(o)[o[3]].statut = "EFFECTUE"
banque(o) == BanqueDe[IF o[1] = "DECAISSEMENT" THEN o[2] ELSE FinancementDe[o[2]]]
sensAttendu(o) == IF o[1] = "DECAISSEMENT" THEN "DEBIT" ELSE "CREDIT"

MouvementRapproche(m) == \E r \in rapprochements : r.mouvement = m
OperationRapprochee(o) == \E r \in rapprochements : r.operation = o

\* What matchEntry compares, and what the page's exactCandidates compares.
Concorde(m, o) ==
  /\ banque(o) = mouvements[m].banque
  /\ sensAttendu(o) = mouvements[m].sens
  /\ montant(o) = mouvements[m].montant

Etapes == {"libre", "recu", "verrouille", "sansDoublon", "operation", "concorde"}
Issues == {"", "OK", "ENTRY_NOT_FOUND", "ENTRY_ALREADY_MATCHED", "OPERATION_NOT_FOUND",
           "OPERATION_ALREADY_MATCHED", "OPERATION_NOT_EXECUTED", "BANK_MISMATCH",
           "DIRECTION_MISMATCH", "AMOUNT_MISMATCH", "23505"}
Appel == [etape: Etapes, mouvement: 0..MaxMouvements,
          operation: OperationsBancaires \cup {Personne}, issue: Issues]
Liste(S) == {{}} \cup {{x} : x \in SUBSET S}   \* not read yet, or what was read
Ecran == [entrees: SUBSET (1..MaxMouvements), candidats: SUBSET OperationsBancaires,
          luEntrees: Liste(1..MaxMouvements), luCandidats: Liste(OperationsBancaires)]

RapprochementTypeOK ==
  /\ LedgerTypeOK
  /\ mouvements \in Seq(Releves) /\ Len(mouvements) <= MaxMouvements
  /\ rapprochements \subseteq [mouvement: 1..MaxMouvements, operation: OperationsBancaires]
  /\ appel \in [Agents -> Appel] /\ ecran \in [Agents -> Ecran] /\ appels \in 0..MaxAppels

------------------------------------------------------------------------------
Repos(issue) ==
  [etape |-> "libre", mouvement |-> 0, operation |-> Personne, issue |-> issue]

RapprochementInit ==
  /\ LedgerInit
  /\ mouvements = <<>> /\ rapprochements = {} /\ appels = 0
  /\ appel = [a \in Agents |-> Repos("")]
  /\ ecran = [a \in Agents |-> [entrees |-> {}, candidats |-> {},
                                luEntrees |-> {}, luCandidats |-> {}]]

\* createEntry: INSERT ... SELECT from the active bank; a reference the bank
\* already has is answered 409, an unknown or inactive bank 404.
createEntry(m) ==
  /\ Len(mouvements) < MaxMouvements
  /\ m.banque \in Actives
  /\ \A i \in DOMAIN mouvements :
       <<mouvements[i].banque, mouvements[i].reference>> # <<m.banque, m.reference>>
  /\ mouvements' = Append(mouvements, m)
  /\ UNCHANGED <<ledgerVars, rapprochements, appel, ecran, appels>>

------------------------------------------------------------------------------
(* The page: overview runs its queries side by side, so the lines and the   *)
(* candidates are of two moments; the page shows them together.             *)

EntreesARapprocher == {m \in DOMAIN mouvements : ~MouvementRapproche(m)}

candidats ==
  {o \in OperationsBancaires : existe(o) /\ executee(o) /\ banque(o) # Personne /\ ~OperationRapprochee(o)}

\* The first query that answers; the other, with which the page shows both.
lirePremiere(a) ==
  /\ ecran[a].luEntrees = {} /\ ecran[a].luCandidats = {}
  /\ \/ ecran' = [ecran EXCEPT ![a].luEntrees = {EntreesARapprocher}]
     \/ ecran' = [ecran EXCEPT ![a].luCandidats = {candidats}]

Afficher(a, es, cs) ==
  ecran' = [ecran EXCEPT ![a] = [entrees |-> es, candidats |-> cs, luEntrees |-> {}, luCandidats |-> {}]]

lireSeconde(a) ==
  \/ \E es \in ecran[a].luEntrees : Afficher(a, es, candidats)
  \/ \E cs \in ecran[a].luCandidats : Afficher(a, EntreesARapprocher, cs)

overview(a) ==
  /\ a \in ParLaPage
  /\ lirePremiere(a) \/ lireSeconde(a)
  /\ UNCHANGED <<ledgerVars, mouvements, rapprochements, appel, appels>>

exactCandidates(a, m) == {o \in ecran[a].candidats : Concorde(m, o)}

\* A selection of the page, or any call of the API.
Demander(a, m, o) ==
  /\ appel[a].etape = "libre" /\ appels < MaxAppels
  /\ a \in ParLaPage => m \in ecran[a].entrees /\ o \in exactCandidates(a, m)
  /\ appel' = [appel EXCEPT ![a] = [etape |-> "recu", mouvement |-> m, operation |-> o, issue |-> ""]]
  /\ appels' = appels + 1
  /\ UNCHANGED <<ledgerVars, mouvements, rapprochements, ecran>>

------------------------------------------------------------------------------
(* matchEntry.                                                              *)

M(a) == appel[a].mouvement
O(a) == appel[a].operation
TientMouvement(a) == appel[a].etape \in {"verrouille", "sansDoublon", "operation", "concorde"}
TientOperation(a) == appel[a].etape \in {"operation", "concorde"}

Avancer(a, etape) == appel' = [appel EXCEPT ![a].etape = etape]
Finir(a, issue) == appel' = [appel EXCEPT ![a] = Repos(issue)]

MouvementLibre(a) == \A b \in Agents \ {a} : ~(TientMouvement(b) /\ M(b) = M(a))

\* Mutant: the second lock covers every line that is being matched.
OperationLibreTable(a) == \A b \in Agents \ {a} : ~TientMouvement(b)

\* Mutant: the operation is read without FOR UPDATE.
OperationLibreToujours(a) == TRUE

OperationLibre(a) == \A b \in Agents \ {a} : ~(TientOperation(b) /\ O(b) = O(a))

VerrouillerMouvement(a) ==
  /\ appel[a].etape = "recu"
  /\ MouvementLibre(a)
  /\ IF M(a) \in DOMAIN mouvements THEN Avancer(a, "verrouille") ELSE Finir(a, "ENTRY_NOT_FOUND")
  /\ UNCHANGED rapprochements

ChercherMouvement(a) ==
  /\ appel[a].etape = "verrouille"
  /\ IF MouvementRapproche(M(a)) THEN Finir(a, "ENTRY_ALREADY_MATCHED") ELSE Avancer(a, "sansDoublon")
  /\ UNCHANGED rapprochements

refusOperation(o) ==
  IF ~existe(o) THEN "OPERATION_NOT_FOUND"
  ELSE IF ~executee(o) THEN "OPERATION_NOT_EXECUTED" ELSE ""

VerrouillerOperation(a) ==
  /\ appel[a].etape = "sansDoublon"
  /\ OperationLibre(a)
  /\ LET refus == refusOperation(O(a)) IN
     IF refus # "" THEN Finir(a, refus) ELSE Avancer(a, "operation")
  /\ UNCHANGED rapprochements

\* Mutant: the bank of the statement is not compared.
refusConcordanceSansBanque(m, o) ==
  CASE OperationRapprochee(o) -> "OPERATION_ALREADY_MATCHED"
    [] mouvements[m].sens # sensAttendu(o) -> "DIRECTION_MISMATCH"
    [] mouvements[m].montant # montant(o) -> "AMOUNT_MISMATCH"
    [] OTHER -> ""

refusConcordance(m, o) ==
  IF OperationRapprochee(o) THEN "OPERATION_ALREADY_MATCHED"
  ELSE IF banque(o) # mouvements[m].banque THEN "BANK_MISMATCH"
  ELSE IF mouvements[m].sens # sensAttendu(o) THEN "DIRECTION_MISMATCH"
  ELSE IF mouvements[m].montant # montant(o) THEN "AMOUNT_MISMATCH" ELSE ""

ChercherOperation(a) ==
  /\ appel[a].etape = "operation"
  /\ LET refus == refusConcordance(M(a), O(a)) IN
     IF refus # "" THEN Finir(a, refus) ELSE Avancer(a, "concorde")
  /\ UNCHANGED rapprochements

\* INSERT, the audit row, COMMIT; the three columns are UNIQUE, and matchEntry
\* does not translate 23505: the caller would get an internal error.
Inserer(a) ==
  /\ appel[a].etape = "concorde"
  /\ IF MouvementRapproche(M(a)) \/ OperationRapprochee(O(a))
     THEN Finir(a, "23505") /\ UNCHANGED rapprochements
     ELSE /\ rapprochements' = rapprochements \cup {[mouvement |-> M(a), operation |-> O(a)]}
          /\ Finir(a, "OK")

matchEntry(a) ==
  /\ \/ VerrouillerMouvement(a) \/ ChercherMouvement(a) \/ VerrouillerOperation(a)
     \/ ChercherOperation(a) \/ Inserer(a)
  /\ UNCHANGED <<ledgerVars, mouvements, ecran, appels>>

------------------------------------------------------------------------------
\* executeDisbursement locks its row too: it waits for a match that holds it.
LigneLibre(f, n) ==
  \A a \in Agents : ~(TientOperation(a) /\ O(a) = <<"DECAISSEMENT", f, n>>)

LedgerAvance ==
  /\ \/ \E f \in Financements, u \in Utilisateurs, m \in Montants :
          Planifier(f, u, m) \/ Declarer(f, u, m)
     \/ \E f \in Financements, u \in Utilisateurs : \E n \in 1..Len(decaissements[f]) :
          LigneLibre(f, n) /\ Executer(f, n, u)
     \/ \E e \in Echeances, m \in Montants : Rembourser(e, m)
  /\ UNCHANGED rapVars

RapprochementNext ==
  \/ LedgerAvance
  \/ \E m \in Releves : createEntry(m)
  \/ \E a \in Agents : overview(a) \/ matchEntry(a)
  \/ \E a \in Agents, m \in {0} \cup DOMAIN mouvements, o \in OperationsBancaires : Demander(a, m, o)

\* PostgreSQL runs the statements of a transaction that waits for no lock.
RapprochementSpec ==
  /\ RapprochementInit
  /\ [][RapprochementNext]_banqueVars
  /\ \A a \in Agents : WF_banqueVars(matchEntry(a))

------------------------------------------------------------------------------
(* Properties.                                                               *)

\* A match pairs one statement line with one executed operation of its bank, its
\* direction and its amount, and goes on doing so while the ledger moves: a line
\* and an operation are matched at most once.
RapprochementFidele ==
  /\ \A r \in rapprochements :
       existe(r.operation) /\ executee(r.operation) /\ Concorde(r.mouvement, r.operation)
  /\ \A r, s \in rapprochements :
       r.mouvement = s.mouvement \/ r.operation = s.operation => r = s

\* Every refusal is one the code explains.  The locks make matchEntry's own
\* checks decisive: no agent ever meets the UNIQUE constraints, whose violation
\* it does not translate.  What the page proposes is refused only because another
\* agent has matched the line or the operation since its lists were read.
RefusExplique ==
  \A a \in Agents :
    /\ appel[a].issue # "23505"
    /\ a \in ParLaPage => appel[a].issue \in
         {"", "OK", "ENTRY_ALREADY_MATCHED", "OPERATION_ALREADY_MATCHED"}

\* No two agents wait for each other: every match is answered.
RapprochementRepondu == \A a \in Agents : appel[a].etape # "libre" ~> appel[a].etape = "libre"
=============================================================================
