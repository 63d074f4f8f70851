----------------------------- MODULE Financings -----------------------------
(***************************************************************************)
(* The five handlers that move money, as concurrent callers run them:      *)
(* financings.service/repository (Direction) and partner.service/          *)
(* repository (partner banks).  Each call first reads the balance without  *)
(* a lock (the service check), then opens a READ COMMITTED transaction     *)
(* that locks a row FOR UPDATE, reads the sum again, writes and commits.   *)
(*                                                                         *)
(* One step is one SQL statement of the handler; the last statements and   *)
(* COMMIT are one step, since nothing they wrote is visible before it.     *)
(* A row lock lives until the transaction ends, so the locks a call holds  *)
(* are a function of where its transaction stands (Verrous below).         *)
(***************************************************************************)
EXTENDS Ledger

CONSTANTS
  Requetes,         \* concurrent calls
  Numeros,          \* disbursement numbers a call may name
  SommesTronquees   \* <<a, b>> whose sum as JavaScript doubles, printed in
                    \* full, is below the decimal a + b (e.g. 0.7 + 0.1)

ASSUME FinancingsAssumption ==
  /\ Numeros \subseteq Nat \ {0}
  /\ SommesTronquees \subseteq Nat \X Nat

VARIABLES
  statutEcheance,   \* echeances.statut
  requete,          \* what each call asks, fixed from the start
  pc,               \* the statement each call runs next, or its outcome
  lu                \* what the call's transaction read under its lock

requestVars == <<statutEcheance, requete, pc, lu>>
vars == <<decaissements, remboursements, statutEcheance, requete, pc, lu>>

-----------------------------------------------------------------------------
(* Requests.  A repayment names a financing and an instalment, which need  *)
(* not belong together; a partner may name a financing outside its scope.  *)

Demandes ==
  [op: {"planDisbursement"}, user: Direction, f: Financements, montant: Montants]
  \cup
  [op: {"declareDisbursement"}, user: Partenaires, f: Financements, montant: Montants]
  \cup
  [op: {"executeDisbursement"}, user: Direction, f: Financements, n: Numeros]
  \cup
  [op: {"createRepayment"}, user: Direction,
   f: Financements, e: Echeances, montant: Montants]
  \cup
  [op: {"declareRepayment"}, user: Partenaires,
   f: Financements, e: Echeances, montant: Montants]

Disbursement(r) == requete[r].op \in {"planDisbursement", "declareDisbursement"}
Repayment(r)    == requete[r].op \in {"createRepayment", "declareRepayment"}
Partner(r)      == requete[r].op \in {"declareDisbursement", "declareRepayment"}

DansPerimetre(r) == Partner(r) => <<requete[r].user, requete[r].f>> \in Perimetre

Terminal == {"done", "refused", "failed"}
InTransaction ==
  {"lockFinancing", "lockInstallment", "lockDisbursement", "sum", "write"}

\* Which statement a call can be at depends on its kind.
Parcours(r) ==
  /\ pc[r] = "lockFinancing" => Disbursement(r) \/ requete[r].op = "declareRepayment"
  /\ pc[r] = "lockInstallment" => Repayment(r)
  /\ pc[r] = "lockDisbursement" => requete[r].op = "executeDisbursement"
  /\ pc[r] = "sum" => Disbursement(r) \/ Repayment(r)
  /\ pc[r] \in {"lockInstallment", "sum", "write"} => DansPerimetre(r)

TypeOK ==
  /\ LedgerTypeOK
  /\ statutEcheance \in [Echeances -> {"A_VENIR", "PARTIELLEMENT_PAYEE", "PAYEE"}]
  /\ requete \in [Requetes -> Demandes]
  /\ pc \in [Requetes -> {"received"} \cup InTransaction \cup Terminal]
  /\ lu \in [Requetes -> [total: Nat, numero: Nat]]
  /\ \A r \in Requetes : Parcours(r)

-----------------------------------------------------------------------------
(* Row locks.                                                              *)

VerrouFinancement(r) == <<"financement", requete[r].f>>
VerrouEcheance(r)    == <<"echeance", requete[r].e>>
VerrouDecaissement(r) == <<"decaissement", requete[r].f, requete[r].n>>

\* Mutant: the connection of a failed disbursement goes back to the pool with
\* its transaction still open.
VerrousSansRollback(r) ==
  CASE Disbursement(r) /\ pc[r] \in {"sum", "write", "failed"} -> {VerrouFinancement(r)}
    [] requete[r].op = "executeDisbursement" /\ pc[r] = "write"
         -> {VerrouDecaissement(r)}
    [] OTHER -> {}

\* The rows call r holds FOR UPDATE.
Verrous(r) ==
  CASE Disbursement(r) /\ pc[r] \in {"sum", "write"} -> {VerrouFinancement(r)}
    [] requete[r].op = "createRepayment" /\ pc[r] \in {"sum", "write"}
         -> {VerrouEcheance(r)}
    [] requete[r].op = "declareRepayment" /\ pc[r] = "lockInstallment"
         -> {VerrouFinancement(r)}
    [] requete[r].op = "declareRepayment" /\ pc[r] \in {"sum", "write"}
         -> {VerrouFinancement(r), VerrouEcheance(r)}
    [] requete[r].op = "executeDisbursement" /\ pc[r] = "write"
         -> {VerrouDecaissement(r)}
    [] OTHER -> {}

\* The rows call r must own before its next statement can run.  Inserting a
\* repayment takes FOR KEY SHARE on the financing its foreign key names, which
\* waits for another transaction's FOR UPDATE on that row.
Demande(r) ==
  CASE pc[r] = "lockFinancing" -> {VerrouFinancement(r)}
    [] pc[r] = "lockInstallment" -> {VerrouEcheance(r)}
    [] pc[r] = "lockDisbursement" -> {VerrouDecaissement(r)}
    [] pc[r] = "write" /\ Repayment(r) -> {VerrouFinancement(r)}
    [] OTHER -> {}

Attend(r, q) == r # q /\ Demande(r) \cap Verrous(q) # {}

Libre(r) == \A q \in Requetes : ~ Attend(r, q)

-----------------------------------------------------------------------------
Init ==
  /\ LedgerInit
  /\ statutEcheance = [e \in Echeances |-> "A_VENIR"]
  /\ requete \in [Requetes -> Demandes]
  /\ pc = [r \in Requetes |-> "received"]
  /\ lu = [r \in Requetes |-> [total |-> 0, numero |-> 0]]

\* The ceiling a call is held to, and what counts against it.
Plafond(r) == IF Disbursement(r) THEN MontantAccorde[requete[r].f]
                                 ELSE MontantTotalDu[requete[r].e]

\* Mutant: only what has been paid out counts.
Cumul0Effectue(r) ==
  IF Disbursement(r)
  THEN LET rows == decaissements[requete[r].f]
       IN  Somme([n \in 1 .. Len(rows) |-> IF rows[n].statut = "EFFECTUE" THEN rows[n].montant ELSE 0])
  ELSE Paye(requete[r].e)

Cumul0(r) == IF Disbursement(r) THEN Engage(requete[r].f) ELSE Paye(requete[r].e)

EcheanceDuFinancement(r) == Repayment(r) => FinancementDe[requete[r].e] = requete[r].f

FirstLock(r) ==
  CASE requete[r].op = "createRepayment" -> "lockInstallment"
    [] requete[r].op = "executeDisbursement" -> "lockDisbursement"
    [] OTHER -> "lockFinancing"

\* this.get(id), the scope of a partner, validateAvailableAmount: all read
\* before the transaction, all possibly out of date when it runs.
ServiceCheck(r) ==
  /\ pc[r] = "received"
  /\ pc' = [pc EXCEPT ![r] =
       IF /\ DansPerimetre(r)
          /\ EcheanceDuFinancement(r)
          /\ requete[r].op # "executeDisbursement"
               => Cumul0(r) + requete[r].montant <= Plafond(r)
       THEN FirstLock(r) ELSE "refused"]
  /\ UNCHANGED <<ledgerVars, statutEcheance, requete, lu>>

\* SELECT ... FROM financements ... FOR UPDATE, with the scope of a partner.
LockFinancing(r) ==
  /\ pc[r] = "lockFinancing"
  /\ Libre(r)
  /\ pc' = [pc EXCEPT ![r] = IF ~ DansPerimetre(r) THEN "refused"
                             ELSE IF Disbursement(r) THEN "sum"
                             ELSE "lockInstallment"]
  /\ UNCHANGED <<ledgerVars, statutEcheance, requete, lu>>

\* SELECT montant_total_du FROM echeances ... FOR UPDATE.
LockInstallment(r) ==
  /\ pc[r] = "lockInstallment"
  /\ Libre(r)
  /\ pc' = [pc EXCEPT ![r] = IF EcheanceDuFinancement(r) THEN "sum" ELSE "refused"]
  /\ UNCHANGED <<ledgerVars, statutEcheance, requete, lu>>

\* SUM and MAX(numero) + 1 under the lock; over the ceiling, return null.
Sum(r) ==
  /\ pc[r] = "sum"
  /\ lu' = [lu EXCEPT ![r] =
       [total  |-> Cumul0(r),
        numero |-> IF Disbursement(r)
                   THEN Len(decaissements[requete[r].f]) + 1 ELSE 0]]
  /\ pc' = [pc EXCEPT ![r] =
       IF Cumul0(r) + requete[r].montant <= Plafond(r) THEN "write" ELSE "refused"]
  /\ UNCHANGED <<ledgerVars, statutEcheance, requete>>

\* Mutant: a bank's declaration is inserted as a plan.
InsertDisbursementPrevu(r) ==
  /\ pc[r] = "write"
  /\ Disbursement(r)
  /\ lu[r].numero = Len(decaissements[requete[r].f]) + 1
  /\ decaissements' = [decaissements EXCEPT ![requete[r].f] =
       Append(@, [montant |-> requete[r].montant, statut |-> "PREVU",
                  createdBy |-> requete[r].user, executedBy |-> Personne])]
  /\ pc' = [pc EXCEPT ![r] = "done"]
  /\ UNCHANGED <<remboursements, statutEcheance, requete, lu>>

\* INSERT INTO decaissements; COMMIT.  The pair (financement_id,
\* numero_decaissement) is UNIQUE: a number already taken fails (see Rollback).
InsertDisbursement(r) ==
  /\ pc[r] = "write"
  /\ Disbursement(r)
  /\ lu[r].numero = Len(decaissements[requete[r].f]) + 1
  /\ decaissements' = [decaissements EXCEPT ![requete[r].f] =
       Append(@, [montant    |-> requete[r].montant,
                  statut     |-> IF Partner(r) THEN "EFFECTUE" ELSE "PREVU",
                  createdBy  |-> requete[r].user,
                  executedBy |-> Personne])]
  /\ pc' = [pc EXCEPT ![r] = "done"]
  /\ UNCHANGED <<remboursements, statutEcheance, requete, lu>>

\* UPDATE echeances SET statut = CASE WHEN $2 >= montant_total_du ...: $2 is the
\* sum of two doubles, compared with an exact NUMERIC.
Solde(r) ==
  /\ lu[r].total + requete[r].montant >= MontantTotalDu[requete[r].e]
  /\ <<lu[r].total, requete[r].montant>> \in SommesTronquees
       => lu[r].total + requete[r].montant > MontantTotalDu[requete[r].e]

\* INSERT INTO remboursements, UPDATE echeances; COMMIT.
InsertRepayment(r) ==
  /\ pc[r] = "write"
  /\ Repayment(r)
  /\ Libre(r)
  /\ remboursements' = [remboursements EXCEPT ![requete[r].e] =
                          Append(@, requete[r].montant)]
  /\ statutEcheance' = [statutEcheance EXCEPT ![requete[r].e] =
                          IF Solde(r) THEN "PAYEE" ELSE "PARTIELLEMENT_PAYEE"]
  /\ pc' = [pc EXCEPT ![r] = "done"]
  /\ UNCHANGED <<decaissements, requete, lu>>

\* SELECT created_by, statut FROM decaissements ... FOR UPDATE: NOT_FOUND,
\* INVALID_STATE and SELF_APPROVAL each end the call.
LockDisbursement(r) ==
  LET rows == decaissements[requete[r].f]
      n    == requete[r].n
  IN  /\ pc[r] = "lockDisbursement"
      /\ Libre(r)
      /\ pc' = [pc EXCEPT ![r] =
           IF /\ n <= Len(rows)
              /\ rows[n].statut = "PREVU"
              /\ rows[n].createdBy # requete[r].user
           THEN "write" ELSE "refused"]
      /\ UNCHANGED <<ledgerVars, statutEcheance, requete, lu>>

\* UPDATE decaissements SET statut = 'EFFECTUE', executed_by; COMMIT.  The
\* constraint ck_decaissements_maker_checker would refuse the author again.
UpdateDisbursement(r) ==
  LET f == requete[r].f
      n == requete[r].n
  IN  /\ pc[r] = "write"
      /\ requete[r].op = "executeDisbursement"
      /\ decaissements[f][n].createdBy # requete[r].user
      /\ decaissements' = [decaissements EXCEPT ![f][n] =
           [@ EXCEPT !.statut = "EFFECTUE", !.executedBy = requete[r].user]]
      /\ pc' = [pc EXCEPT ![r] = "done"]
      /\ UNCHANGED <<remboursements, statutEcheance, requete, lu>>

\* An error, a lost connection or a crash of the API before COMMIT: the
\* transaction is rolled back and its locks go with it.
Rollback(r) ==
  /\ pc[r] \in InTransaction
  /\ pc' = [pc EXCEPT ![r] = "failed"]
  /\ UNCHANGED <<ledgerVars, statutEcheance, requete, lu>>

\* PostgreSQL aborts one of two transactions that wait for each other.
DeadlockVictim(r) ==
  /\ \E q \in Requetes : Attend(r, q) /\ Attend(q, r)
  /\ Rollback(r)

Handler(r) ==
  \/ ServiceCheck(r)
  \/ LockFinancing(r)
  \/ LockInstallment(r)
  \/ Sum(r)
  \/ InsertDisbursement(r)
  \/ InsertRepayment(r)
  \/ LockDisbursement(r)
  \/ UpdateDisbursement(r)
  \/ DeadlockVictim(r)

\* Every call has been answered: nothing is left to do.
Finished ==
  /\ \A r \in Requetes : pc[r] \in Terminal
  /\ UNCHANGED vars

Next == \/ \E r \in Requetes : Handler(r) \/ Rollback(r)
        \/ Finished

\* The event loop and the server keep running every call they accepted;
\* failures happen when they happen.
Fairness == \A r \in Requetes : WF_vars(Handler(r))

Spec == Init /\ [][Next]_vars

FairSpec == Spec /\ Fairness

-----------------------------------------------------------------------------
(* Properties.  PlafondRespecte, EcheanceNonSurpayee, MakerChecker,        *)
(* HistoriqueConserve and LedgerSpec come from Ledger.                     *)

\* No two calls ever hold the same row, whatever mix of Direction and partner
\* handlers runs: the two repositories lock the same rows for the same money.
ExclusionMutuelle ==
  \A r, q \in Requetes : r # q => Verrous(r) \cap Verrous(q) = {}

\* What a transaction read under its lock is still true when it writes: the
\* sum it checked, the number it is about to take, the row it approved.
InstantaneAJour ==
  \A r \in Requetes : pc[r] = "write" =>
    IF requete[r].op = "executeDisbursement"
    THEN LET rows == decaissements[requete[r].f]
         IN  /\ requete[r].n <= Len(rows)
             /\ rows[requete[r].n].statut = "PREVU"
             /\ rows[requete[r].n].createdBy # requete[r].user
    ELSE /\ lu[r].total = Cumul0(r)
         /\ Cumul0(r) + requete[r].montant <= Plafond(r)
         /\ Disbursement(r) => lu[r].numero = Len(decaissements[requete[r].f]) + 1

\* The status of an instalment follows its payments: to come exactly while
\* nothing is paid, and never settled before the last centime is in.
StatutSuitPaiements ==
  \A e \in Echeances :
    /\ statutEcheance[e] = "A_VENIR" <=> remboursements[e] = <<>>
    /\ statutEcheance[e] = "PAYEE" => Paye(e) = MontantTotalDu[e]

\* Every call is answered, also when two transactions wait for each other.
ChaqueAppelRepondu == \A r \in Requetes : <>(pc[r] \in Terminal)

\* docs/20-TESTS-ENTREPRISE.md: PAYEE once the instalment is settled.
SoldeePayee ==
  \A e \in Echeances :
    remboursements[e] # <<>> /\ Paye(e) = MontantTotalDu[e]
      => statutEcheance[e] = "PAYEE"
=============================================================================
