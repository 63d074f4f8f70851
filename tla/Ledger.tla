------------------------------- MODULE Ledger -------------------------------
(***************************************************************************)
(* What the money tables promise, one operation at a time.  decaissements  *)
(* and remboursements are the rows of the two tables (schema 001), grouped *)
(* by the financing and the instalment they belong to and kept in the      *)
(* order of insertion, which for decaissements is numero_decaissement.     *)
(* Amounts are whole centimes: the columns are NUMERIC(20,2) and the DTOs  *)
(* accept two decimals, so "x <= ceiling + 0.001" is "x <= ceiling".       *)
(*                                                                         *)
(* Every operation happens in one step here.  Financings.tla has the       *)
(* locks, the two reads and the concurrent callers, and implements this.   *)
(***************************************************************************)
EXTENDS Sommes

CONSTANTS
  Financements,    \* financings; all are ACTIF, no code gives another statut
  Echeances,       \* instalments of their schedules
  FinancementDe,   \* the financing an instalment belongs to
  MontantAccorde,  \* ceiling of each financing
  MontantTotalDu,  \* amount due on each instalment, which may be 0
  Direction,       \* users of role DIRECTION_FODIP
  Partenaires,     \* users of a partner bank
  Perimetre,       \* <<user, financing>>: PARTNER_SCOPE, written by no handler
  Personne,        \* SQL NULL in a user column
  Montants         \* amounts a DTO may carry (Min 0.01)

Utilisateurs == Direction \cup Partenaires

ASSUME LedgerAssumption ==
  /\ FinancementDe \in [Echeances -> Financements]
  /\ MontantAccorde \in [Financements -> Nat]
  /\ MontantTotalDu \in [Echeances -> Nat]
  /\ Perimetre \subseteq Partenaires \X Financements
  /\ Personne \notin Utilisateurs
  /\ Direction \cap Partenaires = {}
  /\ Montants \subseteq Nat \ {0}

VARIABLES decaissements, remboursements

ledgerVars == <<decaissements, remboursements>>

Decaissement == [montant   : Nat,
                 statut    : {"PREVU", "EFFECTUE", "ANNULE"},
                 createdBy : Utilisateurs \cup {Personne},
                 executedBy: Utilisateurs \cup {Personne}]

LedgerTypeOK ==
  /\ decaissements \in [Financements -> Seq(Decaissement)]
  /\ remboursements \in [Echeances -> Seq(Nat)]

-----------------------------------------------------------------------------
\* SUM(montant) FILTER (WHERE statut <> 'ANNULE') over some rows.
Poids(row) == IF row.statut # "ANNULE" THEN row.montant ELSE 0

TotalEngage(rows) == Somme([i \in 1..Len(rows) |-> Poids(rows[i])])

Engage(f) == TotalEngage(decaissements[f])

\* SUM(montant_paye) of an instalment.
Paye(e) == Somme(remboursements[e])

-----------------------------------------------------------------------------
\* A row older than migration 007 has no created_by.
Reprises(f) ==
  {<<>>} \cup {<<[montant |-> m, statut |-> "PREVU",
                  createdBy |-> Personne, executedBy |-> Personne]>> :
                 m \in {x \in Montants : x <= MontantAccorde[f]}}

LedgerInit ==
  /\ decaissements \in [Financements -> UNION {Reprises(f) : f \in Financements}]
  /\ \A f \in Financements : decaissements[f] \in Reprises(f)
  /\ remboursements = [e \in Echeances |-> <<>>]

AjouterDecaissement(f, m, u, s) ==
  /\ Engage(f) + m <= MontantAccorde[f]
  /\ decaissements' = [decaissements EXCEPT ![f] =
       Append(@, [montant |-> m, statut |-> s,
                  createdBy |-> u, executedBy |-> Personne])]
  /\ UNCHANGED remboursements

\* Direction plans a disbursement.
Planifier(f, u, m) ==
  /\ u \in Direction
  /\ AjouterDecaissement(f, m, u, "PREVU")

\* A partner bank declares one it has already paid.
Declarer(f, u, m) ==
  /\ <<u, f>> \in Perimetre
  /\ AjouterDecaissement(f, m, u, "EFFECTUE")

\* Direction executes a planned one: never the user who planned it.
Executer(f, n, u) ==
  /\ u \in Direction
  /\ n \in 1..Len(decaissements[f])
  /\ decaissements[f][n].statut = "PREVU"
  /\ decaissements[f][n].createdBy # u
  /\ decaissements' = [decaissements EXCEPT ![f][n] =
       [@ EXCEPT !.statut = "EFFECTUE", !.executedBy = u]]
  /\ UNCHANGED remboursements

\* A repayment is recorded against one instalment.
Rembourser(e, m) ==
  /\ Paye(e) + m <= MontantTotalDu[e]
  /\ remboursements' = [remboursements EXCEPT ![e] = Append(@, m)]
  /\ UNCHANGED decaissements

LedgerNext ==
  \/ \E f \in Financements, u \in Utilisateurs, m \in Montants :
       Planifier(f, u, m) \/ Declarer(f, u, m)
  \/ \E f \in Financements, u \in Utilisateurs :
       \E n \in 1..Len(decaissements[f]) : Executer(f, n, u)
  \/ \E e \in Echeances, m \in Montants : Rembourser(e, m)

LedgerSpec == LedgerInit /\ [][LedgerNext]_ledgerVars

-----------------------------------------------------------------------------
(* What follows from the promise. *)

\* The tranches that are not cancelled never add up to more than the amount
\* granted, whoever planned or declared them (both createDisbursement paths).
PlafondRespecte ==
  \A f \in Financements : Engage(f) <= MontantAccorde[f]

\* An instalment never collects more than it is due (both createRepayment paths).
EcheanceNonSurpayee ==
  \A e \in Echeances : Paye(e) <= MontantTotalDu[e]

\* Four eyes: a planned tranche becomes effective only by the hand of a
\* Direction user other than its author, who is recorded (executeDisbursement).
QuatreYeux ==
  \A f \in Financements : \A n \in 1..Len(decaissements[f]) :
    decaissements[f][n].statut = "PREVU" /\ decaissements'[f][n].statut # "PREVU"
      => /\ decaissements'[f][n].statut = "EFFECTUE"
         /\ decaissements'[f][n].executedBy \in Direction
         /\ decaissements'[f][n].executedBy # decaissements[f][n].createdBy

MakerChecker == [][QuatreYeux]_ledgerVars

\* Money rows are never removed, renumbered or changed in amount or author,
\* and an executed tranche never changes again: no handler rewrites history.
Conserve ==
  /\ \A f \in Financements :
       /\ Len(decaissements[f]) <= Len(decaissements'[f])
       /\ \A n \in 1..Len(decaissements[f]) :
            /\ decaissements'[f][n].montant = decaissements[f][n].montant
            /\ decaissements'[f][n].createdBy = decaissements[f][n].createdBy
            /\ decaissements[f][n].statut = "EFFECTUE"
                 => decaissements'[f][n] = decaissements[f][n]
  /\ \A e \in Echeances :
       /\ Len(remboursements[e]) <= Len(remboursements'[e])
       /\ \A n \in 1..Len(remboursements[e]) :
            remboursements'[e][n] = remboursements[e][n]

HistoriqueConserve == [][Conserve]_ledgerVars
=============================================================================
