---------------------------- MODULE Portefeuille ----------------------------
(***************************************************************************)
(* What Direction, a partner bank and the executive dashboard read of the  *)
(* money tables: the view analytics.vw_financing_performance, the details  *)
(* of a financing, the partner's dashboard and the overdue alerts.  The    *)
(* reads write nothing: they are operators over the state of Financings,   *)
(* one snapshot each.  jour is CURRENT_DATE, passees the set of the        *)
(* instalments of that day or earlier; the properties range over the days. *)
(***************************************************************************)
EXTENDS Financings, FiniteSets

CONSTANTS
  DateEcheance,      \* echeances.date_echeance, as a day number
  Limite,            \* LIMIT of the partner's list of coming instalments: 10
  BanquePartenaire   \* financements.banque_partenaire_id, Personne for NULL;
                     \* a partner user stands for its bank

\* One database: finitely many rows.  A bank follows the financings it is the
\* correspondent of (first half of PARTNER_SCOPE), and may follow others.
ASSUME PortefeuilleAssumption ==
  /\ IsFiniteSet(Echeances) /\ IsFiniteSet(Financements)
  /\ DateEcheance \in [Echeances -> Nat]
  /\ Limite \in Nat \ {0}
  /\ BanquePartenaire \in [Financements -> Partenaires \cup {Personne}]
  /\ \A f \in Financements :
       BanquePartenaire[f] # Personne => <<BanquePartenaire[f], f>> \in Perimetre

EcheancesDe(f) == {e \in Echeances : FinancementDe[e] = f}

\* date_echeance <= CURRENT_DATE.
EcheancesPassees(jour) == {e \in Echeances : DateEcheance[e] <= jour}

\* GREATEST(x - y, 0).
Reste(x, y) == IF x > y THEN x - y ELSE 0

-----------------------------------------------------------------------------
(* analytics.vw_financing_performance, one row per financing.              *)

PoidsEffectue(row) == IF row.statut = "EFFECTUE" THEN row.montant ELSE 0

MontantDecaisse(f) ==
  Somme([i \in 1 .. Len(decaissements[f]) |-> PoidsEffectue(decaissements[f][i])])

\* Mutant: the whole schedule is due.
MontantDuTotal(f, passees) ==
  SommeSur(MontantTotalDu, EcheancesDe(f))

MontantDu(f, passees) ==
  SommeSur(MontantTotalDu, EcheancesDe(f) \cap passees)

\* Every repayment of the financing, those of future instalments included.
MontantRembourse(f) == Total([e \in EcheancesDe(f) |-> Paye(e)])

Impaye(f, passees) == Reste(MontantDu(f, passees), MontantRembourse(f))

Performance(f, passees, champ) ==
  IF champ = "decaisse" THEN MontantDecaisse(f)
  ELSE IF champ = "du" THEN MontantDu(f, passees)
  ELSE IF champ = "rembourse" THEN MontantRembourse(f)
  ELSE Impaye(f, passees)

-----------------------------------------------------------------------------
(* Direction: the detail of one financing, the totals and the repayment    *)
(* rate of the executive dashboard, its breakdown by bank and its alerts.  *)

LigneEcheance(e) ==
  [statut |-> statutEcheance[e], paye |-> Paye(e),
   reste  |-> Reste(MontantTotalDu[e], Paye(e))]

FindById(f) ==
  [accorde      |-> MontantAccorde[f],
   disbursements |-> decaissements[f],
   installments |-> [e \in EcheancesDe(f) |-> LigneEcheance(e)]]

FinancingTotals(passees, champ) ==
  Total([f \in Financements |-> Performance(f, passees, champ)])

\* In tenths of a percent.
TauxRemboursement(passees) ==
  LET du == FinancingTotals(passees, "du")
      taux == (2000 * FinancingTotals(passees, "rembourse") + du) \div (2 * du)
  IN  IF du = 0 THEN 0 ELSE IF taux > 1000 THEN 1000 ELSE taux

OverdueInstallments(passees) ==
  LET enRetard == {f \in Financements : Impaye(f, passees) > 0}
  IN  [dossiers |-> enRetard,
       montant  |-> Total([f \in enRetard |-> Impaye(f, passees)])]

\* PREVU with a date_prevue in the past; every planned date is taken as past.
Prevus(f) == {n \in 1 .. Len(decaissements[f]) : decaissements[f][n].statut = "PREVU"}

OverdueDisbursements == UNION {{f} \X Prevus(f) : f \in Financements}

\* The bank of a financing, Personne for "Sans banque partenaire".
BanqueSuivie(f) == BanquePartenaire[f]

BanquesSuivies == {BanqueSuivie(f) : f \in Financements}

BankBreakdown(banque, passees, champ) ==
  Total([f \in {x \in Financements : BanqueSuivie(x) = banque} |-> Performance(f, passees, champ)])

OverdueByBank(passees) ==
  LET enRetard == {f \in Financements : Impaye(f, passees) > 0}
  IN  {<<banque, BankBreakdown(banque, passees, "impaye")>> :
         banque \in {BanqueSuivie(f) : f \in enRetard}}

\* The alerts about money.
BuildAlerts(passees) ==
  (IF OverdueInstallments(passees).dossiers # {} THEN {<<"echeances-retard">>} ELSE {})
  \cup (IF OverdueDisbursements # {} THEN {<<"decaissements-retard">>} ELSE {})
  \cup {<<"banque-retard", b[1]>> : b \in {x \in OverdueByBank(passees) : x[2] > 0}}

-----------------------------------------------------------------------------
(* The forms of the two portals, computed in the page from the detail it   *)
(* has loaded.                                                             *)

TotalDes(lignes, statuts) ==
  Somme([i \in 1 .. Len(lignes) |-> IF lignes[i].statut \in statuts THEN lignes[i].montant ELSE 0])

\* statut !== 'ANNULE'
NonAnnules == {"PREVU", "EFFECTUE"}

\* Mutant: only what was paid out is taken from the grant.
PageDirectionEffectue(f) ==
  LET detail == FindById(f)
      verse  == TotalDes(detail.disbursements, {"EFFECTUE"})
  IN  [disbursed |-> verse,
       repaid    |-> Total([e \in EcheancesDe(f) |-> detail.installments[e].paye]),
       remainingDisbursement |-> detail.accorde - verse,
       openInstallments |-> {e \in EcheancesDe(f) : detail.installments[e].reste > 0}]

\* Direction: what may be planned, the instalments the repayment form lists.
PageDirection(f) ==
  LET detail == FindById(f)
      engage == TotalDes(detail.disbursements, NonAnnules)
  IN  [disbursed |-> TotalDes(detail.disbursements, {"EFFECTUE"}),
       repaid    |-> Total([e \in EcheancesDe(f) |-> detail.installments[e].paye]),
       remainingDisbursement |-> detail.accorde - engage,
       openInstallments |-> {e \in EcheancesDe(f) : detail.installments[e].reste > 0}]

\* Partner: the same figures, the balance cut at 0.
PagePartenaire(f) ==
  LET detail    == FindById(f)
      committed == TotalDes(detail.disbursements, NonAnnules)
  IN  [disbursed |-> TotalDes(detail.disbursements, {"EFFECTUE"}),
       repaid    |-> Total([e \in EcheancesDe(f) |-> detail.installments[e].paye]),
       remainingDisbursement |-> Reste(detail.accorde, committed),
       openInstallments |-> {e \in EcheancesDe(f) : detail.installments[e].reste > 0}]

-----------------------------------------------------------------------------
(* A partner bank, within its scope.                                       *)

PartnerList(u) == {f \in Financements : <<u, f>> \in Perimetre}

PartnerFindById(u, f) ==
  IF f \in PartnerList(u) THEN {FindById(f)} ELSE {}

PartnerTotals(u, passees, champ) ==
  Total([f \in PartnerList(u) |-> Performance(f, passees, champ)])

\* statut <> 'PAYEE' AND date_echeance >= CURRENT_DATE, HAVING reste > 0.
EcheancesOuvertes(u, jour) ==
  {e \in Echeances :
     /\ FinancementDe[e] \in PartnerList(u)
     /\ statutEcheance[e] # "PAYEE"
     /\ DateEcheance[e] >= jour
     /\ LigneEcheance(e).reste > 0}

\* No row left out is dated before a row kept: ORDER BY date_echeance ASC.
PlusProches(T, S) ==
  \A e \in T, x \in S \ T : DateEcheance[e] <= DateEcheance[x]

\* LIMIT: the lists the query may return, rows of one date in any order.
EcheancesAVenir(u, jour) ==
  LET ouvertes == EcheancesOuvertes(u, jour)
      nombre   == Cardinality(ouvertes)
  IN  {T \in SUBSET ouvertes :
         /\ Cardinality(T) = IF nombre <= Limite THEN nombre ELSE Limite
         /\ PlusProches(T, ouvertes)}

\* The audit rows that name the bank: one per declaration that committed.
Operations(u) ==
  {r \in Requetes : Partner(r) /\ requete[r].user = u /\ pc[r] = "done"}

-----------------------------------------------------------------------------
(* Properties.                                                             *)

\* Every CURRENT_DATE gives the sets and the lists of one of these days.
Jours == {0} \cup UNION {{DateEcheance[e], DateEcheance[e] + 1} : e \in Echeances}

\* What is late instalment by instalment.
RetardReel(f, passees) ==
  Total([e \in EcheancesDe(f) \cap passees |-> MontantTotalDu[e] - Paye(e)])

(* The arrears of the portfolio are sums over a whole financing: they      *)
(* never exceed what its past instalments really lack, they are exactly    *)
(* that unless something was paid ahead on a later instalment, the alert   *)
(* and the totals agree on them, bank by bank as well, the banks named as  *)
(* late are named with something to collect, and a repayment rate below    *)
(* 100 % comes with arrears.                                               *)
ArrieresFideles ==
  \A passees \in {EcheancesPassees(jour) : jour \in Jours} :
    LET retard  == OverdueInstallments(passees)
        alertes == BuildAlerts(passees)
        parBanque == [b \in BanquesSuivies |-> BankBreakdown(b, passees, "impaye")]
    IN  /\ \A f \in Financements :
             LET impaye == Impaye(f, passees)
                 reel   == RetardReel(f, passees)
                 avance == \E e \in EcheancesDe(f) \ passees : Paye(e) > 0
             IN  /\ impaye <= reel
                 /\ ~ avance => impaye = reel
                 /\ f \in retard.dossiers
                      => \E e \in EcheancesDe(f) \cap passees : LigneEcheance(e).reste > 0
        /\ retard.montant = FinancingTotals(passees, "impaye")
        /\ retard.montant = Total(parBanque)
        /\ \A b \in BanquesSuivies : <<"banque-retard", b>> \in alertes <=> parBanque[b] > 0
        /\ <<"echeances-retard">> \in alertes <=> retard.montant > 0
        /\ FinancingTotals(passees, "du") > 0 /\ TauxRemboursement(passees) < 1000
             => retard.dossiers # {}

\* An instalment of the partner's scope that can still be paid, not overdue.
ResteAVenir(u, jour) ==
  {e \in Echeances : /\ FinancementDe[e] \in PartnerList(u)
                     /\ jour <= DateEcheance[e]
                     /\ Paye(e) < MontantTotalDu[e]}

(* The partner's list, which filters on a status that a repayment computed *)
(* and is cut at Limite rows, names only instalments of its scope that can *)
(* still be paid and are not overdue; one of these is missing only from a  *)
(* full list, whose rows all come first.  Its totals account for every     *)
(* declaration in its history.                                             *)
AVenirFidele ==
  \A u \in Partenaires :
    /\ \A jour \in Jours :
         /\ EcheancesAVenir(u, jour) # {}
         /\ \A liste \in EcheancesAVenir(u, jour) :
              /\ liste \subseteq ResteAVenir(u, jour)
              /\ \A x \in ResteAVenir(u, jour) \ liste :
                   /\ Cardinality(liste) = Limite
                   /\ \A e \in liste : DateEcheance[e] <= DateEcheance[x]
    /\ \A r \in Operations(u) :
         LET q == requete[r]
         IN  /\ PartnerFindById(u, q.f) # {}
             /\ q.op = "declareDisbursement" =>
                  q.montant <= PartnerTotals(u, {}, "decaisse")
             /\ q.op = "declareRepayment" =>
                  q.montant <= PartnerTotals(u, {}, "rembourse")

(* The balance on the page is the balance under the lock: on both portals, *)
(* read again by a page that adds the rows up itself, an amount fits what  *)
(* is shown exactly when the API alone would still take it, the forms list *)
(* the instalments that can still be paid, and what is neither paid out    *)
(* nor left to plan is what the late-tranche alert may name.               *)
SoldesExacts ==
  \A f \in Financements :
    LET page    == PageDirection(f)
        enCours == {x[2] : x \in {y \in OverdueDisbursements : y[1] = f}}
    IN  /\ PagePartenaire(f) = page
        /\ \A m \in Montants :
             m <= page.remainingDisbursement <=> Engage(f) + m <= MontantAccorde[f]
        /\ page.openInstallments =
             {e \in EcheancesDe(f) : \E m \in 1 .. MontantTotalDu[e] : Paye(e) + m <= MontantTotalDu[e]}
        /\ page.disbursed = MontantDecaisse(f)
        /\ page.repaid = MontantRembourse(f)
        /\ page.disbursed + page.remainingDisbursement
             + Total([n \in enCours |-> decaissements[f][n].montant]) = MontantAccorde[f]

\* The calls are answered.  What is read depends on the rows only, and a call at
\* work may fail and leave them as they are: whatever the rows ever are, they
\* are so in such a state too.
AppelsClos == \A r \in Requetes : pc[r] \in Terminal

\* The executive dashboard misses no arrears that nothing hides, and invents
\* none, whatever has been paid and in whatever order.
ImpayeMinore == AppelsClos => ArrieresFideles

\* What a bank or the Direction acts on is what the API would take: the list of
\* what is to come, and the balances of the two detail pages.
MontantsAffiches == AppelsClos => AVenirFidele /\ SoldesExacts
=============================================================================
