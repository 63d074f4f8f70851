----------------------------- MODULE Documents -----------------------------
(***************************************************************************)
(* Documents of one dossier: concurrent uploads, each an object in S3 and  *)
(* a row in PostgreSQL, and the agents' verifications.                     *)
(*                                                                         *)
(* The rows are listed in the order of their COMMITs, so what a statement  *)
(* sees at READ COMMITTED is a prefix of the list.  An UPDATE takes the    *)
(* locks of all its rows in one step.                                      *)
(***************************************************************************)
EXTENDS Naturals, Sequences

CONSTANTS
  Depots,     \* upload calls; also the id of the row and of the object
  TypeDe,     \* the type_document of each
  Verifs,     \* verification calls
  Rien        \* SQL NULL

ASSUME DocumentsAssumption == Rien \notin Depots

VARIABLES
  accepte,    \* the dossier's status is BROUILLON or COMPLEMENT_REQUIS
  table,      \* committed rows of dossier_documents
  objets,     \* objects in the bucket
  pc,         \* what each upload does next, or its outcome
  vu,         \* per upload, how many rows its UPDATE's snapshot holds
  verif       \* each verification: its next step, its row, its verdict

vars == <<accepte, table, objets, pc, vu, verif>>

Statuts == {"A_VERIFIER", "VALIDE", "A_COMPLETER", "REJETE"}
Avis    == Statuts \ {"A_VERIFIER"}

EnTransaction == {"tx", "update", "commit"}
EnCours       == {"check", "put", "cleanup", "lire"} \cup EnTransaction

\* "efface": create threw and the object was removed; "echec": any other error,
\* or no answer at all, after which the object may be there and the row too.
Issues == {"ok", "refuse", "echec", "efface"}

Ligne == [depot: Depots, statut: Statuts, remplacePar: Depots \cup {Rien}]

TypeOK ==
  /\ accepte \in BOOLEAN
  /\ table \in Seq(Ligne)
  /\ objets \subseteq Depots
  /\ pc \in [Depots -> EnCours \cup Issues]
  /\ vu \in [Depots -> 0 .. Len(table)]
  /\ verif \in [Verifs -> [pc: {"lock", "write", "ok", "superseded", "error"},
                           n: 0 .. Len(table), avis: Avis]]

Init ==
  /\ accepte = TRUE
  /\ table = <<>>
  /\ objets = {}
  /\ pc = [d \in Depots |-> "check"]
  /\ vu = [d \in Depots |-> 0]
  /\ verif \in [Verifs -> [pc: {"lock"}, n: {0}, avis: Avis]]

-----------------------------------------------------------------------------

Courante(n) == table[n].remplacePar = Rien

\* Mutant: the last row only, since one at most is current.
CiblesDerniere(d) ==
  {n \in 1 .. vu[d] : n = vu[d] /\ TypeDe[table[n].depot] = TypeDe[d] /\ Courante(n)}

\* WHERE type_document = $3 AND superseded_by IS NULL, in the snapshot vu: what
\* has been replaced since is skipped once its lock is had.
Cibles(d) ==
  {n \in 1 .. vu[d] : TypeDe[table[n].depot] = TypeDe[d] /\ Courante(n)}

\* Rows locked until COMMIT by another upload, by a verification.
VerrousDepots(d) == UNION {Cibles(e) : e \in {x \in Depots \ {d} : pc[x] = "commit"}}
VerrousVerifs    == {verif[v].n : v \in {w \in Verifs : verif[w].pc = "write"}}

Va(d, etape) == pc' = [pc EXCEPT ![d] = etape]

\* The dossier is submitted, or sent back to the PME.
Transition ==
  /\ accepte' = ~ accepte
  /\ UNCHANGED <<table, objets, pc, vu, verif>>

\* The file and the malware scan, then the dossier's status.
Check(d) ==
  /\ pc[d] = "check"
  /\ \/ accepte /\ Va(d, "put")
     \/ Va(d, "refuse")
  /\ UNCHANGED <<accepte, table, objets, vu, verif>>

Put(d) ==
  /\ pc[d] = "put"
  /\ objets' = objets \cup {d}
  /\ Va(d, "tx")
  /\ UNCHANGED <<accepte, table, vu, verif>>

\* Mutant: the upload is not awaited, and its failure passes unseen.
PutFailsSansAwait(d) ==
  /\ pc[d] = "put"
  /\ objets' \in {objets, objets \cup {d}}
  /\ Va(d, "tx")
  /\ UNCHANGED <<accepte, table, vu, verif>>

\* upload throws, before the try; the object may have arrived.
PutFails(d) ==
  /\ pc[d] = "put"
  /\ objets' \in {objets, objets \cup {d}}
  /\ Va(d, "echec")
  /\ UNCHANGED <<accepte, table, vu, verif>>

\* The INSERT is done; the UPDATE that supersedes takes its snapshot.
Snapshot(d) ==
  /\ pc[d] = "tx"
  /\ vu' = [vu EXCEPT ![d] = Len(table)]
  /\ Va(d, "update")
  /\ UNCHANGED <<accepte, table, objets, verif>>

Supersede(d) ==
  /\ pc[d] = "update"
  /\ Cibles(d) \cap (VerrousDepots(d) \cup VerrousVerifs) = {}
  /\ Va(d, "commit")
  /\ UNCHANGED <<accepte, table, objets, vu, verif>>

ApresCommit(d) ==
  Append([n \in DOMAIN table |->
            IF n \in Cibles(d) THEN [table[n] EXCEPT !.remplacePar = d] ELSE table[n]],
         [depot |-> d, statut |-> "A_VERIFIER", remplacePar |-> Rien])

\* COMMIT; its answer may be lost, and then create throws all the same.
Commit(d) ==
  /\ pc[d] = "commit"
  /\ table' = ApresCommit(d)
  /\ \/ Va(d, "lire")
     \/ Va(d, "cleanup")
  /\ UNCHANGED <<accepte, objets, vu, verif>>

\* A statement fails: the transaction is rolled back.
CreateFails(d) ==
  /\ pc[d] \in EnTransaction
  /\ Va(d, "cleanup")
  /\ UNCHANGED <<accepte, table, objets, vu, verif>>

\* delete(...).catch(() => undefined): an object that could not be deleted is
\* left behind, and the answer is the error of create all the same.
Cleanup(d) ==
  /\ pc[d] = "cleanup"
  /\ \/ /\ objets' = objets \ {d}
        /\ Va(d, "efface")
     \/ /\ UNCHANGED objets
        /\ Va(d, "echec")
  /\ UNCHANGED <<accepte, table, vu, verif>>

\* findOwnedById, outside the try: when it fails, what was stored stays.
FindOwned(d) ==
  /\ pc[d] = "lire"
  /\ Va(d, "ok") \/ Va(d, "echec")
  /\ UNCHANGED <<accepte, table, objets, vu, verif>>

\* The process stops.
Perdre(d) ==
  /\ pc[d] \in EnCours
  /\ Va(d, "echec")
  /\ UNCHANGED <<accepte, table, objets, vu, verif>>

\* Mutant: SELECT without FOR UPDATE.
VerifyLockSansAttente(v, n) ==
  /\ verif[v].pc = "lock"
  /\ verif' = [verif EXCEPT ![v] = [@ EXCEPT !.n = n,
                 !.pc = IF Courante(n) THEN "write" ELSE "superseded"]]
  /\ UNCHANGED <<accepte, table, objets, pc, vu>>

\* SELECT ... FOR UPDATE waits for the upload that is replacing the row.
VerifyLock(v, n) ==
  /\ verif[v].pc = "lock"
  /\ n \notin VerrousVerifs
  /\ \A d \in Depots : pc[d] = "commit" => n \notin Cibles(d)
  /\ verif' = [verif EXCEPT ![v] = [@ EXCEPT !.n = n,
                 !.pc = IF Courante(n) THEN "write" ELSE "superseded"]]
  /\ UNCHANGED <<accepte, table, objets, pc, vu>>

VerifyWrite(v) ==
  /\ verif[v].pc = "write"
  /\ table' = [table EXCEPT ![verif[v].n] = [@ EXCEPT !.statut = verif[v].avis]]
  /\ verif' = [verif EXCEPT ![v] = [@ EXCEPT !.pc = "ok"]]
  /\ UNCHANGED <<accepte, objets, pc, vu>>

VerifyFails(v) ==
  /\ verif[v].pc = "write"
  /\ verif' = [verif EXCEPT ![v] = [@ EXCEPT !.pc = "error"]]
  /\ UNCHANGED <<accepte, table, objets, pc, vu>>

UploadOwn(d) ==
  \/ Check(d)
  \/ Put(d)
  \/ PutFails(d)
  \/ Snapshot(d)
  \/ Supersede(d)
  \/ Commit(d)
  \/ CreateFails(d)
  \/ Cleanup(d)
  \/ FindOwned(d)
  \/ Perdre(d)

Verify(v) ==
  \/ \E n \in DOMAIN table : VerifyLock(v, n)
  \/ VerifyWrite(v)
  \/ VerifyFails(v)

Next ==
  \/ Transition
  \/ \E d \in Depots : UploadOwn(d)
  \/ \E v \in Verifs : Verify(v)

Spec == Init /\ [][Next]_vars

-----------------------------------------------------------------------------
(* Properties.                                                             *)

\* A version is replaced by one that committed after it, of the same type: the
\* last one is never replaced, and the chain never turns back.
DerniereCourante ==
  \A n \in DOMAIN table : ~ Courante(n) =>
    \E m \in DOMAIN table :
      /\ m > n
      /\ table[m].depot = table[n].remplacePar
      /\ TypeDe[table[m].depot] = TypeDe[table[n].depot]

\* Two versions are current together only when the UPDATE of the later one
\* began before the earlier one committed.
CourantesSimultanees ==
  \A n, m \in DOMAIN table :
    /\ n < m
    /\ TypeDe[table[n].depot] = TypeDe[table[m].depot]
    /\ Courante(n)
    => vu[table[m].depot] < n

\* A replaced version keeps its verdict and its successor: no agent verifies it
\* any more, whatever he had on his screen.
HistoriqueFige ==
  [][\A n \in DOMAIN table : ~ Courante(n) => table'[n] = table[n]]_vars

\* An upload whose create returned has its row and its object, and so has one
\* answered with success; one that removed its object has none left.  Whatever
\* else fails, the final read included, a row is without its object in one case
\* only: its COMMIT went through, create threw all the same, and the catch
\* removed the object.
ObjetsCoherents ==
  /\ \A d \in Depots :
       /\ pc[d] \in {"lire", "ok"}
            => d \in objets /\ \E n \in DOMAIN table : table[n].depot = d
       /\ pc[d] = "efface" => d \notin objets
  /\ \A n \in DOMAIN table : table[n].depot \in objets \/ pc[table[n].depot] = "efface"

\* documents.repository.ts:138, "the (at most one) row that was still current":
\* one version of a type is current.
UneSeuleCourante ==
  \A n, m \in DOMAIN table :
    /\ TypeDe[table[n].depot] = TypeDe[table[m].depot]
    /\ Courante(n) /\ Courante(m)
    => n = m
=============================================================================
