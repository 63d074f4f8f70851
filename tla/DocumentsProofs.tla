-------------------------- MODULE DocumentsProofs --------------------------
(***************************************************************************)
(* Proofs about Documents and Pieces, for any number of uploads and        *)
(* verifications.                                                          *)
(***************************************************************************)
EXTENDS Pieces, SequenceTheorems, FiniteSetTheorems, TLAPS

\* A row has one upload, which has committed and kept its snapshot.
Lignes ==
  /\ \A n \in DOMAIN table : pc[table[n].depot] \in {"lire", "ok", "cleanup", "echec", "efface"}
  /\ \A n, m \in DOMAIN table : table[n].depot = table[m].depot => n = m

\* The object is stored before the transaction and deleted after it.
Stockes == \A d \in Depots : pc[d] \in EnTransaction \cup {"cleanup", "lire", "ok"} => d \in objets

\* A row that is being verified is current, and no upload holds it.
Verrouillees ==
  \A v \in Verifs : verif[v].pc = "write" =>
    /\ verif[v].n \in DOMAIN table
    /\ Courante(verif[v].n)
    /\ \A d \in Depots : pc[d] = "commit" => verif[v].n \notin Cibles(d)

\* The inductive invariant.
IInv ==
  /\ TypeOK
  /\ Lignes
  /\ Stockes
  /\ Verrouillees
  /\ DerniereCourante
  /\ CourantesSimultanees
  /\ ObjetsCoherents

-----------------------------------------------------------------------------

(* What a COMMIT makes of the table.                                       *)
LEMMA TableCommit ==
  ASSUME TypeOK, DocumentsAssumption, NEW d \in Depots, Commit(d)
  PROVE  /\ Len(table) \in Nat
         /\ table' \in Seq(Ligne)
         /\ Len(table') = Len(table) + 1
         /\ DOMAIN table = 1 .. Len(table)
         /\ DOMAIN table' = 1 .. Len(table) + 1
         /\ table'[Len(table) + 1] = [depot |-> d, statut |-> "A_VERIFIER", remplacePar |-> Rien]
         /\ \A n \in DOMAIN table :
              table'[n] = IF n \in Cibles(d) THEN [table[n] EXCEPT !.remplacePar = d] ELSE table[n]
<1> DEFINE f(n) == IF n \in Cibles(d) THEN [table[n] EXCEPT !.remplacePar = d] ELSE table[n]
           e == [depot |-> d, statut |-> "A_VERIFIER", remplacePar |-> Rien]
           t == [n \in DOMAIN table |-> f(n)]
<1>1. table \in Seq(Ligne)  BY DEF TypeOK
<1>2. Len(table) \in Nat /\ DOMAIN table = 1 .. Len(table)  BY <1>1
<1>3. \A n \in DOMAIN table : f(n) \in Ligne
  <2>1. SUFFICES ASSUME NEW n \in DOMAIN table  PROVE f(n) \in Ligne  OBVIOUS
  <2>2. table[n] \in Ligne  BY <1>1
  <2>3. QED  BY <2>2 DEF Ligne
<1>4. e \in Ligne  BY DEF Ligne, Statuts
<1>5. table' = Append(t, e)  BY DEF Commit, ApresCommit
<1> HIDE DEF f, e
<1>6. t \in Seq(Ligne) /\ Len(t) = Len(table)  BY <1>2, <1>3
<1>7. \A n \in DOMAIN table : t[n] = f(n)  OBVIOUS
<1> HIDE DEF t
<1>8. /\ table' \in Seq(Ligne)
      /\ Len(table') = Len(table) + 1
      /\ DOMAIN table' = 1 .. Len(table) + 1
      /\ table'[Len(table) + 1] = e
      /\ \A n \in 1 .. Len(table) : table'[n] = t[n]
  BY <1>2, <1>4, <1>5, <1>6
<1>9. QED  BY <1>2, <1>7, <1>8 DEF f, e

(* What a verification makes of the table.                                 *)
LEMMA TableVerify ==
  ASSUME TypeOK, Verrouillees, NEW v \in Verifs, VerifyWrite(v)
  PROVE  /\ verif[v].n \in DOMAIN table
         /\ table' \in Seq(Ligne)
         /\ Len(table') = Len(table)
         /\ DOMAIN table' = DOMAIN table
         /\ table'[verif[v].n] = [table[verif[v].n] EXCEPT !.statut = verif[v].avis]
         /\ \A n \in DOMAIN table : n # verif[v].n => table'[n] = table[n]
<1> DEFINE k == verif[v].n
           e == [table[k] EXCEPT !.statut = verif[v].avis]
<1>1. table \in Seq(Ligne)  BY DEF TypeOK
<1>2. k \in DOMAIN table  BY DEF VerifyWrite, Verrouillees
<1>3. e \in Ligne
  <2>1. table[k] \in Ligne  BY <1>1, <1>2
  <2>2. verif[v].avis \in Statuts  BY DEF TypeOK, Avis
  <2>3. QED  BY <2>1, <2>2 DEF Ligne
<1>4. table' = [table EXCEPT ![k] = e]  BY DEF VerifyWrite
<1> HIDE DEF k, e
<1>5. /\ table' \in Seq(Ligne)
      /\ Len(table') = Len(table)
      /\ DOMAIN table' = DOMAIN table
      /\ table'[k] = e
      /\ \A n \in DOMAIN table : n # k => table'[n] = table[n]
  BY <1>1, <1>2, <1>3, <1>4, ExceptSeq
<1>6. QED  BY <1>2, <1>5 DEF k, e

(* Every step leaves the table alone, commits an upload or a verdict.      *)
LEMMA Etapes ==
  ASSUME [Next]_vars
  PROVE  \/ UNCHANGED table
         \/ \E d \in Depots : Commit(d)
         \/ \E v \in Verifs : VerifyWrite(v)
BY DEF Next, Transition, UploadOwn, Check, Put, PutFails, Snapshot, Supersede, CreateFails, Cleanup,
   FindOwned, Perdre, Verify, VerifyLock, VerifyFails, vars

(* The table only grows; a row keeps its upload, and once replaced does    *)
(* not change at all.                                                      *)
LEMMA Croissance ==
  ASSUME TypeOK, Verrouillees, DocumentsAssumption, [Next]_vars
  PROVE  /\ table' \in Seq(Ligne)
         /\ Len(table) \in Nat /\ Len(table') \in Nat /\ Len(table) =< Len(table')
         /\ DOMAIN table = 1 .. Len(table) /\ DOMAIN table' = 1 .. Len(table')
         /\ \A n \in DOMAIN table :
              /\ n \in DOMAIN table'
              /\ table'[n].depot = table[n].depot
              /\ Courante(n)' => Courante(n)
              /\ ~ Courante(n) => table'[n] = table[n]
<1>1. table \in Seq(Ligne)  BY DEF TypeOK
<1>2. Len(table) \in Nat /\ DOMAIN table = 1 .. Len(table)  BY <1>1
<1>3. CASE UNCHANGED table  BY <1>1, <1>2, <1>3 DEF Courante
<1>4. ASSUME NEW d \in Depots, Commit(d)
      PROVE  /\ table' \in Seq(Ligne)
             /\ Len(table') = Len(table) + 1
             /\ DOMAIN table' = 1 .. Len(table')
             /\ \A n \in DOMAIN table :
                  /\ n \in DOMAIN table'
                  /\ table'[n].depot = table[n].depot
                  /\ Courante(n)' => Courante(n)
                  /\ ~ Courante(n) => table'[n] = table[n]
  <2>1. table' \in Seq(Ligne) /\ Len(table') = Len(table) + 1 /\ DOMAIN table' = 1 .. Len(table')
    BY <1>4, TableCommit
  <2>2. SUFFICES ASSUME NEW n \in DOMAIN table
                 PROVE  /\ n \in DOMAIN table'
                        /\ table'[n].depot = table[n].depot
                        /\ Courante(n)' => Courante(n)
                        /\ ~ Courante(n) => table'[n] = table[n]
    BY <2>1
  <2>3. table'[n] = IF n \in Cibles(d) THEN [table[n] EXCEPT !.remplacePar = d] ELSE table[n]
    BY <1>4, TableCommit
  <2>4. table[n] \in Ligne  BY <1>1
  <2>5. n \in Cibles(d) => Courante(n)  BY DEF Cibles
  <2>6. n \in DOMAIN table'  BY <1>2, <2>1
  <2>7. QED  BY <2>3, <2>4, <2>5, <2>6 DEF Courante, Ligne
<1>5. ASSUME NEW v \in Verifs, VerifyWrite(v)
      PROVE  /\ table' \in Seq(Ligne)
             /\ Len(table') = Len(table)
             /\ DOMAIN table' = DOMAIN table
             /\ \A n \in DOMAIN table :
                  /\ table'[n].depot = table[n].depot
                  /\ Courante(n)' => Courante(n)
                  /\ ~ Courante(n) => table'[n] = table[n]
  <2>1. Courante(verif[v].n)  BY <1>5 DEF VerifyWrite, Verrouillees
  <2>2. SUFFICES ASSUME NEW n \in DOMAIN table
                 PROVE  /\ table'[n].depot = table[n].depot
                        /\ Courante(n)' => Courante(n)
                        /\ ~ Courante(n) => table'[n] = table[n]
    BY <1>5, TableVerify
  <2>3. table[n] \in Ligne  BY <1>1
  <2>4. table'[n] = IF n = verif[v].n THEN [table[n] EXCEPT !.statut = verif[v].avis] ELSE table[n]
    BY <1>5, TableVerify
  <2>5. QED  BY <2>1, <2>3, <2>4 DEF Courante, Ligne
<1>6. QED  BY <1>2, <1>3, <1>4, <1>5, Etapes

-----------------------------------------------------------------------------

(* Every step keeps the columns, the calls and the snapshots well formed.  *)
LEMMA TypeInv ==
  ASSUME TypeOK, Verrouillees, DocumentsAssumption, [Next]_vars
  PROVE  TypeOK'
<1>1. /\ table' \in Seq(Ligne)
      /\ Len(table) \in Nat /\ Len(table') \in Nat /\ Len(table) =< Len(table')
      /\ DOMAIN table = 1 .. Len(table)
  BY Croissance
<1>2. 0 .. Len(table) \subseteq 0 .. Len(table') /\ Len(table) \in 0 .. Len(table')  BY <1>1
<1>3. CASE UNCHANGED vars  BY <1>1, <1>2, <1>3 DEF TypeOK, vars
<1>4. CASE Transition  BY <1>1, <1>2, <1>4 DEF Transition, TypeOK
<1>5. ASSUME NEW d \in Depots, UploadOwn(d)  PROVE TypeOK'
  <2>1. accepte' \in BOOLEAN /\ objets' \subseteq Depots
    BY <1>5 DEF TypeOK, UploadOwn, Check, Put, PutFails, Snapshot, Supersede, Commit, CreateFails,
       Cleanup, FindOwned, Perdre
  <2>2. pc' \in [Depots -> EnCours \cup Issues]
    BY <1>5 DEF TypeOK, UploadOwn, Check, Put, PutFails, Snapshot, Supersede, Commit, CreateFails,
       Cleanup, FindOwned, Perdre, Va, EnCours, Issues, EnTransaction
  <2>3. vu' \in [Depots -> 0 .. Len(table')]
    <3>1. vu' = vu \/ vu' = [vu EXCEPT ![d] = Len(table)]
      BY <1>5 DEF UploadOwn, Check, Put, PutFails, Snapshot, Supersede, Commit, CreateFails,
         Cleanup, FindOwned, Perdre
    <3>2. QED  BY <1>2, <3>1 DEF TypeOK
  <2>4. verif' = verif
    BY <1>5 DEF UploadOwn, Check, Put, PutFails, Snapshot, Supersede, Commit, CreateFails,
       Cleanup, FindOwned, Perdre
  <2>5. QED  BY <1>1, <1>2, <2>1, <2>2, <2>3, <2>4 DEF TypeOK
<1>6. ASSUME NEW v \in Verifs, Verify(v)  PROVE TypeOK'
  <2>1. UNCHANGED <<accepte, objets, pc, vu>>
    BY <1>6 DEF Verify, VerifyLock, VerifyWrite, VerifyFails
  <2>2. verif' \in [Verifs -> [pc: {"lock", "write", "ok", "superseded", "error"},
                               n: 0 .. Len(table'), avis: Avis]]
    <3>1. CASE \E n \in DOMAIN table : VerifyLock(v, n)
      <4>1. PICK n \in DOMAIN table : VerifyLock(v, n)  BY <3>1
      <4>2. n \in 0 .. Len(table')  BY <1>1, <1>2
      <4>3. QED  BY <1>2, <4>1, <4>2 DEF VerifyLock, TypeOK
    <3>2. CASE VerifyWrite(v)  BY <1>2, <3>2 DEF VerifyWrite, TypeOK
    <3>3. CASE VerifyFails(v)  BY <1>2, <3>3 DEF VerifyFails, TypeOK
    <3>4. QED  BY <1>6, <3>1, <3>2, <3>3 DEF Verify
  <2>3. QED  BY <1>1, <1>2, <2>1, <2>2 DEF TypeOK
<1>7. QED  BY <1>3, <1>4, <1>5, <1>6 DEF Next

(* Every step keeps one row per upload, once it has committed.             *)
LEMMA LignesInv ==
  ASSUME TypeOK, Lignes, Verrouillees, DocumentsAssumption, [Next]_vars
  PROVE  Lignes'
<1>1. \A n \in DOMAIN table : n \in DOMAIN table' /\ table'[n].depot = table[n].depot
  BY Croissance
<1>2. \A n \in DOMAIN table : table[n].depot \in Depots
  <2>1. table \in Seq(Ligne)  BY DEF TypeOK
  <2>2. \A n \in DOMAIN table : table[n] \in Ligne  BY <2>1
  <2>3. QED  BY <2>2 DEF Ligne
<1>3. \A n \in DOMAIN table : pc'[table[n].depot] \in {"lire", "ok", "cleanup", "echec", "efface"}
  <2>1. \A d \in Depots : pc[d] \in {"lire", "ok", "cleanup", "echec", "efface"} =>
          pc'[d] \in {"lire", "ok", "cleanup", "echec", "efface"}
    <3>1. ASSUME NEW d \in Depots, UploadOwn(d), NEW e \in Depots,
                 pc[e] \in {"lire", "ok", "cleanup", "echec", "efface"}
          PROVE  pc'[e] \in {"lire", "ok", "cleanup", "echec", "efface"}
      BY <3>1 DEF TypeOK, UploadOwn, Check, Put, PutFails, Snapshot, Supersede, Commit, CreateFails,
         Cleanup, FindOwned, Perdre, Va, EnTransaction
    <3>2. CASE UNCHANGED pc  BY <3>2
    <3>3. QED  BY <3>1, <3>2 DEF Next, Transition, Verify, VerifyLock, VerifyWrite, VerifyFails, vars
  <2>2. QED  BY <1>2, <2>1 DEF Lignes
<1>4. CASE DOMAIN table' = DOMAIN table  BY <1>1, <1>3, <1>4 DEF Lignes
<1>5. ASSUME NEW d \in Depots, Commit(d)  PROVE Lignes'
  <2>1. DOMAIN table' = DOMAIN table \cup {Len(table) + 1} /\ table'[Len(table) + 1].depot = d
    <3>1. /\ Len(table) \in Nat
          /\ DOMAIN table = 1 .. Len(table) /\ DOMAIN table' = 1 .. Len(table) + 1
          /\ table'[Len(table) + 1] = [depot |-> d, statut |-> "A_VERIFIER", remplacePar |-> Rien]
      BY <1>5, TableCommit
    <3>2. 1 .. Len(table) + 1 = (1 .. Len(table)) \cup {Len(table) + 1}  BY <3>1
    <3>3. QED  BY <3>1, <3>2
  <2>2. pc[d] = "commit" /\ pc'[d] \in {"lire", "cleanup"}
    BY <1>5 DEF Commit, Va, TypeOK
  <2>3. \A n \in DOMAIN table : table[n].depot # d  BY <2>2 DEF Lignes
  <2>4. QED  BY <1>1, <1>3, <2>1, <2>2, <2>3 DEF Lignes
<1>6. ASSUME NEW v \in Verifs, VerifyWrite(v)  PROVE DOMAIN table' = DOMAIN table
  BY <1>6, TableVerify
<1>7. QED  BY <1>4, <1>5, <1>6, Etapes

(* Every step keeps the object of a transaction in progress.               *)
LEMMA StockesInv ==
  ASSUME TypeOK, Stockes, [Next]_vars
  PROVE  Stockes'
<1>1. ASSUME NEW d \in Depots, UploadOwn(d)  PROVE Stockes'
  BY <1>1 DEF Stockes, TypeOK, UploadOwn, Check, Put, PutFails, Snapshot, Supersede, Commit,
     CreateFails, Cleanup, FindOwned, Perdre, Va, EnTransaction
<1>2. CASE UNCHANGED <<pc, objets>>  BY <1>2 DEF Stockes
<1>3. QED
  BY <1>1, <1>2 DEF Next, Transition, Verify, VerifyLock, VerifyWrite, VerifyFails, vars

(* Every step keeps a row that is being verified current and held by no    *)
(* upload.                                                                 *)
LEMMA VerrouilleesInv ==
  ASSUME TypeOK, Lignes, Verrouillees, DocumentsAssumption, [Next]_vars
  PROVE  Verrouillees'
<1>0. /\ table \in Seq(Ligne)
      /\ \A n \in DOMAIN table : n \in DOMAIN table' /\ table'[n].depot = table[n].depot
      /\ \A n \in DOMAIN table : Courante(n)' => Courante(n)
      /\ \A d \in Depots : vu[d] \in 0 .. Len(table)
  BY Croissance DEF TypeOK
<1>1. \A d \in Depots : 1 .. vu[d] \subseteq DOMAIN table  BY <1>0
<1>2. ASSUME NEW d \in Depots, vu'[d] = vu[d]  PROVE Cibles(d)' \subseteq Cibles(d)
  BY <1>0, <1>1, <1>2 DEF Cibles
<1>3. CASE UNCHANGED vars  BY <1>3 DEF vars, Verrouillees, Courante, Cibles
<1>4. CASE Transition  BY <1>4 DEF Transition, Verrouillees, Courante, Cibles
<1>5. ASSUME NEW d \in Depots, UploadOwn(d)  PROVE Verrouillees'
  <2>0. verif' = verif
    BY <1>5 DEF UploadOwn, Check, Put, PutFails, Snapshot, Supersede, Commit, CreateFails, Cleanup,
       FindOwned, Perdre
  <2>1. SUFFICES ASSUME NEW v \in Verifs, verif[v].pc = "write", NEW k \in DOMAIN table,
                        k = verif[v].n
                 PROVE  /\ Courante(k)'
                        /\ \A e \in Depots : pc'[e] = "commit" => k \notin Cibles(e)'
    BY <1>0, <2>0 DEF Verrouillees
  <2>2. Courante(k) /\ \A e \in Depots : pc[e] = "commit" => k \notin Cibles(e)
    BY <2>1 DEF Verrouillees
  <2>3. k \in VerrousVerifs  BY <2>1 DEF VerrousVerifs
  <2>4. Courante(k)'
    <3>1. CASE UNCHANGED table  BY <2>2, <3>1 DEF Courante
    <3>2. CASE Commit(d)
      <4>0. k \notin Cibles(d)  BY <2>2, <3>2 DEF Commit
      <4>1. table'[k] = table[k]  BY <3>2, <4>0, TableCommit
      <4>2. QED  BY <2>2, <4>1 DEF Courante
    <3>3. QED
      BY <1>5, <3>1, <3>2 DEF UploadOwn, Check, Put, PutFails, Snapshot, Supersede, CreateFails,
         Cleanup, FindOwned, Perdre
  <2>5. ASSUME NEW e \in Depots, pc'[e] = "commit"  PROVE k \notin Cibles(e)'
    <3>1. \/ pc[e] = "commit"
          \/ e = d /\ Supersede(d)
      BY <1>5, <2>5 DEF TypeOK, UploadOwn, Check, Put, PutFails, Snapshot, Supersede, Commit,
         CreateFails, Cleanup, FindOwned, Perdre, Va
    <3>2. vu'[e] = vu[e]
      BY <1>5, <2>5 DEF TypeOK, UploadOwn, Check, Put, PutFails, Snapshot, Supersede, Commit,
         CreateFails, Cleanup, FindOwned, Perdre, Va
    <3>3. k \notin Cibles(e)  BY <2>2, <2>3, <3>1 DEF Supersede
    <3>4. QED  BY <1>2, <3>2, <3>3
  <2>6. QED  BY <2>4, <2>5
<1>6. ASSUME NEW v \in Verifs, Verify(v)  PROVE Verrouillees'
  <2>1. UNCHANGED <<pc, vu>>
    BY <1>6 DEF Verify, VerifyLock, VerifyWrite, VerifyFails
  <2>2. \A n \in DOMAIN table : Courante(n) => Courante(n)'
    <3>1. CASE UNCHANGED table  BY <3>1 DEF Courante
    <3>2. CASE VerifyWrite(v)
      <4>1. SUFFICES ASSUME NEW n \in DOMAIN table, Courante(n)  PROVE Courante(n)'  OBVIOUS
      <4>2. table[n] \in Ligne  BY <1>0
      <4>3. table'[n] = IF n = verif[v].n THEN [table[n] EXCEPT !.statut = verif[v].avis] ELSE table[n]
        BY <3>2, TableVerify
      <4>4. QED  BY <4>1, <4>2, <4>3 DEF Courante, Ligne
    <3>3. QED  BY <1>6, <3>1, <3>2 DEF Verify, VerifyLock, VerifyFails
  <2>3. \A d \in Depots : Cibles(d)' \subseteq Cibles(d)  BY <1>2, <2>1
  <2>4. SUFFICES ASSUME NEW w \in Verifs, verif'[w].pc = "write", NEW k, k = verif'[w].n
                 PROVE  /\ k \in DOMAIN table'
                        /\ Courante(k)'
                        /\ \A d \in Depots : pc'[d] = "commit" => k \notin Cibles(d)'
    BY DEF Verrouillees
  <2>5. /\ k \in DOMAIN table
        /\ Courante(k)
        /\ \A d \in Depots : pc[d] = "commit" => k \notin Cibles(d)
    <3>1. CASE \E n \in DOMAIN table : VerifyLock(v, n)
      <4>1. PICK n \in DOMAIN table : VerifyLock(v, n)  BY <3>1
      <4>2. CASE w = v  BY <2>4, <4>1, <4>2 DEF VerifyLock, TypeOK
      <4>3. CASE w # v
        <5>1. verif'[w] = verif[w]  BY <4>1, <4>3 DEF VerifyLock, TypeOK
        <5>2. QED  BY <2>4, <5>1 DEF Verrouillees
      <4>4. QED  BY <4>2, <4>3
    <3>2. CASE VerifyWrite(v) \/ VerifyFails(v)
      <4>1. w # v  BY <2>4, <3>2 DEF VerifyWrite, VerifyFails, TypeOK
      <4>2. verif'[w] = verif[w]  BY <3>2, <4>1 DEF VerifyWrite, VerifyFails, TypeOK
      <4>3. QED  BY <2>4, <4>2 DEF Verrouillees
    <3>3. QED  BY <1>6, <3>1, <3>2 DEF Verify
  <2>6. QED  BY <1>0, <2>1, <2>2, <2>3, <2>5
<1>7. QED  BY <1>3, <1>4, <1>5, <1>6 DEF Next

(* Every step keeps the successor of a replaced version after it.          *)
LEMMA DerniereInv ==
  ASSUME TypeOK, Verrouillees, DerniereCourante, DocumentsAssumption, [Next]_vars
  PROVE  DerniereCourante'
<1>0. /\ Len(table) \in Nat /\ DOMAIN table = 1 .. Len(table)
      /\ \A n \in DOMAIN table :
           /\ n \in DOMAIN table' /\ table'[n].depot = table[n].depot
           /\ ~ Courante(n) => table'[n] = table[n]
  BY Croissance
<1>1. ASSUME NEW n \in DOMAIN table, ~ Courante(n)
      PROVE  \E m \in DOMAIN table' :
               /\ m > n
               /\ table'[m].depot = table'[n].remplacePar
               /\ TypeDe[table'[m].depot] = TypeDe[table'[n].depot]
  <2>1. PICK m \in DOMAIN table :
          /\ m > n
          /\ table[m].depot = table[n].remplacePar
          /\ TypeDe[table[m].depot] = TypeDe[table[n].depot]
    BY <1>1 DEF DerniereCourante
  <2>2. QED  BY <1>0, <1>1, <2>1
<1>2. CASE UNCHANGED table  BY <1>2 DEF DerniereCourante, Courante
<1>3. ASSUME NEW d \in Depots, Commit(d)  PROVE DerniereCourante'
  <2>1. /\ DOMAIN table' = 1 .. Len(table) + 1
        /\ table'[Len(table) + 1] = [depot |-> d, statut |-> "A_VERIFIER", remplacePar |-> Rien]
    BY <1>3, TableCommit
  <2>2. SUFFICES ASSUME NEW n \in DOMAIN table', table'[n].remplacePar # Rien
                 PROVE  \E m \in DOMAIN table' :
                          /\ m > n
                          /\ table'[m].depot = table'[n].remplacePar
                          /\ TypeDe[table'[m].depot] = TypeDe[table'[n].depot]
    BY DEF DerniereCourante, Courante
  <2>3. n \in DOMAIN table  BY <1>0, <2>1, <2>2
  <2>4. CASE ~ Courante(n)  BY <1>1, <2>3, <2>4
  <2>5. CASE Courante(n)
    <3>1. table'[n] = IF n \in Cibles(d) THEN [table[n] EXCEPT !.remplacePar = d] ELSE table[n]
      BY <1>3, <2>3, TableCommit
    <3>2. n \in Cibles(d)  BY <2>2, <2>5, <3>1 DEF Courante
    <3>3. table[n] \in Ligne
      <4>1. table \in Seq(Ligne)  BY DEF TypeOK
      <4>2. QED  BY <2>3, <4>1
    <3>4. table'[n].remplacePar = d  BY <3>1, <3>2, <3>3 DEF Ligne
    <3>5. TypeDe[table'[n].depot] = TypeDe[d]  BY <1>0, <2>3, <3>2 DEF Cibles
    <3>6. /\ Len(table) + 1 \in DOMAIN table' /\ Len(table) + 1 > n
          /\ table'[Len(table) + 1].depot = d
      BY <1>0, <2>1, <2>3
    <3>7. QED  BY <3>4, <3>5, <3>6
  <2>6. QED  BY <2>4, <2>5
<1>4. ASSUME NEW v \in Verifs, VerifyWrite(v)  PROVE DerniereCourante'
  <2>1. DOMAIN table' = DOMAIN table  BY <1>4, TableVerify
  <2>2. \A n \in DOMAIN table : Courante(n) => Courante(n)'
    <3>1. SUFFICES ASSUME NEW n \in DOMAIN table, Courante(n)  PROVE Courante(n)'  OBVIOUS
    <3>2. table \in Seq(Ligne)  BY DEF TypeOK
    <3>3. table[n] \in Ligne  BY <3>2
    <3>4. table'[n] = IF n = verif[v].n THEN [table[n] EXCEPT !.statut = verif[v].avis] ELSE table[n]
      BY <1>4, TableVerify
    <3>5. QED  BY <3>1, <3>3, <3>4 DEF Courante, Ligne
  <2>3. QED  BY <1>1, <2>1, <2>2 DEF DerniereCourante
<1>5. QED  BY <1>2, <1>3, <1>4, Etapes

(* Every step keeps two current versions those of overlapping uploads.     *)
LEMMA SimultaneesInv ==
  ASSUME TypeOK, Lignes, Verrouillees, CourantesSimultanees, DocumentsAssumption, [Next]_vars
  PROVE  CourantesSimultanees'
<1>0. /\ Len(table) \in Nat /\ DOMAIN table = 1 .. Len(table)
      /\ \A n \in DOMAIN table :
           /\ n \in DOMAIN table' /\ table'[n].depot = table[n].depot
           /\ Courante(n)' => Courante(n)
  BY Croissance
<1>1. \A n \in DOMAIN table : vu'[table[n].depot] = vu[table[n].depot]
  <2>1. SUFFICES ASSUME NEW n \in DOMAIN table  PROVE vu'[table[n].depot] = vu[table[n].depot]
    OBVIOUS
  <2>2. pc[table[n].depot] # "tx"  BY DEF Lignes
  <2>3. CASE UNCHANGED vu  BY <2>3
  <2>4. ASSUME NEW d \in Depots, Snapshot(d)  PROVE vu'[table[n].depot] = vu[table[n].depot]
    BY <2>2, <2>4 DEF Snapshot, TypeOK
  <2>5. QED
    BY <2>3, <2>4 DEF Next, Transition, UploadOwn, Check, Put, PutFails, Supersede, Commit,
       CreateFails, Cleanup, FindOwned, Perdre, Verify, VerifyLock, VerifyWrite, VerifyFails, vars
<1>2. ASSUME NEW n \in DOMAIN table, NEW m \in DOMAIN table, n < m,
             TypeDe[table'[n].depot] = TypeDe[table'[m].depot], Courante(n)'
      PROVE  vu'[table'[m].depot] < n
  BY <1>0, <1>1, <1>2 DEF CourantesSimultanees
<1>3. CASE DOMAIN table' = DOMAIN table  BY <1>2, <1>3 DEF CourantesSimultanees
<1>4. ASSUME NEW d \in Depots, Commit(d)  PROVE CourantesSimultanees'
  <2>1. /\ DOMAIN table' = 1 .. Len(table) + 1
        /\ table'[Len(table) + 1] = [depot |-> d, statut |-> "A_VERIFIER", remplacePar |-> Rien]
    BY <1>4, TableCommit
  <2>2. SUFFICES ASSUME NEW n \in DOMAIN table', NEW m \in DOMAIN table', n < m,
                        TypeDe[table'[n].depot] = TypeDe[table'[m].depot],
                        Courante(n)'
                 PROVE  vu'[table'[m].depot] < n
    BY DEF CourantesSimultanees
  <2>3. n \in DOMAIN table  BY <1>0, <2>1, <2>2
  <2>4. CASE m \in DOMAIN table  BY <1>2, <2>2, <2>3, <2>4
  <2>5. CASE m = Len(table) + 1
    <3>1. table'[n] = IF n \in Cibles(d) THEN [table[n] EXCEPT !.remplacePar = d] ELSE table[n]
      BY <1>4, <2>3, TableCommit
    <3>2. table[n] \in Ligne
      <4>1. table \in Seq(Ligne)  BY DEF TypeOK
      <4>2. QED  BY <2>3, <4>1
    <3>3. n \notin Cibles(d)
      BY <2>2, <3>1, <3>2, DocumentsAssumption DEF Courante, Ligne
    <3>4. Courante(n) /\ TypeDe[table[n].depot] = TypeDe[d]
      BY <1>0, <2>1, <2>2, <2>3, <2>5
    <3>5. vu[d] \in Nat /\ n \in Nat /\ n >= 1  BY <1>0, <2>3 DEF TypeOK
    <3>6. n \notin 1 .. vu[d]  BY <3>3, <3>4 DEF Cibles
    <3>7. vu'[d] = vu[d]  BY <1>4 DEF Commit
    <3>8. QED  BY <2>1, <2>5, <3>5, <3>6, <3>7
  <2>6. QED  BY <1>0, <2>1, <2>4, <2>5
<1>5. ASSUME NEW v \in Verifs, VerifyWrite(v)  PROVE DOMAIN table' = DOMAIN table
  BY <1>5, TableVerify
<1>6. QED  BY <1>3, <1>4, <1>5, Etapes

(* Every step keeps the bucket in line with the rows and the answers.      *)
LEMMA ObjetsInv ==
  ASSUME TypeOK, Lignes, Stockes, Verrouillees, ObjetsCoherents, DocumentsAssumption, [Next]_vars
  PROVE  ObjetsCoherents'
<1>0. /\ \A n \in DOMAIN table : n \in DOMAIN table' /\ table'[n].depot = table[n].depot
      /\ \A n \in DOMAIN table : table[n].depot \in Depots
  <2>1. table \in Seq(Ligne)  BY DEF TypeOK
  <2>2. \A n \in DOMAIN table : table[n] \in Ligne  BY <2>1
  <2>3. QED  BY <2>2, Croissance DEF Ligne
<1>1. ASSUME NEW d \in Depots, Commit(d)  PROVE ObjetsCoherents'
  <2>1. DOMAIN table' = DOMAIN table \cup {Len(table) + 1} /\ table'[Len(table) + 1].depot = d
    <3>1. /\ Len(table) \in Nat
          /\ DOMAIN table = 1 .. Len(table) /\ DOMAIN table' = 1 .. Len(table) + 1
          /\ table'[Len(table) + 1] = [depot |-> d, statut |-> "A_VERIFIER", remplacePar |-> Rien]
      BY <1>1, TableCommit
    <3>2. 1 .. Len(table) + 1 = (1 .. Len(table)) \cup {Len(table) + 1}  BY <3>1
    <3>3. QED  BY <3>1, <3>2
  <2>2. d \in objets' /\ objets' = objets  BY <1>1 DEF Commit, Stockes, EnTransaction
  <2>3. \A e \in Depots : e # d => pc'[e] = pc[e]  BY <1>1 DEF Commit, Va, TypeOK
  <2>4. pc'[d] \in {"lire", "cleanup"}  BY <1>1 DEF Commit, Va, TypeOK
  <2>5. \A n \in DOMAIN table' : table'[n].depot \in objets' \/ pc'[table'[n].depot] = "efface"
    BY <1>0, <2>1, <2>2, <2>3 DEF ObjetsCoherents
  <2>6. \A e \in Depots : pc'[e] \in {"lire", "ok"} => e \in objets' /\ \E n \in DOMAIN table' : table'[n].depot = e
    BY <1>0, <2>1, <2>2, <2>3 DEF ObjetsCoherents
  <2>7. \A e \in Depots : pc'[e] = "efface" => e \notin objets'
    BY <2>2, <2>3, <2>4 DEF ObjetsCoherents
  <2>8. QED  BY <2>5, <2>6, <2>7 DEF ObjetsCoherents
<1>2. CASE ~ \E d \in Depots : Commit(d)
  <2>1. DOMAIN table' = DOMAIN table
    <3>1. ASSUME NEW v \in Verifs, VerifyWrite(v)  PROVE DOMAIN table' = DOMAIN table
      BY <3>1, TableVerify
    <3>2. QED  BY <1>2, <3>1, Etapes
  <2>2. ASSUME NEW d \in Depots, UploadOwn(d)  PROVE ObjetsCoherents'
    <3>1. /\ \A e \in Depots : e # d => pc'[e] = pc[e] /\ (e \in objets' <=> e \in objets)
          /\ pc'[d] \in {"lire", "ok"} => pc[d] \in {"lire", "ok"}
          /\ pc'[d] = "efface" => d \notin objets'
          /\ d \in objets /\ d \notin objets' => pc'[d] = "efface"
          /\ pc[d] # "efface"
      BY <1>2, <2>2 DEF TypeOK, UploadOwn, Check, Put, PutFails, Snapshot, Supersede, CreateFails,
         Cleanup, FindOwned, Perdre, Va, EnCours, EnTransaction
    <3>2. \A n \in DOMAIN table : table[n].depot \in objets' \/ pc'[table[n].depot] = "efface"
      BY <1>0, <3>1 DEF ObjetsCoherents
    <3>3. QED  BY <1>0, <2>1, <3>1, <3>2 DEF ObjetsCoherents
  <2>3. CASE UNCHANGED <<pc, objets>>  BY <1>0, <2>1, <2>3 DEF ObjetsCoherents
  <2>4. QED
    BY <2>2, <2>3 DEF Next, Transition, Verify, VerifyLock, VerifyWrite, VerifyFails, vars
<1>3. QED  BY <1>1, <1>2

(* An empty dossier satisfies the invariant.                               *)
LEMMA InitIInv ==
  ASSUME Init
  PROVE  IInv
<1>1. table = <<>> /\ DOMAIN table = {} /\ Len(table) = 0 /\ table \in Seq(Ligne)
  BY DEF Init
<1>2. \A d \in Depots : pc[d] = "check"  BY DEF Init
<1>3. TypeOK
  <2>1. pc \in [Depots -> EnCours \cup Issues]  BY DEF Init, EnCours
  <2>2. vu \in [Depots -> 0 .. Len(table)]  BY <1>1 DEF Init
  <2>3. verif \in [Verifs -> [pc: {"lock", "write", "ok", "superseded", "error"},
                              n: 0 .. Len(table), avis: Avis]]
    BY <1>1 DEF Init
  <2>4. accepte \in BOOLEAN /\ objets \subseteq Depots  BY DEF Init
  <2>5. QED  BY <1>1, <2>1, <2>2, <2>3, <2>4 DEF TypeOK
<1>4. \A v \in Verifs : verif[v].pc = "lock"  BY DEF Init
<1>5. QED
  BY <1>1, <1>2, <1>3, <1>4 DEF IInv, Lignes, Stockes, Verrouillees, DerniereCourante,
     CourantesSimultanees, ObjetsCoherents, EnTransaction

(* Every step preserves the inductive invariant.                           *)
LEMMA NextIInv ==
  ASSUME DocumentsAssumption, IInv, [Next]_vars
  PROVE  IInv'
BY TypeInv, LignesInv, StockesInv, VerrouilleesInv, DerniereInv, SimultaneesInv, ObjetsInv DEF IInv

-----------------------------------------------------------------------------

(* The inductive invariant holds of every execution.                       *)
THEOREM Inductif == Spec => []IInv
<1>1. Init => IInv  BY InitIInv
<1>2. IInv /\ [Next]_vars => IInv'  BY NextIInv, DocumentsAssumption
<1>3. QED  BY <1>1, <1>2, PTL DEF Spec

(* Rows, objects, uploads and verifications are well formed.               *)
THEOREM DocumentsType == Spec => []TypeOK
<1>1. IInv => TypeOK  BY DEF IInv
<1>2. QED  BY <1>1, Inductif, PTL

(* create never replaces the last version, nor one by an earlier one.      *)
THEOREM DerniereTheorem == Spec => []DerniereCourante
<1>1. IInv => DerniereCourante  BY DEF IInv
<1>2. QED  BY <1>1, Inductif, PTL

(* Only uploads whose transactions overlap leave two current versions.     *)
THEOREM SimultaneesTheorem == Spec => []CourantesSimultanees
<1>1. IInv => CourantesSimultanees  BY DEF IInv
<1>2. QED  BY <1>1, Inductif, PTL

(* What uploadOwn answered agrees with the bucket and the table, whichever *)
(* step failed.                                                            *)
THEOREM ObjetsTheorem == Spec => []ObjetsCoherents
<1>1. IInv => ObjetsCoherents  BY DEF IInv
<1>2. QED  BY <1>1, Inductif, PTL

(* Once create has replaced a version, neither verify nor another create   *)
(* changes it.                                                             *)
THEOREM HistoriqueTheorem == Spec => HistoriqueFige
<1>1. IInv /\ [Next]_vars => \A n \in DOMAIN table : ~ Courante(n) => table'[n] = table[n]
  BY Croissance, DocumentsAssumption DEF IInv
<1>2. QED  BY <1>1, Inductif, PTL DEF Spec, HistoriqueFige
-----------------------------------------------------------------------------

(* The last version of a type is current: a replaced one has a later one   *)
(* of its type.                                                            *)
LEMMA DerniereVersion ==
  ASSUME TypeOK, DerniereCourante, NEW t, NEW n \in Versions(t),
         \A m \in Versions(t) : m =< n
  PROVE  n \in Actuelles
<1>1. n \in DOMAIN table /\ TypeDe[table[n].depot] = t  BY DEF Versions
<1>2. Courante(n)
  <2>1. SUFFICES ASSUME ~ Courante(n)  PROVE FALSE  OBVIOUS
  <2>2. PICK m \in DOMAIN table : m > n /\ TypeDe[table[m].depot] = TypeDe[table[n].depot]
    BY <1>1, <2>1 DEF DerniereCourante
  <2>3. m \in Versions(t)  BY <1>1, <2>2 DEF Versions
  <2>4. m =< n  BY <2>3
  <2>5. table \in Seq(Ligne)  BY DEF TypeOK
  <2>6. m \in Nat /\ n \in Nat  BY <1>1, <2>2, <2>5
  <2>7. QED  BY <2>2, <2>4, <2>6
<1>3. QED  BY <1>1, <1>2 DEF Actuelles

(* Where one version is current, the last one decides.                     *)
LEMMA DerniereDecide ==
  ASSUME TypeOK, DerniereCourante, NEW t,
         Cardinality(Versions(t) \cap Actuelles) = 1,
         NEW n \in Versions(t), \A m \in Versions(t) : m =< n
  PROVE  Present(t) <=> table[n].statut # "REJETE"
<1> DEFINE courantes == Versions(t) \cap Actuelles
<1>1. n \in courantes  BY DerniereVersion
<1>2. courantes = {n}
  <2>1. table \in Seq(Ligne)  BY DEF TypeOK
  <2>2. DOMAIN table = 1 .. Len(table) /\ Len(table) \in Nat  BY <2>1
  <2>3. IsFiniteSet(DOMAIN table)  BY <2>2, FS_Interval
  <2>4. courantes \in SUBSET DOMAIN table  BY DEF Versions
  <2>5. IsFiniteSet(courantes)  BY <2>3, <2>4, FS_Subset
  <2>6. PICK x : courantes = {x}  BY <2>5, FS_Singleton
  <2>7. QED  BY <1>1, <2>6
<1>3. \A k \in DOMAIN table : Satisfait(t, k) <=> k = n /\ table[n].statut # "REJETE"
  <2>1. TAKE k \in DOMAIN table
  <2>2. k \in courantes <=> TypeDe[table[k].depot] = t /\ Courante(k)
    BY DEF Versions, Actuelles
  <2>3. k \in courantes <=> k = n  BY <1>2
  <2>4. QED  BY <2>2, <2>3 DEF Satisfait
<1>4. n \in DOMAIN table  BY DEF Versions
<1>5. QED  BY <1>3, <1>4 DEF Present

(* The two queries agree on what is missing.                               *)
LEMMA MemesManquants == Checklist.manquants = PiecesManquantes
<1>1. Checklist.manquants = {t \in Exigences : ~ Present(t)}  BY DEF Checklist
<1>2. \A t \in Exigences :
        ~ Present(t) <=> \A n \in Actuelles :
                           TypeDe[table[n].depot] = t => table[n].statut = "REJETE"
  BY DEF Present, Satisfait, Actuelles
<1>3. QED  BY <1>1, <1>2 DEF PiecesManquantes

(* ROUND answers 100 for a full checklist only, up to 199 requirements.    *)
LEMMA Arrondi ==
  ASSUME NEW p \in Nat, NEW r \in Nat, 0 < r, r < 200, p =< r
  PROVE  (200 * p + r) \div (2 * r) = 100 <=> p = r
<1> DEFINE q == (200 * p + r) \div (2 * r)
           b == 2 * r
           a == 200 * p + r
<1>1. a \in Nat /\ b \in Nat /\ b > 0  OBVIOUS
<1>2. q \in Nat /\ q * b =< a /\ a < (q + 1) * b
  <2>1. \A x \in Nat, y \in Nat : y > 0 =>
          x \div y \in Nat /\ (x \div y) * y =< x /\ x < ((x \div y) + 1) * y
    OBVIOUS
  <2>2. QED  BY <1>1, <2>1
<1>3. ASSUME p = r  PROVE q = 100
  <2>1. a = 201 * r  BY <1>3
  <2>2. 100 * b =< a /\ a < 101 * b  BY <2>1
  <2>3. QED  BY <1>1, <1>2, <2>2
<1>4. ASSUME q = 100  PROVE p = r
  <2>1. 200 * r =< 200 * p + r  BY <1>2, <1>4
  <2>2. QED  BY <2>1
<1>5. QED  BY <1>3, <1>4

(* The percentage is 100 exactly when nothing is missing.                  *)
LEMMA PourcentageFidele ==
  ASSUME PiecesAssumption
  PROVE  CompletudePct = 100 <=> Checklist.manquants = {}
<1> DEFINE r == Cardinality(Exigences)
           presents == {t \in Exigences : Present(t)}
           p == Cardinality(presents)
<1>1. /\ Checklist.requis = r
      /\ Checklist.presents = p
      /\ Checklist.manquants = {t \in Exigences : ~ Present(t)}
  BY DEF Checklist
<1>2. IsFiniteSet(Exigences) /\ r \in Nat /\ r =< 6
  BY FS_CardinalityType DEF PiecesAssumption
<1>3. presents \in SUBSET Exigences  OBVIOUS
<1>4. IsFiniteSet(presents) /\ p =< r /\ (r = p => Exigences = presents)
  BY <1>2, <1>3, FS_Subset
<1>5. p \in Nat  BY <1>4, FS_CardinalityType
<1>6. Checklist.manquants = {} <=> presents = Exigences  BY <1>1
<1>7. presents = Exigences <=> p = r  BY <1>4
<1>8. CASE r = 0
  <2>1. Exigences = {}  BY <1>2, <1>8, FS_EmptySet
  <2>2. CompletudePct = 100  BY <1>1, <1>8 DEF CompletudePct
  <2>3. QED  BY <1>1, <2>1, <2>2
<1>9. CASE r # 0
  <2>1. CompletudePct = (200 * p + r) \div (2 * r)  BY <1>1, <1>9 DEF CompletudePct
  <2>2. (200 * p + r) \div (2 * r) = 100 <=> p = r
    <3> HIDE DEF p, r
    <3>1. 0 < r /\ r < 200  BY <1>2, <1>9
    <3>2. QED  BY <1>2, <1>4, <1>5, <3>1, Arrondi
  <2>3. QED  BY <1>6, <1>7, <2>1, <2>2
<1>10. QED  BY <1>8, <1>9

(* The checklist follows the last version of each document, the executive  *)
(* alert agrees with it, and nothing it misses waits for an agent          *)
(* (DOCUMENT_COMPLETENESS_JOIN, listForReview, missing-documents-alert).   *)
THEOREM CompletudeTheorem == Spec => []CompletudeFidele
<1>1. IInv => CompletudeFidele
  <2>1. SUFFICES ASSUME IInv  PROVE CompletudeFidele  OBVIOUS
  <2>2. TypeOK /\ DerniereCourante  BY <2>1 DEF IInv
  <2>3. \A t \in Exigences : Versions(t) = {} => ~ Present(t)
    BY DEF Versions, Present, Satisfait
  <2>4. \A t \in Exigences :
          Cardinality(Versions(t) \cap Actuelles) = 1 =>
            \A n \in Versions(t) :
              (\A m \in Versions(t) : m =< n) =>
                (Present(t) <=> table[n].statut # "REJETE")
    BY <2>2, DerniereDecide
  <2>5. Checklist.manquants = PiecesManquantes  BY MemesManquants
  <2>6. CompletudePct = 100 <=> PiecesManquantes = {}
    BY <2>5, PourcentageFidele, PiecesAssumption
  <2>7. \A n \in ListForReview : TypeDe[table[n].depot] \notin PiecesManquantes
    BY DEF ListForReview, PiecesManquantes
  <2>8. QED  BY <2>3, <2>4, <2>5, <2>6, <2>7 DEF CompletudeFidele
<1>2. QED  BY <1>1, Inductif, PTL
=============================================================================
