---------------------------- MODULE EngineProofs ----------------------------
(***************************************************************************)
(* Theorems about Engine, EngineIsolation and Durable, for every value of  *)
(* their constants.  What a statement does to the engine is in             *)
(* EngineSteps.  Here is first what COMMIT does to the order of a          *)
(* session's transactions, to the vector overlay and to row ids, and what  *)
(* the statements in between keep of it; that the loop of commit builds    *)
(* what the model's COMMIT says; and that statements, checkpoints, tickets *)
(* and restarts preserve an invariant of the engine with its file and, as  *)
(* long as commits are atomic, are steps of DurableIsolation.  The         *)
(* theorems follow.                                                        *)
(***************************************************************************)
EXTENDS Durable, EngineSteps, CommitLoop, Recursion

(***************************************************************************)
(* The list of a session's transactions stays in an order in which those   *)
(* that a failed COMMIT has published come first, for any number of        *)
(* tables.                                                                 *)
(***************************************************************************)

(***************************************************************************)
(* What CommittedComeFirst says of one session, and that places run from 1 *)
(* to the length of the list: so the place a new transaction gets is free, *)
(* and behind all others.                                                  *)
(***************************************************************************)
Ordered(list) ==
  /\ \A t \in DOMAIN list : list[t].pos \in 1..Cardinality(DOMAIN list)
  /\ \A t, u \in DOMAIN list : list[t].pos = list[u].pos => t = u
  /\ \A t, u \in DOMAIN list :
       list[u].state = "committed" /\ list[t].pos < list[u].pos => list[t].state = "committed"

OrderInv == \A s \in Sessions : Ordered(transactions[s])

(* A list with the transaction on t added or replaced. *)
With(list, t, tx) == [u \in DOMAIN list \cup {t} |-> IF u = t THEN tx ELSE list[u]]

(* A new transaction goes to the end of the list. *)
LEMMA OrderedAdd ==
  ASSUME FiniteSetFacts, NEW list, IsFiniteSet(DOMAIN list), Ordered(list), NEW t, t \notin DOMAIN list,
         NEW tx, tx.pos = Cardinality(DOMAIN list) + 1, tx.state = "active"
  PROVE  Ordered(With(list, t, tx))
<1>. DEFINE n == Cardinality(DOMAIN list)
            g == With(list, t, tx)
<1>1. n \in Nat /\ Cardinality(DOMAIN list \cup {t}) = n + 1
  BY CardinalityType, AddElement
<1>2. /\ DOMAIN g = DOMAIN list \cup {t}
      /\ g[t] = tx
      /\ \A u \in DOMAIN list : g[u] = list[u]
  BY DEF With
<1>3. Cardinality(DOMAIN g) = n + 1
  BY <1>1, <1>2
<1>4. \A u \in DOMAIN list : list[u].pos \in 1..n
  BY DEF Ordered
<1>5. tx.pos = n + 1
  OBVIOUS
<1>. HIDE DEF n, g
<1>6. \A u \in DOMAIN g : g[u].pos \in 1..(n + 1)
  BY <1>1, <1>2, <1>4, <1>5
<1>7. \A u, w \in DOMAIN g : g[u].pos = g[w].pos => u = w
  BY <1>1, <1>2, <1>4, <1>5 DEF Ordered
<1>8. ASSUME NEW u \in DOMAIN g, NEW w \in DOMAIN g,
             g[w].state = "committed", g[u].pos < g[w].pos
      PROVE  g[u].state = "committed"
  <2>1. w \in DOMAIN list
    BY <1>2, <1>8
  <2>2. u \in DOMAIN list
    BY <1>1, <1>2, <1>4, <1>5, <1>8, <2>1
  <2>. QED
    BY <1>2, <1>8, <2>1, <2>2 DEF Ordered
<1>. QED
  BY <1>3, <1>6, <1>7, <1>8 DEF Ordered, g

(* A transaction that is replaced keeps its place. *)
LEMMA OrderedReplace ==
  ASSUME NEW list, Ordered(list), NEW t \in DOMAIN list,
         NEW tx, tx.pos = list[t].pos, tx.state = list[t].state
  PROVE  Ordered(With(list, t, tx))
<1>. DEFINE g == With(list, t, tx)
<1>1. DOMAIN g = DOMAIN list
  BY DEF With
<1>2. \A u \in DOMAIN list : g[u].pos = list[u].pos /\ g[u].state = list[u].state
  BY DEF With
<1>. HIDE DEF g
<1>. QED
  BY <1>1, <1>2 DEF Ordered, g

(* A statement that stages writes keeps place and state of the transaction. *)
LEMMA StageOrder ==
  ASSUME FiniteSetFacts, IInv, OrderInv, NEW s \in Sessions, NEW t \in Tables, NEW tx,
         tx.pos = transactionFor(s, t).pos, tx.state = transactionFor(s, t).state,
         StageOn(s, t, tx)
  PROVE  OrderInv'
<1>1. /\ DOMAIN transactions = Sessions
      /\ IsFiniteSet(DOMAIN transactions[s])
  BY TablesAssumption, FiniteSubset DEF IInv, TypeOK, IsPartial
<1>2. transactions' = [transactions EXCEPT ![s] = With(transactions[s], t, tx)]
  BY <1>1 DEF StageOn, With
<1>3. Ordered(With(transactions[s], t, tx))
  <2>1. CASE t \in DOMAIN transactions[s]
    BY <2>1, OrderedReplace DEF OrderInv, transactionFor
  <2>2. CASE t \notin DOMAIN transactions[s]
    <3>1. tx.pos = Cardinality(DOMAIN transactions[s]) + 1 /\ tx.state = "active"
      BY <2>2 DEF transactionFor, begin
    <3>. QED
      BY <1>1, <2>2, <3>1, OrderedAdd DEF OrderInv
  <2>. QED
    BY <2>1, <2>2
<1>. QED
  BY <1>1, <1>2, <1>3 DEF OrderInv

(* Staging keeps place and state; publishing keeps the place. *)
LEMMA StagingKeeps ==
  ASSUME NEW tx \in Transactions
  PROVE  /\ \A v : insert(tx, v).pos = tx.pos /\ insert(tx, v).state = tx.state
         /\ \A S, v : updateAll(tx, S, v).pos = tx.pos /\ updateAll(tx, S, v).state = tx.state
         /\ \A S : deleteAll(tx, S).pos = tx.pos /\ deleteAll(tx, S).state = tx.state
         /\ Committed(tx).pos = tx.pos /\ Committed(tx).state = "committed"
BY DEF Transactions, insert, updateAll, deleteAll, Committed

(* Statements that write keep the order. *)
LEMMA WriteOrder ==
  ASSUME FiniteSetFacts, IInv, OrderInv, NEW s \in Sessions, NEW t \in Tables,
         \/ \E v \in Values : executeInsert(s, t, v)
         \/ executeInsertInvalid(s, t)
         \/ \E R \in SUBSET DOMAIN scanRowsForTable(s, t) :
              \/ \E v \in Values : executeUpdate(s, t, R, v)
              \/ executeDelete(s, t, R)
  PROVE  OrderInv'
<1>. DEFINE tx == transactionFor(s, t)
<1>1. CASE executeInsertInvalid(s, t)
  BY <1>1, StageOrder DEF executeInsertInvalid
<1>2. ASSUME NEW v \in Values, executeInsert(s, t, v)
      PROVE  OrderInv'
  <2>1. tx \in Transactions /\ StageOn(s, t, insert(tx, v))
    BY <1>2, TransactionForOK DEF executeInsert
  <2>. QED
    BY <2>1, StagingKeeps, StageOrder
<1>3. ASSUME NEW R, NEW v \in Values, executeUpdate(s, t, R, v)
      PROVE  OrderInv'
  <2>1. PICK S \in Staged(tx, store[t], R) : StageOn(s, t, updateAll(tx, S, v))
    BY <1>3 DEF executeUpdate
  <2>2. tx \in Transactions
    BY <1>3, TransactionForOK DEF executeUpdate
  <2>. QED
    BY <2>1, <2>2, StagingKeeps, StageOrder
<1>4. ASSUME NEW R, executeDelete(s, t, R)
      PROVE  OrderInv'
  <2>1. PICK S \in Staged(tx, store[t], R) : StageOn(s, t, deleteAll(tx, S))
    BY <1>4 DEF executeDelete
  <2>2. tx \in Transactions
    BY <1>4, TransactionForOK DEF executeDelete
  <2>. QED
    BY <2>1, <2>2, StagingKeeps, StageOrder
<1>. QED
  BY <1>1, <1>2, <1>3, <1>4

(* A session that ends its transaction has an empty list. *)
LEMMA FinishOrder ==
  ASSUME FiniteSetFacts, IInv, OrderInv, NEW s \in Sessions, NEW reg, Finish(s, reg)
  PROVE  OrderInv'
<1>1. Ordered(NoTransactions)
  BY DEF Ordered, NoTransactions
<1>2. \A u \in Sessions : transactions'[u] \in {transactions[u], NoTransactions}
  BY DEF Finish, IInv, TypeOK
<1>. QED
  BY <1>1, <1>2 DEF OrderInv

(***************************************************************************)
(* A COMMIT that fails at one transaction has published those before it,   *)
(* and no other.                                                           *)
(***************************************************************************)
LEMMA CommitFailsOrder ==
  ASSUME FiniteSetFacts, IInv, OrderInv, NEW s \in Sessions, NEW bad \in DOMAIN transactions[s],
         CommitFails(s, bad)
  PROVE  OrderInv'
<1>. DEFINE list == transactions[s]
            T    == Before(s, bad)
            g    == [t \in DOMAIN list |-> IF t \in T THEN Committed(list[t]) ELSE list[t]]
<1>1. transactions' = [transactions EXCEPT ![s] = g] /\ DOMAIN transactions = Sessions
  BY DEF CommitFails, IInv, TypeOK
<1>2. \A t \in DOMAIN list : list[t] \in Transactions /\ list[t].pos \in Nat
  BY DEF IInv, TypeOK, IsPartial, Transactions
<1>3. \A t \in DOMAIN list : t \in T <=> list[t].pos < list[bad].pos
  BY DEF Before
<1>4. Ordered(list)
  BY DEF OrderInv
<1>5. DOMAIN g = DOMAIN list
  OBVIOUS
<1>6. \A t \in DOMAIN list : /\ g[t].pos = list[t].pos
                             /\ g[t].state = IF t \in T THEN "committed" ELSE list[t].state
  BY Zenon, <1>2, StagingKeeps
<1>. HIDE DEF g, T, list
<1>7. ASSUME NEW t \in DOMAIN list, NEW u \in DOMAIN list,
             g[u].state = "committed", g[t].pos < g[u].pos
      PROVE  g[t].state = "committed"
  <2>1. list[bad].pos \in Nat /\ bad \in DOMAIN list
    BY <1>2 DEF list
  <2>2. CASE u \in T
    BY <1>2, <1>3, <1>6, <1>7, <2>1, <2>2
  <2>3. CASE u \notin T
    BY Zenon, <1>4, <1>6, <1>7, <2>3 DEF Ordered
  <2>. QED
    BY <2>2, <2>3
<1>8. Ordered(g)
  BY <1>4, <1>5, <1>6, <1>7 DEF Ordered
<1>. QED
  BY <1>1, <1>8 DEF OrderInv

(* So does every step. *)
LEMMA NextOrder ==
  ASSUME FiniteSetFacts, IInv, OrderInv, [Next]_vars
  PROVE  OrderInv'
<1>1. ASSUME UNCHANGED transactions
      PROVE  OrderInv'
  BY <1>1 DEF OrderInv
<1>2. ASSUME NEW s \in Sessions, Statement(s)
      PROVE  OrderInv'
  <2>1. CASE Begin(s)
    BY Zenon, <1>1, <2>1 DEF Begin
  <2>2. CASE CommitReadOnly(s) \/ Commit(s) \/ Rollback(s) \/ Deinit(s)
    BY <2>2, FinishOrder DEF CommitReadOnly, Commit, Rollback, Deinit
  <2>. QED
    BY Zenon, <1>2, <2>1, <2>2, WriteOrder, CommitFailsOrder DEF Statement
<1>3. ASSUME NEW g \in Generations, NEW n \in DrainBudgets, drainVectorOverlay(g, n)
      PROVE  OrderInv'
  BY <1>1, <1>3 DEF drainVectorOverlay, sessionVars
<1>4. CASE UNCHANGED vars
  BY <1>1, <1>4 DEF vars, sessionVars
<1>. QED
  BY <1>2, <1>3, <1>4 DEF Next

-----------------------------------------------------------------------------
(***************************************************************************)
(* The vector overlay.                                                     *)
(***************************************************************************)

(* recordVectorOverlayDeltas records the vector of every row anew. *)
LEMMA RecordIsCurrent ==
  ASSUME NEW deltas, NEW g, NEW stores, NEW k \in VectorKeys(stores)
  PROVE  recordVectorOverlayDeltas(deltas, g, stores)[k]
           = [generation |-> g, vector |-> stores[k[1]].rows[k[2]]]
BY DEF recordVectorOverlayDeltas

(* It leaves the delta of a row that has no vector as it was. *)
LEMMA RecordKeeps ==
  ASSUME NEW deltas, NEW g, NEW stores, NEW k, k \notin VectorKeys(stores),
         k \in DOMAIN recordVectorOverlayDeltas(deltas, g, stores)
  PROVE  /\ k \in DOMAIN deltas
         /\ recordVectorOverlayDeltas(deltas, g, stores)[k] = deltas[k]
BY DEF recordVectorOverlayDeltas

(* No delta is of a generation to come. *)
LEMMA DeltaGenerations ==
  ASSUME TypeOK, OverlayCurrent, NEW k \in DOMAIN vector_overlay
  PROVE  vector_overlay[k].generation < commit_sequence + 1
<1>1. commit_sequence \in Nat
  BY DEF TypeOK, Generations
<1>2. CASE k \in VectorKeys(store)
  <2>1. vector_overlay[k] = [generation |-> commit_sequence,
                             vector     |-> store[k[1]].rows[k[2]]]
    BY Zenon, <1>2 DEF OverlayCurrent
  <2>2. QED
    BY <1>1, <2>1
<1>3. CASE k \notin VectorKeys(store)
  <2>1. vector_overlay[k].generation < commit_sequence
    BY Zenon, <1>3 DEF OverlayCurrent
  <2>2. vector_overlay[k].generation \in Nat
    BY DEF TypeOK, IsPartial, Generations
  <2>3. QED
    BY <1>1, <2>1, <2>2
<1>4. QED
  BY <1>2, <1>3

(***************************************************************************)
(* Only COMMIT changes rows; it records those that have a vector, under a  *)
(* generation that no delta had before.                                    *)
(***************************************************************************)
LEMMA NextOverlay ==
  ASSUME OInv, CommitAtomic', OverlayCurrent, [Next]_vars
  PROVE  OverlayCurrent'
<1>1. ASSUME UNCHANGED <<store, commit_sequence, vector_overlay>>
      PROVE  OverlayCurrent'
  BY <1>1 DEF OverlayCurrent
<1>2. ASSUME NEW s \in Sessions, Statement(s)
      PROVE  OverlayCurrent'
  <2>1. CASE Begin(s) \/ CommitReadOnly(s) \/ Rollback(s) \/ Deinit(s)
    BY SMTT(30), <1>1, <2>1 DEF Begin, CommitReadOnly, Rollback, Deinit
  <2>2. CASE \E t \in Tables :
               \/ \E v \in Values : executeInsert(s, t, v)
               \/ executeInsertInvalid(s, t)
               \/ \E R \in SUBSET DOMAIN scanRowsForTable(s, t) :
                    \/ \E v \in Values : executeUpdate(s, t, R, v)
                    \/ executeDelete(s, t, R)
    BY <1>1, <2>2 DEF executeInsert, executeInsertInvalid, executeUpdate, executeDelete,
                      StageOn, dbVars
  <2>3. CASE Commit(s)
    <3>1. vector_overlay' = recordVectorOverlayDeltas(vector_overlay, commit_sequence', store')
      BY Zenon, <2>3 DEF Commit
    <3>2. \A k \in VectorKeys(store') :
            vector_overlay'[k] = [generation |-> commit_sequence',
                                  vector     |-> store'[k[1]].rows[k[2]]]
      BY <3>1, RecordIsCurrent
    <3>3. commit_sequence' = commit_sequence + 1
      BY Zenon, <2>3, QueueRoundTrip DEF Commit, OInv, IInv, TypeOK, QueueIdle
    <3>4. ASSUME NEW k \in DOMAIN vector_overlay', k \notin VectorKeys(store')
          PROVE  vector_overlay'[k].generation < commit_sequence'
      <4>1. k \in DOMAIN vector_overlay /\ vector_overlay'[k] = vector_overlay[k]
        BY <3>1, <3>4, RecordKeeps
      <4>2. QED
        BY Zenon, <3>3, <4>1, DeltaGenerations DEF OInv, IInv
    <3>. QED
      BY Zenon, <3>2, <3>4 DEF OverlayCurrent
  <2>4. ASSUME NEW bad \in DOMAIN transactions[s], CommitFails(s, bad)
        PROVE  OverlayCurrent'
    BY Zenon, <1>1, <2>4, AtomicFailure DEF CommitFails
  <2>. QED
    BY Zenon, <1>2, <2>1, <2>2, <2>3, <2>4 DEF Statement
<1>3. ASSUME NEW g \in Generations, NEW n \in DrainBudgets, drainVectorOverlay(g, n)
      PROVE  OverlayCurrent'
  BY <1>3 DEF drainVectorOverlay, Drain, OverlayCurrent
<1>4. CASE UNCHANGED vars
  BY <1>1, <1>4 DEF vars, dbVars
<1>. QED
  BY Zenon, <1>2, <1>3, <1>4 DEF Next

-----------------------------------------------------------------------------
(***************************************************************************)
(* What a session commits when nobody has overtaken it.                    *)
(***************************************************************************)

(***************************************************************************)
(* Transaction.commit keeps the local ids when none of them is taken: a    *)
(* row gets another id only because its own is taken, by a row of the      *)
(* store or by one that was given another id before.                       *)
(***************************************************************************)
LEMMA LocalIdsKept ==
  ASSUME NEW tx \in Transactions, NEW st \in Stores, NEW ids \in CommitIds(tx, st),
         DOMAIN tx.inserts \cap DOMAIN st.rows = {}
  PROVE  \A i \in DOMAIN tx.inserts : ids[i] = i
<1> DEFINE D == DOMAIN tx.inserts
           kept == DOMAIN st.rows \ tx.deletes
           before(i) == {ids[j] : j \in {k \in D : k < i}}
           moved == {i \in D : ids[i] # i}
<1>1. \A i \in D : IF i \in kept \cup before(i)
                      THEN IsNextRowId(ids[i], st, before(i))
                      ELSE ids[i] = i
  BY Zenon DEF CommitIds, IsCommitIds
<1>2. D \subseteq Nat
  BY RowsIff DEF Transactions, RowIds
<1>3. ASSUME moved # {}
      PROVE  FALSE
  <2>1. moved \subseteq Nat
    BY <1>2
  <2>2. PICK i \in moved : \A j \in moved : ~(j < i)
    BY Zenon, <1>3, <2>1, LeastNat
  <2>3. i \in D /\ ids[i] # i /\ i \notin kept
    OBVIOUS
  <2>4. i \in before(i)
    BY Zenon, <1>1, <2>3
  <2>5. PICK j \in D : j < i /\ ids[j] = i
    BY <2>4
  <2>6. j # i
    BY Zenon, <1>2, <2>3, <2>5
  <2>7. QED
    BY Zenon, <2>2, <2>5, <2>6
<1>4. QED
  BY <1>3

(* The store it swaps in then has the rows that the session's scan shows. *)
LEMMA CommitIsScan ==
  ASSUME NEW tx \in Transactions, NEW st \in Stores, CommittedStores(tx, st) # {},
         DOMAIN tx.inserts \cap DOMAIN st.rows = {}
  PROVE  CommittedStore(tx, st).rows = scanWithBase(tx, st.rows)
<1> DEFINE D == DOMAIN tx.inserts
           kept == DOMAIN st.rows \ tx.deletes
<1>1. CommittedStore(tx, st) \in CommittedStores(tx, st)
  BY DEF CommittedStore
<1>2. PICK ids \in CommitIds(tx, st), n \in 1..(MaxRowId + 1) :
        CommittedStore(tx, st) = [rows |-> CommitRows(ids, tx, st), next_id |-> n]
  BY ZenonT(30), <1>1 DEF CommittedStores
<1>3. \A i \in D : ids[i] = i
  BY LocalIdsKept
<1>4. DOMAIN ids = D
  BY DEF CommitIds
<1> DEFINE used == {ids[i] : i \in DOMAIN ids}
<1>5. used = D
  BY <1>3, <1>4
<1>6. \A id \in D : (CHOOSE i \in DOMAIN ids : ids[i] = id) = id
  BY <1>3, <1>4
<1> DEFINE staged(id) == tx.inserts[CHOOSE i \in DOMAIN ids : ids[i] = id]
           other(id) == IF id \in DOMAIN tx.updates THEN tx.updates[id] ELSE st.rows[id]
<1>7. CommitRows(ids, tx, st) = scanWithBase(tx, st.rows)
  <2>1. CommitRows(ids, tx, st) =
          [id \in kept \cup used |-> IF id \in used THEN staged(id) ELSE other(id)]
    BY Zenon DEF CommitRows
  <2>2. scanWithBase(tx, st.rows) =
          [id \in kept \cup D |-> IF id \in D THEN tx.inserts[id] ELSE other(id)]
    BY Zenon DEF scanWithBase
  <2>3. \A id \in D : staged(id) = tx.inserts[id]
    BY Zenon, <1>6
  <2> HIDE DEF staged, other, D, kept, used
  <2>4. QED
    BY <1>5, <2>1, <2>2, <2>3
<1>8. QED
  BY <1>2, <1>7

(* Insertions leave one next_id. *)
LEMMA NextRowIdUnique ==
  ASSUME NEW st \in Stores, NEW used \in SUBSET Nat, NEW m, NEW n,
         IsNextRowId(m, st, used), IsNextRowId(n, st, used)
  PROVE  m = n
<1>1. st.next_id \in Nat /\ used \subseteq Nat
  BY DEF Stores
<1>2. m \in Nat /\ n \in Nat
  BY <1>1 DEF IsNextRowId
<1>3. m <= n /\ n <= m
  BY <1>1, <1>2 DEF IsNextRowId
<1>4. QED
  BY <1>2, <1>3

(* The ids of the loop of Transaction.commit are determined one by one. *)
LEMMA CommitIdsUnique ==
  ASSUME NEW tx \in Transactions, NEW st \in Stores,
         NEW f \in [DOMAIN tx.inserts -> Nat], NEW g \in [DOMAIN tx.inserts -> Nat],
         IsCommitIds(f, tx, st), IsCommitIds(g, tx, st)
  PROVE  f = g
<1> DEFINE D == DOMAIN tx.inserts
           kept == DOMAIN st.rows \ tx.deletes
           before(ids, i) == {ids[j] : j \in {k \in D : k < i}}
           Chosen(ids, i) == IF i \in kept \cup before(ids, i)
                               THEN IsNextRowId(ids[i], st, before(ids, i))
                               ELSE ids[i] = i
           apart == {i \in D : f[i] # g[i]}
<1>1. /\ f \in [D -> Nat] /\ \A i \in D : Chosen(f, i)
      /\ g \in [D -> Nat] /\ \A i \in D : Chosen(g, i)
  BY Zenon DEF IsCommitIds
<1>2. D \subseteq Nat
  BY RowsIff DEF Transactions, RowIds
<1>3. ASSUME apart # {}
      PROVE  FALSE
  <2>1. apart \subseteq Nat
    BY <1>2
  <2>2. PICK i \in apart : \A j \in apart : ~(j < i)
    BY Zenon, <1>3, <2>1, LeastNat
  <2>3. i \in D /\ f[i] # g[i]
    OBVIOUS
  <2>4. \A j \in D : j < i => f[j] = g[j]
    BY Zenon, <2>2
  <2>5. before(f, i) = before(g, i)
    BY <2>4
  <2>6. before(f, i) \in SUBSET Nat
    BY <1>1
  <2>7. Chosen(f, i) /\ Chosen(g, i)
    BY Zenon, <1>1, <2>3
  <2> HIDE DEF before
  <2>8. QED
    BY Zenon, <2>3, <2>5, <2>6, <2>7, NextRowIdUnique
<1>4. QED
  BY <1>1, <1>3

(***************************************************************************)
(* COMMIT is deterministic: for a transaction and a live store there is at *)
(* most one store that Transaction.commit can swap in, however many staged *)
(* ids are taken and whatever they are moved to.                           *)
(***************************************************************************)
THEOREM OneOutcome ==
  ASSUME NEW tx \in Transactions, NEW st \in Stores,
         NEW a \in CommittedStores(tx, st), NEW b \in CommittedStores(tx, st)
  PROVE  a = b
<1> DEFINE used(ids) == {ids[i] : i \in DOMAIN ids}
           Of(x, ids, n) == /\ x = [rows |-> CommitRows(ids, tx, st), next_id |-> n]
                            /\ IsNextRowId(n, st, used(ids))
<1>1. PICK f \in CommitIds(tx, st), m \in 1..(MaxRowId + 1) : Of(a, f, m)
  BY ZenonT(30) DEF CommittedStores
<1>2. PICK g \in CommitIds(tx, st), n \in 1..(MaxRowId + 1) : Of(b, g, n)
  BY ZenonT(30) DEF CommittedStores
<1>3. f = g
  <2>1. /\ f \in [DOMAIN tx.inserts -> Nat] /\ IsCommitIds(f, tx, st)
        /\ g \in [DOMAIN tx.inserts -> Nat] /\ IsCommitIds(g, tx, st)
    BY DEF CommitIds, RowIds
  <2>2. QED
    BY Zenon, <2>1, CommitIdsUnique
<1>4. used(f) \in SUBSET Nat
  BY DEF CommitIds, RowIds
<1>5. m = n
  <2> HIDE DEF used
  <2>1. QED
    BY Zenon, <1>1, <1>2, <1>3, <1>4, NextRowIdUnique
<1>6. QED
  BY <1>1, <1>2, <1>3, <1>5

(* The step that takes a sequence is the COMMIT of the session it ends. *)
LEMMA SequenceTaken ==
  ASSUME IInv, [Next]_vars, commit_sequence' # commit_sequence,
         NEW s \in Sessions, active[s], ~active'[s]
  PROVE  Commit(s)
<1>1. PICK u \in Sessions : Statement(u)
  BY Zenon DEF Next, drainVectorOverlay, vars, dbVars
<1>2. Commit(u)
  BY Zenon, <1>1 DEF Statement, Begin, executeInsert, executeInsertInvalid, executeUpdate,
              executeDelete, StageOn, dbVars, CommitReadOnly, CommitFails, Rollback, Deinit
<1>3. active' = [active EXCEPT ![u] = FALSE]
  BY Zenon, <1>2 DEF Commit, Finish
<1>4. u = s
  BY <1>3 DEF IInv, TypeOK
<1>5. QED
  BY <1>2, <1>4

(* Its COMMIT then puts in place what its scan shows. *)
LEMMA CommitShown ==
  ASSUME OInv, [Next]_vars, NEW s \in Sessions, NEW t \in DOMAIN transactions[s],
         commit_sequence' # commit_sequence, active[s], ~active'[s],
         snapshot_handle[s] = commit_sequence
  PROVE  store'[t].rows = scanRowsForTable(s, t)
<1> DEFINE tx == transactions[s][t]
<1>1. Commit(s)
  BY Zenon, SequenceTaken DEF OInv
<1>2. t \in Tables /\ tx \in Transactions /\ Above(tx, baseRows(s, t))
  BY OpenTransactionOK
<1>3. baseRows(s, t) = store[t].rows
  BY Zenon DEF baseRows, OInv, CopiesOK
<1>4. store[t] \in Stores
  BY Zenon, <1>2 DEF OInv, IInv, TypeOK
<1>5. DOMAIN tx.inserts \cap DOMAIN store[t].rows = {}
  <2>1. DOMAIN store[t].rows \subseteq Nat
    BY <1>4, RowsIff DEF Stores, RowIds
  <2>2. QED
    BY <1>2, <1>3, <2>1 DEF Above
<1>6. store'[t] = CommittedStore(tx, store[t]) /\ CommittedStores(tx, store[t]) # {}
  BY Zenon, <1>1, <1>2 DEF Commit, Publish, WithinBounds
<1>7. scanRowsForTable(s, t) = scanWithBase(tx, store[t].rows)
  BY Zenon, <1>3 DEF scanRowsForTable, transactionFor
<1> HIDE DEF tx
<1>8. CommittedStore(tx, store[t]).rows = scanWithBase(tx, store[t].rows)
  BY Zenon, <1>2, <1>4, <1>5, <1>6, CommitIsScan
<1>9. QED
  BY Zenon, <1>6, <1>7, <1>8

-----------------------------------------------------------------------------
(***************************************************************************)
(* The loops of Transaction.commit.  Row ids are not bounded in them.      *)
(***************************************************************************)
WideRows == UNION {[E -> Values] : E \in SUBSET Nat}

WideStores == [rows : WideRows, next_id : Nat]

(* WideRows, without its UNION. *)
LEMMA WideRowsIff ==
  ASSUME NEW f
  PROVE  f \in WideRows <=> DOMAIN f \subseteq Nat /\ f \in [DOMAIN f -> Values]
<1>1. ASSUME f \in WideRows
      PROVE  DOMAIN f \subseteq Nat /\ f \in [DOMAIN f -> Values]
  <2>1. PICK E \in SUBSET Nat : f \in [E -> Values]
    BY <1>1 DEF WideRows
  <2>2. QED
    BY <2>1
<1>2. ASSUME DOMAIN f \subseteq Nat, f \in [DOMAIN f -> Values]
      PROVE  f \in WideRows
  BY Zenon, <1>2 DEF WideRows
<1>3. QED
  BY Zenon, <1>1, <1>2

(* A store is no error. *)
LEMMA NoErrorIsWide == DuplicateRow \notin WideStores
<1>1. \A x \in WideStores : DOMAIN x = {"rows", "next_id"}
  BY DEF WideStores
<1>2. DOMAIN DuplicateRow = {"error"}
  BY DEF DuplicateRow
<1>3. QED
  BY <1>1, <1>2

(* y is x with the row v under the free id c. *)
Inserted(y, x, c, v) ==
  /\ y \in WideStores
  /\ y.next_id = (IF c >= x.next_id THEN c + 1 ELSE x.next_id)
  /\ DOMAIN y.rows = DOMAIN x.rows \cup {c}
  /\ y.rows[c] = v
  /\ \A id \in DOMAIN x.rows : y.rows[id] = x.rows[id]

(* RowStore.insertWithId of a free id. *)
LEMMA InsertFree ==
  ASSUME NEW x \in WideStores, NEW c \in Nat, NEW v \in Values, c \notin DOMAIN x.rows
  PROVE  Inserted(insertWithId(x, c, v), x, c, v)
<1>. DEFINE r == WithAll(x.rows, {c}, v)
            n == IF c >= x.next_id THEN c + 1 ELSE x.next_id
<1>1. insertWithId(x, c, v) = [rows |-> r, next_id |-> n]
  BY Zenon DEF insertWithId, HasRow
<1>2. x.rows \in WideRows /\ x.next_id \in Nat
  BY DEF WideStores
<1>3. DOMAIN x.rows \subseteq Nat /\ x.rows \in [DOMAIN x.rows -> Values]
  BY Zenon, <1>2, WideRowsIff
<1>4. /\ DOMAIN r = DOMAIN x.rows \cup {c}
      /\ r[c] = v
      /\ \A id \in DOMAIN x.rows : r[id] = x.rows[id]
      /\ r \in [DOMAIN x.rows \cup {c} -> Values]
  BY <1>3 DEF WithAll
<1>5. n \in Nat
  BY <1>2
<1>. HIDE DEF r, n
<1>6. r \in WideRows
  BY <1>3, <1>4, WideRowsIff
<1>7. [rows |-> r, next_id |-> n] \in WideStores
  BY <1>5, <1>6 DEF WideStores
<1>8. insertWithId(x, c, v).rows = r /\ insertWithId(x, c, v).next_id = n
  BY <1>1
<1>9. QED
  BY Zenon, <1>1, <1>4, <1>7, <1>8 DEF Inserted, n

(* The turns of the loop over the inserts, from the first to the last. *)
IsTurns(next, tx, st) ==
  next = [id \in 0..MaxRowId |->
            IF id = 0 THEN WithoutInserts(tx, st)
            ELSE IF id \in DOMAIN tx.inserts THEN commitInsert(next[id - 1], id, tx.inserts[id])
            ELSE next[id - 1]]

(* Transaction.commit takes these turns. *)
LEMMA CommitTurns ==
  ASSUME NEW tx \in Transactions, NEW st \in Stores, CanCommit(tx, st)
  PROVE  /\ WithoutInserts(tx, st) \in WideStores
         /\ \E next : IsTurns(next, tx, st) /\ commit(tx, st) = next[MaxRowId]
<1>. DEFINE D == DOMAIN tx.inserts
            S == WideStores \cup {DuplicateRow}
            step == [p \in (1..MaxRowId) \X S |->
                       IF p[1] \in D THEN commitInsert(p[2], p[1], tx.inserts[p[1]]) ELSE p[2]]
            a == WithoutInserts(tx, st)
<1>1. /\ tx.inserts \in Rows /\ tx.updates \in Rows /\ st.rows \in Rows
      /\ st.next_id \in Nat
  BY DEF Transactions, Stores
<1>2. /\ \A id \in D : id \in Nat /\ tx.inserts[id] \in Values
      /\ \A id \in DOMAIN tx.updates : tx.updates[id] \in Values
      /\ \A id \in DOMAIN st.rows : id \in Nat /\ st.rows[id] \in Values
  BY <1>1, RowsIff DEF RowIds
<1>3. a \in WideStores
  <2>. DEFINE r == [id \in DOMAIN st.rows \ tx.deletes |->
                      IF id \in DOMAIN tx.updates THEN tx.updates[id] ELSE st.rows[id]]
  <2>1. r \in [DOMAIN r -> Values] /\ DOMAIN r \subseteq Nat
    BY Zenon, <1>2
  <2>2. a = [rows |-> r, next_id |-> st.next_id]
    BY Zenon DEF WithoutInserts
  <2>. HIDE DEF r, a
  <2>3. r \in WideRows
    BY Zenon, <2>1, WideRowsIff
  <2>4. QED
    BY <1>1, <2>2, <2>3 DEF WideStores
<1>4. ASSUME NEW x \in S, NEW id \in D
      PROVE  commitInsert(x, id, tx.inserts[id]) \in S
  <2>1. CASE x = DuplicateRow
    BY Zenon, <2>1 DEF commitInsert
  <2>2. CASE x \in WideStores
    <3>. DEFINE c == IF HasRow(x, id) THEN x.next_id ELSE id
    <3>1. c \in Nat
      BY <1>2, <2>2 DEF WideStores
    <3>2. commitInsert(x, id, tx.inserts[id]) = insertWithId(x, c, tx.inserts[id])
      BY Zenon, <2>2, NoErrorIsWide DEF commitInsert
    <3>. HIDE DEF c
    <3>3. CASE HasRow(x, c)
      BY Zenon, <3>2, <3>3 DEF insertWithId
    <3>4. CASE ~HasRow(x, c)
      <4>1. c \notin DOMAIN x.rows /\ tx.inserts[id] \in Values
        BY Zenon, <1>2, <3>4 DEF HasRow
      <4>2. insertWithId(x, c, tx.inserts[id]) \in WideStores
        BY Zenon, <2>2, <3>1, <4>1, InsertFree DEF Inserted
      <4>3. QED
        BY Zenon, <3>2, <4>2
    <3>5. QED
      BY Zenon, <3>3, <3>4
  <2>3. QED
    BY Zenon, <2>1, <2>2
<1>5. step \in [(1..MaxRowId) \X S -> S]
  <2>1. \A p \in (1..MaxRowId) \X S : p[2] \in S
    BY Zenon
  <2>2. \A p \in (1..MaxRowId) \X S :
          (IF p[1] \in D THEN commitInsert(p[2], p[1], tx.inserts[p[1]]) ELSE p[2]) \in S
    BY Zenon, <1>4, <2>1
  <2>3. QED
    BY Zenon, <2>2
<1>6. PICK f \in [0..MaxRowId -> S] : IsLoop(f, MaxRowId, a, step)
  <2>1. a \in S
    BY Zenon, <1>3
  <2>. HIDE DEF a, S, step
  <2>2. QED
    BY Zenon, <1>5, <2>1, MaxRowIdAssumption, LoopExists
<1>7. \A k \in 1..MaxRowId : k - 1 \in 0..MaxRowId /\ k \in 0..MaxRowId
  BY MaxRowIdAssumption
<1>8. \A k \in 0..MaxRowId : k # 0 => k \in 1..MaxRowId
  BY MaxRowIdAssumption
<1>9. \A k \in 1..MaxRowId :
        step[<<k, f[k - 1]>>] = IF k \in D THEN commitInsert(f[k - 1], k, tx.inserts[k]) ELSE f[k - 1]
  BY Zenon, <1>7
<1>. HIDE DEF step, a
<1>10. IsTurns(f, tx, st)
  <2>1. \A k \in 0..MaxRowId :
          (IF k = 0 THEN a ELSE step[<<k, f[k - 1]>>])
            = IF k = 0 THEN a
              ELSE IF k \in D THEN commitInsert(f[k - 1], k, tx.inserts[k]) ELSE f[k - 1]
    BY Zenon, <1>8, <1>9
  <2>2. QED
    BY Zenon, <1>6, <2>1 DEF IsLoop, IsTurns, a
<1>11. QED
  BY Zenon, <1>3, <1>10 DEF commit, IsTurns, a

(* The id under which turn i commits row i, and those of the first k turns. *)
IdAt(next, i) == IF HasRow(next[i - 1], i) THEN next[i - 1].next_id ELSE i

IdsUpTo(next, tx, k) == {IdAt(next, i) : i \in {j \in DOMAIN tx.inserts : j <= k}}

(***************************************************************************)
(* After turn k the copy holds the rows that were kept and, under ids of   *)
(* their own, those inserted so far; next_id lies just above.              *)
(***************************************************************************)
TurnOK(next, tx, st, k) ==
  /\ next[k] \in WideStores
  /\ IdsBelowNext(next[k])
  /\ DOMAIN next[k].rows = (DOMAIN st.rows \ tx.deletes) \cup IdsUpTo(next, tx, k)
  /\ IsNextRowId(next[k].next_id, st, IdsUpTo(next, tx, k))
  /\ \A i \in DOMAIN tx.inserts : i <= k =>
       /\ next[k].rows[IdAt(next, i)] = tx.inserts[i]
       /\ IdAt(next, i) \notin DOMAIN st.rows \ tx.deletes
       /\ \A j \in DOMAIN tx.inserts : j <= k /\ IdAt(next, i) = IdAt(next, j) => i = j
  /\ \A id \in DOMAIN st.rows \ tx.deletes :
       next[k].rows[id] = WithoutInserts(tx, st).rows[id]

(* Before the first turn. *)
LEMMA FirstTurnOK ==
  ASSUME NEW tx \in Transactions, NEW st \in Stores, CanCommit(tx, st), IdsBelowNext(st),
         NEW next, IsTurns(next, tx, st)
  PROVE  TurnOK(next, tx, st, 0)
<1>1. next[0] = WithoutInserts(tx, st) /\ next[0] \in WideStores
  <2>1. 0 \in 0..MaxRowId
    BY MaxRowIdAssumption
  <2>2. QED
    BY Zenon, <2>1, CommitTurns DEF IsTurns
<1>2. /\ DOMAIN next[0].rows = DOMAIN st.rows \ tx.deletes
      /\ next[0].next_id = st.next_id
  BY <1>1 DEF WithoutInserts
<1>3. DOMAIN tx.inserts \subseteq RowIds
  BY RowsIff DEF Transactions
<1>4. {j \in DOMAIN tx.inserts : j <= 0} = {}
  BY <1>3 DEF RowIds
<1>5. IdsUpTo(next, tx, 0) = {}
  BY Zenon, <1>4 DEF IdsUpTo
<1>6. IdsBelowNext(next[0])
  BY <1>2 DEF IdsBelowNext
<1>7. IsNextRowId(next[0].next_id, st, {})
  BY <1>2 DEF IsNextRowId, Stores
<1>8. \A i \in DOMAIN tx.inserts : ~(i <= 0)
  BY Zenon, <1>4
<1>9. DOMAIN next[0].rows = (DOMAIN st.rows \ tx.deletes) \cup IdsUpTo(next, tx, 0)
  BY Zenon, <1>2, <1>5
<1>10. QED
  BY Zenon, <1>1, <1>5, <1>6, <1>7, <1>8, <1>9 DEF TurnOK

(* A turn of a local id that no row is staged under. *)
LEMMA IdleTurnOK ==
  ASSUME NEW tx \in Transactions, NEW st \in Stores, NEW next, IsTurns(next, tx, st),
         NEW k \in 1..MaxRowId, k \notin DOMAIN tx.inserts, TurnOK(next, tx, st, k - 1)
  PROVE  TurnOK(next, tx, st, k)
<1>1. next[k] = next[k - 1]
  <2>1. k \in 0..MaxRowId /\ k # 0
    BY MaxRowIdAssumption
  <2>2. QED
    BY Zenon, <2>1 DEF IsTurns
<1>2. DOMAIN tx.inserts \subseteq RowIds
  BY RowsIff DEF Transactions
<1>3. \A i \in DOMAIN tx.inserts : i <= k <=> i <= k - 1
  BY <1>2, MaxRowIdAssumption DEF RowIds
<1>4. IdsUpTo(next, tx, k) = IdsUpTo(next, tx, k - 1)
  BY <1>3 DEF IdsUpTo
<1>5. QED
  BY Zenon, <1>1, <1>3, <1>4 DEF TurnOK

(* Staged ids are numbers. *)
LEMMA StagedIdIsNat == \A k \in 1..MaxRowId : k \in Nat
OBVIOUS

(* One more id used: next_id moves above it when it has to. *)
LEMMA NextRowIdGrows ==
  ASSUME NEW st, st.next_id \in Nat, NEW was \in SUBSET Nat, NEW m \in Nat, NEW c \in Nat,
         IsNextRowId(m, st, was), NEW n, n = IF c >= m THEN c + 1 ELSE m
  PROVE  IsNextRowId(n, st, was \cup {c})
<1>1. m \in {st.next_id} \cup {id + 1 : id \in was} /\ m >= st.next_id /\ \A id \in was : m > id
  BY Zenon DEF IsNextRowId
<1>2. n \in Nat /\ n >= m /\ n > c
  OBVIOUS
<1>3. n >= st.next_id /\ \A id \in was \cup {c} : n > id
  BY <1>1, <1>2
<1>4. n \in {st.next_id} \cup {id + 1 : id \in was \cup {c}}
  BY <1>1
<1>5. QED
  BY Zenon, <1>3, <1>4 DEF IsNextRowId

(* A turn that commits a row: its id is taken by no row of the copy. *)
LEMMA StagedTurnOK ==
  ASSUME NEW tx \in Transactions, NEW st \in Stores, NEW next, IsTurns(next, tx, st),
         NEW k \in 1..MaxRowId, k \in DOMAIN tx.inserts, TurnOK(next, tx, st, k - 1)
  PROVE  TurnOK(next, tx, st, k)
<1>. DEFINE x == next[k - 1]
            c == IdAt(next, k)
            v == tx.inserts[k]
            D == DOMAIN tx.inserts
            kept == DOMAIN st.rows \ tx.deletes
            was == IdsUpTo(next, tx, k - 1)
<1>1. x \in WideStores /\ x.rows \in WideRows /\ x.next_id \in Nat /\ DOMAIN x.rows \subseteq Nat
  <2>1. x \in WideStores
    BY Zenon DEF TurnOK
  <2>2. x.rows \in WideRows /\ x.next_id \in Nat
    BY <2>1 DEF WideStores
  <2>3. QED
    BY Zenon, <2>1, <2>2, WideRowsIff
<1>2. D \subseteq RowIds /\ v \in Values
  BY RowsIff DEF Transactions
<1>3. c \in Nat /\ c \notin DOMAIN x.rows
  <2>1. CASE HasRow(x, k)
    <3>1. c = x.next_id /\ \A id \in DOMAIN x.rows : id < x.next_id
      BY Zenon, <2>1 DEF IdAt, TurnOK, IdsBelowNext
    <3>2. QED
      BY Zenon, <1>1, <3>1, NotBeforeItself
  <2>2. CASE ~HasRow(x, k)
    <3>1. c = k /\ k \in Nat
      BY Zenon, <2>2, StagedIdIsNat DEF IdAt
    <3>2. QED
      BY Zenon, <2>2, <3>1 DEF HasRow
  <2>3. QED
    BY Zenon, <2>1, <2>2
<1>4. next[k] = insertWithId(x, c, v)
  <2>1. k \in 0..MaxRowId /\ k # 0
    BY MaxRowIdAssumption
  <2>2. next[k] = commitInsert(x, k, v)
    BY Zenon, <2>1 DEF IsTurns
  <2>3. QED
    BY Zenon, <1>1, <2>2, NoErrorIsWide DEF commitInsert, IdAt
<1>5. \A i \in D : i <= k <=> i = k \/ i <= k - 1
  BY <1>2, MaxRowIdAssumption DEF RowIds
<1>6. IdsUpTo(next, tx, k) = was \cup {c}
  BY Zenon, <1>5 DEF IdsUpTo
<1>7. DOMAIN x.rows = kept \cup was
  BY Zenon DEF TurnOK
<1>8. \A i \in D : i <= k - 1 => IdAt(next, i) \in was
  BY Zenon DEF IdsUpTo
<1>. DEFINE y == next[k]
<1>. HIDE DEF x, c, v, was, y
<1>9. /\ y \in WideStores
      /\ y.next_id = (IF c >= x.next_id THEN c + 1 ELSE x.next_id)
      /\ DOMAIN y.rows = DOMAIN x.rows \cup {c}
      /\ y.rows[c] = v
      /\ \A id \in DOMAIN x.rows : y.rows[id] = x.rows[id]
  <2>1. Inserted(insertWithId(x, c, v), x, c, v)
    BY Zenon, <1>1, <1>2, <1>3, InsertFree
  <2>2. QED
    BY Zenon, <1>4, <2>1 DEF Inserted, y
<1>10. IdsBelowNext(y)
  <2>1. IdsBelowNext(x)
    BY Zenon DEF TurnOK, x
  <2>2. QED
    BY <1>1, <1>3, <1>9, <2>1 DEF IdsBelowNext
<1>11. IsNextRowId(y.next_id, st, was \cup {c})
  <2>1. IsNextRowId(x.next_id, st, was)
    BY Zenon DEF TurnOK, x, was
  <2>2. was \subseteq Nat /\ st.next_id \in Nat
    BY <1>1, <1>7 DEF Stores
  <2>3. QED
    <3>1. y.next_id = IF c >= x.next_id THEN c + 1 ELSE x.next_id
      BY Zenon, <1>9
    <3>2. QED
      BY Zenon, <1>1, <1>3, <2>1, <2>2, <3>1, NextRowIdGrows
<1>12. DOMAIN y.rows = kept \cup (was \cup {c})
  BY Zenon, <1>7, <1>9
<1>13. \A id \in kept : y.rows[id] = WithoutInserts(tx, st).rows[id]
  BY Zenon, <1>7, <1>9 DEF TurnOK, x
<1>14. \A i \in D : i <= k - 1 =>
         /\ IdAt(next, i) \in was /\ IdAt(next, i) \notin kept /\ IdAt(next, i) # c
         /\ y.rows[IdAt(next, i)] = tx.inserts[i]
         /\ \A j \in D : j <= k - 1 /\ IdAt(next, i) = IdAt(next, j) => i = j
  BY Zenon, <1>3, <1>7, <1>8, <1>9 DEF TurnOK, x
<1>15. c \notin kept /\ y.rows[c] = tx.inserts[k] /\ c = IdAt(next, k)
  BY Zenon, <1>3, <1>7, <1>9 DEF c, v
<1>16. \A i \in D : i <= k =>
         /\ y.rows[IdAt(next, i)] = tx.inserts[i]
         /\ IdAt(next, i) \notin kept
         /\ \A j \in D : j <= k /\ IdAt(next, i) = IdAt(next, j) => i = j
  BY Zenon, <1>5, <1>14, <1>15
<1>17. QED
  BY Zenon, <1>6, <1>9, <1>10, <1>11, <1>12, <1>13, <1>16 DEF TurnOK, y

(* After every turn. *)
LEMMA TurnsOK ==
  ASSUME NEW tx \in Transactions, NEW st \in Stores, CanCommit(tx, st), IdsBelowNext(st),
         NEW next, IsTurns(next, tx, st)
  PROVE  \A k \in 0..MaxRowId : TurnOK(next, tx, st, k)
<1>. DEFINE P == {k \in 0..MaxRowId : TurnOK(next, tx, st, k)}
<1>1. 0 \in P
  <2>1. 0 \in 0..MaxRowId
    BY MaxRowIdAssumption
  <2>2. QED
    BY Zenon, <2>1, FirstTurnOK
<1>2. \A k \in 1..MaxRowId : k - 1 \in P => k \in P
  <2>1. \A k \in 1..MaxRowId : k \in 0..MaxRowId
    BY MaxRowIdAssumption
  <2>2. QED
    BY Zenon, <2>1, IdleTurnOK, StagedTurnOK
<1>3. \A k \in 0..MaxRowId : k \in P
  <2>. HIDE DEF P
  <2>1. QED
    BY Zenon, <1>1, <1>2, MaxRowIdAssumption, EveryTurn
<1>4. QED
  BY Zenon, <1>3

(* The ids of the turns are those that IsCommitIds describes. *)
LEMMA TurnIds ==
  ASSUME NEW tx \in Transactions, NEW st \in Stores, NEW next,
         \A k \in 0..MaxRowId : TurnOK(next, tx, st, k),
         NEW ids, ids = [i \in DOMAIN tx.inserts |-> IdAt(next, i)]
  PROVE  /\ ids \in [DOMAIN tx.inserts -> Nat \ {0}]
         /\ IsCommitIds(ids, tx, st)
         /\ {ids[i] : i \in DOMAIN ids} = IdsUpTo(next, tx, MaxRowId)
<1>. DEFINE D == DOMAIN tx.inserts
            kept == DOMAIN st.rows \ tx.deletes
            before(i) == {ids[j] : j \in {k \in D : k < i}}
<1>1. D \subseteq RowIds
  BY RowsIff DEF Transactions
<1>2. \A i \in D : i \in Nat \ {0} /\ i - 1 \in 0..MaxRowId /\ i <= MaxRowId
  BY <1>1, MaxRowIdAssumption DEF RowIds
<1>3. \A i \in D, k \in D : k < i <=> k <= i - 1
  BY <1>2
<1>4. \A i \in D : before(i) = IdsUpTo(next, tx, i - 1)
  <2>. SUFFICES ASSUME NEW i \in D
                PROVE  before(i) = IdsUpTo(next, tx, i - 1)
    BY Zenon
  <2>1. {k \in D : k < i} = {k \in D : k <= i - 1}
    BY Zenon, <1>3
  <2>2. \A k \in D : ids[k] = IdAt(next, k)
    BY Zenon
  <2>3. before(i) = {IdAt(next, k) : k \in {j \in D : j < i}}
    BY Zenon, <2>2
  <2>4. QED
    BY Zenon, <2>1, <2>3 DEF IdsUpTo
<1>5. \A i \in D : /\ HasRow(next[i - 1], i) <=> i \in kept \cup before(i)
                   /\ IsNextRowId(next[i - 1].next_id, st, before(i))
  <2>1. \A i \in D : TurnOK(next, tx, st, i - 1)
    BY Zenon, <1>2
  <2>2. \A i \in D : /\ DOMAIN next[i - 1].rows = kept \cup IdsUpTo(next, tx, i - 1)
                     /\ IsNextRowId(next[i - 1].next_id, st, IdsUpTo(next, tx, i - 1))
    BY Zenon, <2>1 DEF TurnOK
  <2>. HIDE DEF before, kept
  <2>3. QED
    BY Zenon, <1>4, <2>2 DEF HasRow
<1>6. \A i \in D : IF i \in kept \cup before(i)
                     THEN IsNextRowId(ids[i], st, before(i)) ELSE ids[i] = i
  BY Zenon, <1>5 DEF IdAt
<1>7. IsCommitIds(ids, tx, st)
  BY Zenon, <1>6 DEF IsCommitIds
<1>8. \A k \in 0..MaxRowId : next[k].next_id \in Nat /\ next[k].next_id >= st.next_id
  BY Zenon DEF TurnOK, WideStores, IsNextRowId
<1>9. \A i \in D : IdAt(next, i) \in Nat \ {0}
  <2>1. st.next_id \in Nat \ {0}
    BY DEF Stores
  <2>2. \A k \in 0..MaxRowId : next[k].next_id \in Nat \ {0}
    BY <1>8, <2>1
  <2>3. QED
    BY Zenon, <1>2, <2>2 DEF IdAt
<1>10. {ids[i] : i \in DOMAIN ids} = IdsUpTo(next, tx, MaxRowId)
  BY Zenon, <1>2 DEF IdsUpTo
<1>11. QED
  BY Zenon, <1>7, <1>9, <1>10

(* The rows of the last turn. *)
LEMMA TurnRows ==
  ASSUME NEW tx \in Transactions, NEW st \in Stores, NEW next,
         TurnOK(next, tx, st, MaxRowId),
         NEW ids, ids = [i \in DOMAIN tx.inserts |-> IdAt(next, i)],
         {ids[i] : i \in DOMAIN ids} = IdsUpTo(next, tx, MaxRowId)
  PROVE  next[MaxRowId].rows = CommitRows(ids, tx, st)
<1>. DEFINE D == DOMAIN tx.inserts
            kept == DOMAIN st.rows \ tx.deletes
            new == {ids[i] : i \in DOMAIN ids}
            x == next[MaxRowId]
            r == CommitRows(ids, tx, st)
<1>1. \A i \in D : i <= MaxRowId
  BY RowsIff, MaxRowIdAssumption DEF Transactions, RowIds
<1>2. DOMAIN x.rows = kept \cup new
  BY Zenon DEF TurnOK
<1>3. \A i \in D : /\ x.rows[ids[i]] = tx.inserts[i]
                   /\ \A j \in D : ids[i] = ids[j] => i = j
  <2>1. \A i \in D : /\ x.rows[IdAt(next, i)] = tx.inserts[i]
                     /\ \A j \in D : IdAt(next, i) = IdAt(next, j) => i = j
    BY Zenon, <1>1 DEF TurnOK
  <2>2. \A i \in D : ids[i] = IdAt(next, i)
    BY Zenon
  <2>3. QED
    BY Zenon, <2>1, <2>2
<1>4. \A id \in new : x.rows[id] = tx.inserts[CHOOSE i \in DOMAIN ids : ids[i] = id]
  <2>. SUFFICES ASSUME NEW id \in new
                PROVE  x.rows[id] = tx.inserts[CHOOSE i \in DOMAIN ids : ids[i] = id]
    BY Zenon
  <2>1. PICK j \in D : ids[j] = id
    BY Zenon
  <2>2. (CHOOSE i \in DOMAIN ids : ids[i] = id) = j
    BY Zenon, <1>3, <2>1
  <2>3. QED
    BY Zenon, <1>3, <2>1, <2>2
<1>5. \A id \in kept \ new :
        x.rows[id] = IF id \in DOMAIN tx.updates THEN tx.updates[id] ELSE st.rows[id]
  <2>1. \A id \in kept : x.rows[id] = WithoutInserts(tx, st).rows[id]
    BY Zenon DEF TurnOK
  <2>2. WithoutInserts(tx, st).rows =
          [id \in kept |-> IF id \in DOMAIN tx.updates THEN tx.updates[id] ELSE st.rows[id]]
    BY Zenon DEF WithoutInserts
  <2>3. QED
    BY Zenon, <2>1, <2>2
<1>6. x.rows \in [kept \cup new -> Values]
  <2>1. x.rows \in WideRows
    BY Zenon DEF TurnOK, WideStores
  <2>2. QED
    BY Zenon, <1>2, <2>1, WideRowsIff
<1>7. r = [id \in kept \cup new |->
             IF id \in new THEN tx.inserts[CHOOSE i \in DOMAIN ids : ids[i] = id]
             ELSE IF id \in DOMAIN tx.updates THEN tx.updates[id]
             ELSE st.rows[id]]
  BY Zenon DEF CommitRows
<1>8. \A id \in kept \cup new : x.rows[id] = r[id]
  <2>1. \A id \in new : r[id] = tx.inserts[CHOOSE i \in DOMAIN ids : ids[i] = id]
    BY Zenon, <1>7
  <2>2. \A id \in kept \ new :
          r[id] = IF id \in DOMAIN tx.updates THEN tx.updates[id] ELSE st.rows[id]
    BY Zenon, <1>7
  <2>. HIDE DEF x, r, new, kept
  <2>3. \A id \in new : x.rows[id] = r[id]
    BY Zenon, <1>4, <2>1
  <2>4. \A id \in kept \ new : x.rows[id] = r[id]
    BY Zenon, <1>5, <2>2
  <2>5. QED
    BY Zenon, <2>3, <2>4
<1>9. x.rows = [id \in kept \cup new |-> x.rows[id]]
  BY Zenon, <1>6
<1>10. r = [id \in kept \cup new |-> r[id]]
  BY Zenon, <1>7
<1>. HIDE DEF x, r, new, kept
<1>11. x.rows = r
  BY Zenon, <1>8, <1>9, <1>10
<1>12. QED
  BY Zenon, <1>11 DEF x, r

(***************************************************************************)
(* Transaction.commit builds what CommittedStores says: no turn of its     *)
(* loop over the inserts meets DuplicateRow, whichever staged ids the live *)
(* store has taken, and the store it ends with is the only one that        *)
(* CommittedStores allows, or lies beyond MaxRowId and there is none.      *)
(***************************************************************************)
THEOREM CommitLoopBuilds ==
  ASSUME NEW tx \in Transactions, NEW st \in Stores, CanCommit(tx, st), IdsBelowNext(st)
  PROVE  LoopAgrees(tx, st)
<1>1. PICK next : IsTurns(next, tx, st) /\ commit(tx, st) = next[MaxRowId]
  BY Zenon, CommitTurns
<1>. DEFINE x == next[MaxRowId]
            ids == [i \in DOMAIN tx.inserts |-> IdAt(next, i)]
            used == {ids[i] : i \in DOMAIN ids}
            top == IdsUpTo(next, tx, MaxRowId)
<1>2. \A k \in 0..MaxRowId : TurnOK(next, tx, st, k)
  BY Zenon, <1>1, TurnsOK
<1>3. TurnOK(next, tx, st, MaxRowId)
  <2>1. MaxRowId \in 0..MaxRowId
    BY MaxRowIdAssumption
  <2>2. QED
    BY Zenon, <1>2, <2>1
<1>4. /\ ids \in [DOMAIN tx.inserts -> Nat \ {0}]
      /\ IsCommitIds(ids, tx, st)
      /\ used = top
  BY Zenon, <1>2, TurnIds
<1>5. x.rows = CommitRows(ids, tx, st)
  BY Zenon, <1>3, <1>4, TurnRows
<1>6. x \in WideStores /\ IsNextRowId(x.next_id, st, used) /\ IdsBelowNext(x)
      /\ top \subseteq DOMAIN x.rows
  BY Zenon, <1>3, <1>4 DEF TurnOK
<1>7. x.next_id \in Nat /\ x = [rows |-> CommitRows(ids, tx, st), next_id |-> x.next_id]
  <2>. HIDE DEF x, ids
  <2>1. QED
    BY Zenon, <1>5, <1>6 DEF WideStores
<1>8. x # DuplicateRow
  BY Zenon, <1>6, NoErrorIsWide
<1>9. \A i \in DOMAIN tx.inserts : ids[i] \in Nat \ {0} /\ ids[i] < x.next_id
  <2>1. \A i \in DOMAIN tx.inserts : ids[i] \in used
    BY Zenon
  <2>2. \A id \in used : id < x.next_id
    BY Zenon, <1>4, <1>6 DEF IdsBelowNext
  <2>3. QED
    BY Zenon, <1>4, <2>1, <2>2
<1>. HIDE DEF x, ids
<1>10. CASE x.next_id <= MaxRowId + 1
  <2>1. x.next_id \in 1..(MaxRowId + 1)
    <3>1. x.next_id >= st.next_id /\ st.next_id \in Nat \ {0}
      BY <1>6 DEF IsNextRowId, Stores
    <3>2. QED
      BY <1>7, <1>10, <3>1, MaxRowIdAssumption
  <2>2. \A i \in DOMAIN tx.inserts : ids[i] \in RowIds
    BY <1>7, <1>9, <1>10, MaxRowIdAssumption DEF RowIds
  <2>3. ids \in CommitIds(tx, st)
    BY Zenon, <1>4, <2>2 DEF CommitIds
  <2>4. x \in CommittedStores(tx, st)
    <3>. DEFINE ns == {m \in 1..(MaxRowId + 1) : IsNextRowId(m, st, used)}
    <3>1. x.next_id \in ns
      BY Zenon, <1>6, <2>1
    <3>. HIDE DEF ns
    <3>2. x \in {[rows |-> CommitRows(ids, tx, st), next_id |-> n] : n \in ns}
      BY Zenon, <1>7, <3>1
    <3>3. QED
      BY Zenon, <2>3, <3>2 DEF CommittedStores, ns
  <2>5. CommittedStores(tx, st) = {x}
    <3>1. \A y \in CommittedStores(tx, st) : y = x
      BY Zenon, <2>4, OneOutcome
    <3>2. QED
      BY Zenon, <2>4, <3>1
  <2>6. QED
    BY Zenon, <1>1, <1>8, <1>10, <2>5 DEF LoopAgrees, x
<1>11. CASE ~(x.next_id <= MaxRowId + 1)
  <2>1. ASSUME NEW y \in CommittedStores(tx, st)
        PROVE  FALSE
    <3>1. PICK g \in CommitIds(tx, st), m \in 1..(MaxRowId + 1) :
                 IsNextRowId(m, st, {g[i] : i \in DOMAIN g})
      BY ZenonT(30) DEF CommittedStores
    <3>2. /\ g \in [DOMAIN tx.inserts -> Nat] /\ IsCommitIds(g, tx, st)
          /\ ids \in [DOMAIN tx.inserts -> Nat]
      BY <1>4 DEF CommitIds, RowIds
    <3>3. g = ids
      BY Zenon, <1>4, <3>2, CommitIdsUnique
    <3>4. used \in SUBSET Nat
      BY Zenon, <3>2
    <3>5. IsNextRowId(m, st, used)
      BY Zenon, <3>1, <3>3
    <3>. HIDE DEF used
    <3>6. m = x.next_id
      BY Zenon, <1>6, <3>4, <3>5, NextRowIdUnique
    <3>7. QED
      BY <1>11, <3>6, MaxRowIdAssumption
  <2>2. CommittedStores(tx, st) = {}
    BY Zenon, <2>1
  <2>3. QED
    BY Zenon, <1>1, <1>8, <1>11, <2>2 DEF LoopAgrees, x
<1>12. QED
  BY Zenon, <1>10, <1>11

-----------------------------------------------------------------------------
dvars == <<vars, durableVars>>

(* The file holds stores that a database can start from. *)
SavedOK ==
  /\ saved \in [Tables -> Stores]
  /\ \A t \in Tables : IdsBelowNext(saved[t])

(***************************************************************************)
(* The generation of the open ticket lies between the last completed one   *)
(* and the current one.                                                    *)
(***************************************************************************)
Workers == [in_progress : BOOLEAN,
            active_generation : Generations \cup {NoHandle},
            last_completed_generation : Generations]

InOrder(w, current) ==
  /\ w.last_completed_generation <= current
  /\ w.in_progress =>
       /\ w.active_generation \in Generations
       /\ w.last_completed_generation <= w.active_generation
       /\ w.active_generation <= current

WorkerInOrder == worker \in Workers /\ InOrder(worker, commit_sequence)

DInv == IInv /\ SavedOK /\ WorkerInOrder /\ OneTicket

-----------------------------------------------------------------------------
(* The order survives commits. *)
LEMMA InOrderLater ==
  ASSUME NEW w \in Workers, NEW c \in Nat, NEW d \in Nat, c <= d, InOrder(w, c)
  PROVE  InOrder(w, d)
<1>1. w.last_completed_generation \in Nat
  BY DEF Workers, Generations
<1>2. w.active_generation \in Generations => w.active_generation \in Nat
  BY DEF Generations
<1>3. QED
  BY <1>1, <1>2 DEF InOrder

(* Generations are numbers. *)
LEMMA SequenceIsNat == IInv => commit_sequence \in Nat /\ Generations \subseteq Nat
BY DEF IInv, TypeOK, Generations

(* Only COMMIT changes the stores. *)
LEMMA OnlyCommitStores ==
  ASSUME Next
  PROVE  \/ UNCHANGED <<store, commit_sequence>>
         \/ \E s \in Sessions : Commit(s)
         \/ \E s \in Sessions : \E bad \in DOMAIN transactions[s] : CommitFails(s, bad)
<1>1. ASSUME NEW s, NEW t, NEW v, executeInsert(s, t, v)
      PROVE  UNCHANGED <<store, commit_sequence>>
  BY <1>1 DEF executeInsert, StageOn, dbVars
<1>2. ASSUME NEW s, NEW t, executeInsertInvalid(s, t)
      PROVE  UNCHANGED <<store, commit_sequence>>
  BY <1>2 DEF executeInsertInvalid, StageOn, dbVars
<1>3. ASSUME NEW s, NEW t, NEW R, NEW v, executeUpdate(s, t, R, v)
      PROVE  UNCHANGED <<store, commit_sequence>>
  BY <1>3 DEF executeUpdate, StageOn, dbVars
<1>4. ASSUME NEW s, NEW t, NEW R, executeDelete(s, t, R)
      PROVE  UNCHANGED <<store, commit_sequence>>
  BY <1>4 DEF executeDelete, StageOn, dbVars
<1>5. ASSUME NEW s, Begin(s) \/ CommitReadOnly(s) \/ Rollback(s) \/ Deinit(s)
      PROVE  UNCHANGED <<store, commit_sequence>>
  BY Zenon, <1>5 DEF Begin, CommitReadOnly, Rollback, Deinit
<1>6. ASSUME NEW g, NEW n, drainVectorOverlay(g, n)
      PROVE  UNCHANGED <<store, commit_sequence>>
  BY <1>6 DEF drainVectorOverlay
<1>7. QED
  BY Zenon, <1>1, <1>2, <1>3, <1>4, <1>5, <1>6 DEF Next, Statement

(* A statement makes one generation, in Commit, or none. *)
LEMMA StatementSequence ==
  ASSUME IInv, Next
  PROVE  \/ commit_sequence' = commit_sequence + 1
         \/ UNCHANGED <<store, commit_sequence>>
         \/ /\ commit_sequence' = commit_sequence
            /\ \E s \in Sessions : \E bad \in DOMAIN transactions[s] : CommitFails(s, bad)
<1>1. ASSUME NEW s \in Sessions, Commit(s)
      PROVE  commit_sequence' = commit_sequence + 1
  BY Zenon, <1>1, QueueRoundTrip DEF Commit, IInv, TypeOK, QueueIdle
<1>2. ASSUME NEW s \in Sessions, NEW bad \in DOMAIN transactions[s], CommitFails(s, bad)
      PROVE  commit_sequence' = commit_sequence
  BY Zenon, <1>2 DEF CommitFails
<1>3. QED
  BY Zenon, <1>1, <1>2, OnlyCommitStores

(* Checkpoints and tickets leave the engine alone. *)
LEMMA NonRestart ==
  ASSUME [DNext]_dvars, ~initFromSnapshot
  PROVE  [Next]_vars
BY DEF DNext, Run, checkpoint, beginCheckpoint, complete, fail, dvars

(* A database that is opened from the file satisfies the engine's invariant. *)
LEMMA ReopenedIInv ==
  ASSUME FiniteSetFacts, SavedOK, initFromSnapshot
  PROVE  IInv'
<1> USE DEF initFromSnapshot
<1>1. commit_sequence' \in Generations /\ 0 \in Generations
  BY MaxCommitsAssumption DEF Generations
<1>2. store' \in [Tables -> Stores] /\ \A t \in Tables : IdsBelowNext(store'[t])
  BY Zenon DEF SavedOK
<1>3. registry'.active = [g \in Generations |-> 0] /\ DOMAIN registry'.retained = {}
  BY Zenon DEF InitRegistry
<1>4. IsRegistry(registry', [Tables -> Stores])
  BY Zenon, <1>3 DEF InitRegistry, IsRegistry
<1>5. IsPartial(vector_overlay', Tables \X RowIds, [generation : Generations, vector : Values])
  BY Zenon DEF NoDeltas, IsPartial
<1>6. \A s \in Sessions : IsPartial(transactions'[s], Tables, Transactions)
  BY Zenon DEF NoTransactions, IsPartial
<1>7. TypeOK'
  BY Zenon, <1>1, <1>2, <1>4, <1>5, <1>6 DEF TypeOK, InitQueue
<1>8. RegistryExact'
  <2>1. \A g \in Generations : Holders(g)' = {}
    BY NoHandleAssumption DEF Holders
  <2>2. QED
    <3>1. 0 <= RetentionLimit
      BY RetentionLimitAssumption
    <3>2. Cardinality({}) = 0
      BY Zenon, EmptySet
    <3>3. QED
      BY Zenon, <1>3, <2>1, <3>1, <3>2 DEF RegistryExact
<1>9. NoReaderLost' /\ QueueIdle' /\ StoredIdsOK'
  BY Zenon, <1>2, <1>3 DEF NoReaderLost, SnapshotLost, QueueIdle, InitQueue, StoredIdsOK
<1>10. TransactionsOK'
  BY Zenon DEF TransactionsOK, NoTransactions
<1>11. QED
  BY <1>7, <1>8, <1>9, <1>10 DEF IInv

-----------------------------------------------------------------------------
(* A new database, whose file is as its stores are. *)
LEMMA InitialDInv == ASSUME FiniteSetFacts, DInit PROVE DInv
<1>1. IInv
  BY InitIInv DEF DInit
<1>2. SavedOK
  BY Zenon, <1>1 DEF DInit, SavedOK, IInv, TypeOK, StoredIdsOK
<1>3. WorkerInOrder /\ OneTicket
  BY MaxCommitsAssumption 
     DEF DInit, Init, InitWorker, WorkerInOrder, Workers, InOrder, OneTicket, Generations
<1>4. QED
  BY <1>1, <1>2, <1>3 DEF DInv

(* The step behind CompletedInOrder. *)
CompletedStep ==
  /\ worker'.last_completed_generation <= commit_sequence'
  /\ \/ worker'.last_completed_generation >= worker.last_completed_generation
     \/ initFromSnapshot

(* What does not touch the worker, nor commits, keeps all that is said of it. *)
LEMMA WorkerKept ==
  ASSUME IInv, WorkerInOrder, OneTicket, UNCHANGED <<commit_sequence, worker, tickets>>
  PROVE  WorkerInOrder' /\ OneTicket' /\ CompletedStep
<1>1. WorkerInOrder' /\ OneTicket'
  BY DEF WorkerInOrder, OneTicket
<1>2. worker.last_completed_generation \in Nat
  BY SequenceIsNat DEF WorkerInOrder, Workers
<1>3. QED
  BY <1>1, <1>2 DEF WorkerInOrder, InOrder, CompletedStep

(***************************************************************************)
(* Every statement, checkpoint and restart preserves the invariant, and    *)
(* none takes the worker back.                                             *)
(***************************************************************************)
LEMMA StepDInv ==
  ASSUME FiniteSetFacts, DInv, [DNext]_dvars
  PROVE  DInv' /\ CompletedStep
<1> USE DEF DInv
<1>0. commit_sequence \in Nat /\ Generations \subseteq Nat
  BY SequenceIsNat
<1>1. CASE Run
  <2>1. IInv' /\ UNCHANGED <<saved, worker, tickets>>
    BY <1>1, StepIInv DEF Run, durableVars
  <2>2. commit_sequence' \in Nat /\ commit_sequence <= commit_sequence'
    BY <1>0, <1>1, StatementSequence DEF Run
  <2>3. SavedOK' /\ OneTicket'
    BY Zenon, <2>1 DEF SavedOK, OneTicket
  <2>4. WorkerInOrder' /\ CompletedStep
    <3>1. worker' \in Workers /\ InOrder(worker', commit_sequence')
      BY <1>0, <2>1, <2>2, InOrderLater DEF WorkerInOrder
    <3>2. worker.last_completed_generation \in Nat
      BY Zenon, <1>0 DEF WorkerInOrder, Workers
    <3>3. QED
      BY <2>1, <3>1, <3>2 DEF WorkerInOrder, InOrder, CompletedStep
  <2>5. QED
    BY <2>1, <2>3, <2>4
<1>2. CASE checkpoint
  <2>1. IInv' /\ UNCHANGED <<commit_sequence, worker, tickets>>
    BY <1>2, StutterPreserves DEF checkpoint, vars, dbVars
  <2>2. SavedOK'
    BY Zenon, <1>2 DEF checkpoint, exportSnapshot, SavedOK, IInv, TypeOK, StoredIdsOK
  <2>3. QED
    BY <2>1, <2>2, WorkerKept
<1>3. CASE initFromSnapshot
  <2>1. IInv'
    BY <1>3, ReopenedIInv
  <2>2. SavedOK'
    BY <1>3 DEF initFromSnapshot, SavedOK
  <2>3. WorkerInOrder' /\ OneTicket' /\ CompletedStep
    BY <1>3, MaxCommitsAssumption
    DEF initFromSnapshot, InitWorker, WorkerInOrder, Workers, InOrder, OneTicket, CompletedStep, Generations
  <2>4. QED
    BY <2>1, <2>2, <2>3
<1>4. CASE beginCheckpoint
  <2>1. IInv' /\ UNCHANGED <<commit_sequence, saved>>
    BY <1>4, StutterPreserves DEF beginCheckpoint, vars, dbVars
  <2>2. SavedOK'
    BY <2>1 DEF SavedOK
  <2>3. commit_sequence \in Generations
    BY DEF IInv, TypeOK
  <2>4. WorkerInOrder' /\ OneTicket' /\ CompletedStep
    <3>1. PICK l \in Generations :
            /\ worker.last_completed_generation = l
            /\ l <= commit_sequence
            /\ worker' = [in_progress |-> TRUE, active_generation |-> commit_sequence,
                          last_completed_generation |-> l]
      BY Zenon, <1>4 DEF beginCheckpoint, WorkerInOrder, InOrder, Workers
    <3>2. tickets' = {commit_sequence}
      BY <1>4 DEF beginCheckpoint, OneTicket
    <3>3. worker' \in Workers /\ InOrder(worker', commit_sequence')
      BY <1>0, <2>1, <2>3, <3>1 DEF Workers, InOrder
    <3>4. OneTicket'
      BY Zenon, <2>1, <3>1, <3>2 DEF OneTicket
    <3>5. QED
      BY <1>0, <2>1, <3>1, <3>3, <3>4 DEF WorkerInOrder, CompletedStep
  <2>5. QED
    BY <2>1, <2>2, <2>4
<1>5. ASSUME NEW g \in tickets, complete(g) \/ fail(g)
      PROVE  DInv' /\ CompletedStep
  <2>1. IInv' /\ UNCHANGED <<commit_sequence, saved>>
    BY <1>5, StutterPreserves DEF complete, fail, vars, dbVars
  <2>2. SavedOK'
    BY <2>1 DEF SavedOK
  <2>3. worker.in_progress /\ g = worker.active_generation /\ tickets = {g}
    BY DEF OneTicket
  <2>4. tickets' = {}
    BY <1>5, <2>3 DEF complete, fail
  <2>5. CASE complete(g)
    <3>1. worker' = [in_progress |-> FALSE, active_generation |-> NoHandle,
                     last_completed_generation |-> g]
      BY Zenon, <2>5 DEF complete, InitWorker
    <3>2. QED
      BY Zenon, <1>0, <2>1, <2>2, <2>3, <2>4, <3>1
      DEF WorkerInOrder, Workers, InOrder, OneTicket, CompletedStep
  <2>6. CASE fail(g)
    <3>1. PICK l \in Generations :
            /\ worker.last_completed_generation = l
            /\ l <= commit_sequence
            /\ worker' = [in_progress |-> FALSE, active_generation |-> NoHandle,
                          last_completed_generation |-> l]
      BY Zenon, <2>6 DEF fail, WorkerInOrder, InOrder, Workers
    <3>2. QED
      BY <1>0, <2>1, <2>2, <2>4, <3>1
      DEF WorkerInOrder, Workers, InOrder, OneTicket, CompletedStep
  <2>7. QED
    BY <1>5, <2>5, <2>6
<1>6. CASE UNCHANGED dvars
  <2>1. IInv' /\ UNCHANGED <<commit_sequence, saved, worker, tickets>>
    BY <1>6, StutterPreserves DEF dvars, durableVars, vars, dbVars
  <2>2. SavedOK'
    BY <2>1 DEF SavedOK
  <2>3. QED
    BY <2>1, <2>2, WorkerKept
<1>7. QED
  BY Zenon, <1>1, <1>2, <1>3, <1>4, <1>5, <1>6 DEF DNext

(* Only statements are left to disturb a reader, and a restart leaves none. *)
LEMMA DurableBases ==
  ASSUME FiniteSetFacts, DInv, [DNext]_dvars
  PROVE  BasesStable \/ UNCHANGED vars
<1>1. CASE initFromSnapshot
  BY Zenon, <1>1 DEF initFromSnapshot, BasesStable, Readable
<1>2. CASE ~initFromSnapshot
  BY <1>2, NonRestart, StepIInv DEF DInv
<1>3. QED
  BY <1>1, <1>2

-----------------------------------------------------------------------------
(***************************************************************************)
(* Isolation across restarts.                                              *)
(***************************************************************************)

File == [t \in Tables |-> saved[t].rows]

(* The invariants of the two refinements together. *)
AInv == DInv /\ OInv

(* A step of SnapshotIsolation is one of DurableIsolation, which extends it. *)
LEMMA ContractSteps ==
  /\ Isolation!Init => Contract!Init
  /\ Isolation!Next => Contract!Next
  /\ UNCHANGED Isolation!vars => UNCHANGED Contract!vars
<1>1. /\ Contract!NoRows = Isolation!NoRows
      /\ Contract!Rows = Isolation!Rows
  BY DEF Contract!NoRows, Isolation!NoRows, Contract!Rows, Isolation!Rows
<1>2. /\ Contract!NoWrites = Isolation!NoWrites
      /\ Contract!Writes = Isolation!Writes
  BY Zenon, <1>1 DEF Contract!NoWrites, Isolation!NoWrites, Contract!Writes, Isolation!Writes
<1>3. \A w, old, new : Isolation!Applies(w, old, new) => Contract!Applies(w, old, new)
  BY ZenonT(30) DEF Isolation!Applies, Contract!Applies
<1>4. \A w, base : Isolation!WellStaged(w, base) => Contract!WellStaged(w, base)
  BY Zenon DEF Isolation!WellStaged, Contract!WellStaged
<1>5. ASSUME NEW s \in Sessions
      PROVE  Isolation!Close(s) => Contract!Close(s)
  BY Zenon, <1>1, <1>2 DEF Isolation!Close, Contract!Close
<1>6. ASSUME NEW s \in Sessions
      PROVE  /\ Isolation!Begin(s) => Contract!Begin(s)
             /\ Isolation!Write(s) => Contract!Write(s)
             /\ Isolation!Commit(s) => Contract!Commit(s)
             /\ Isolation!Rollback(s) => Contract!Rollback(s)
  <2>1. Isolation!Begin(s) => Contract!Begin(s)
    BY Zenon DEF Isolation!Begin, Contract!Begin
  <2>2. Isolation!Write(s) => Contract!Write(s)
    BY Zenon, <1>2, <1>4 DEF Isolation!Write, Contract!Write
  <2>3. Isolation!Commit(s) => Contract!Commit(s)
    BY Zenon, <1>3, <1>5 DEF Isolation!Commit, Contract!Commit
  <2>4. Isolation!Rollback(s) => Contract!Rollback(s)
    BY Zenon, <1>5 DEF Isolation!Rollback, Contract!Rollback
  <2>5. QED
    BY <2>1, <2>2, <2>3, <2>4
<1>7. Isolation!Next => Contract!Next
  BY Zenon, <1>6 DEF Isolation!Next, Contract!Next
<1>8. Isolation!Init => Contract!Init
  BY ZenonT(30), <1>1, <1>2
     DEF Isolation!Init, Contract!Init, Isolation!NoSessions, Contract!NoSessions
<1>9. UNCHANGED Isolation!vars => UNCHANGED Contract!vars
  BY Zenon DEF Isolation!vars, Contract!vars
<1>10. QED
  BY <1>7, <1>8, <1>9

(* A process starts with no session and the rows of the file. *)
LEMMA RestartRefines ==
  ASSUME FiniteSetFacts, AInv, initFromSnapshot
  PROVE  AInv' /\ Contract!Restart
<1>1. DInv'
  BY StepDInv DEF AInv, DNext
<1>2. StagedOK' /\ CopiesOK'
  BY Zenon DEF initFromSnapshot, StagedOK, NoTransactions, CopiesOK, InitRegistry
<1>3. AInv'
  BY Zenon, <1>1, <1>2 DEF AInv, DInv, OInv, initFromSnapshot
<1>4. /\ Snap' = [s \in Sessions |-> [t \in Tables |-> NoRows]]
      /\ AllStaged' = [s \in Sessions |-> [t \in Tables |-> Isolation!NoWrites]]
  BY Zenon, SameNothing DEF initFromSnapshot, Snap, SnapOf, SnapshotRows, AllStaged, StagedOf,
                     StagedWrites, NoTransactions, Isolation!NoWrites
<1>5. Contract!NoRows = NoRows /\ Contract!NoWrites = Isolation!NoWrites
  BY Zenon DEF Contract!NoRows, NoRows, Contract!NoWrites, Isolation!NoWrites, Isolation!NoRows
<1>6. Contract!NoSessions'
  BY Zenon, <1>4, <1>5 DEF Contract!NoSessions, Snap, SnapOf, AllStaged, StagedOf, initFromSnapshot
<1>7. Db' = File /\ File' = File
  BY DEF initFromSnapshot, Db, File
<1>8. QED
  BY Zenon, <1>3, <1>6, <1>7 DEF Contract!Restart, Db, File

(* Every step of the engine with its file is one of DurableIsolation. *)
LEMMA DurableStep ==
  ASSUME FiniteSetFacts, AInv, CommitAtomic', [DNext]_dvars
  PROVE  /\ AInv'
         /\ Contract!SavedNext \/ UNCHANGED <<Contract!vars, File>>
<1>1. DInv'
  BY StepDInv DEF AInv
<1>2. CASE Run
  <2>1. OInv' /\ (Isolation!Next \/ UNCHANGED Isolation!vars)
    BY <1>2, StepRefines DEF AInv, Run
  <2>3. saved' = saved /\ File' = File
    BY <1>2 DEF Run, File, durableVars
  <2>4. Contract!SavedNext \/ UNCHANGED <<Contract!vars, File>>
    BY <2>1, <2>3, ContractSteps DEF Contract!SavedNext, Contract!Statement, File
  <2>5. QED
    BY Zenon, <1>1, <2>1, <2>4 DEF AInv
<1>3. CASE checkpoint
  <2>1. UNCHANGED vars /\ saved' = store
    BY <1>3 DEF checkpoint, exportSnapshot
  <2>2. OInv' /\ UNCHANGED Isolation!vars
    BY <1>1, <2>1, SilentRefines DEF AInv, DInv, vars, dbVars, sessionVars
  <2>3. File' = Db
    BY <2>1 DEF File, Db
  <2>4. Contract!Checkpoint
    BY <2>2, <2>3, ContractSteps DEF Contract!Checkpoint, File, Db
  <2>5. QED
    BY <1>1, <2>1, <2>2, <2>4 DEF AInv, vars, dbVars, Contract!SavedNext
<1>4. CASE initFromSnapshot
  BY Zenon, <1>4, RestartRefines DEF initFromSnapshot, Contract!SavedNext
<1>5. CASE \/ beginCheckpoint
           \/ \E g \in tickets : complete(g) \/ fail(g)
           \/ UNCHANGED dvars
  <2>1. UNCHANGED vars /\ UNCHANGED saved
    BY <1>5 DEF beginCheckpoint, complete, fail, dvars, durableVars
  <2>2. OInv' /\ UNCHANGED Isolation!vars
    BY Zenon, <1>1, <2>1, SilentRefines DEF AInv, DInv, vars, dbVars, sessionVars
  <2>3. UNCHANGED <<Contract!vars, File>>
    BY Zenon, <2>1, <2>2, ContractSteps DEF File
  <2>4. QED
    BY <1>1, <2>1, <2>2, <2>3 DEF AInv, vars, dbVars
<1>6. QED
  BY Zenon, <1>2, <1>3, <1>4, <1>5 DEF DNext

(* It starts as DurableIsolation does. *)
LEMMA DurableStart ==
  ASSUME FiniteSetFacts, DInit
  PROVE  AInv /\ Contract!SavedInit
<1>1. DInv /\ OInv /\ Isolation!Init
  BY InitialDInv, InitRefines DEF DInit
<1>2. File = Db
  BY Zenon DEF DInit, File, Db
<1>3. QED
  BY Zenon, <1>1, <1>2, ContractSteps DEF AInv, DInit, Contract!SavedInit, File, Db

-----------------------------------------------------------------------------
INSTANCE FiniteSetTheorems

(* The steps were proved from these facts. *)
LEMMA FiniteSetFactsHold == FiniteSetFacts
<1>1. \A n \in Nat : IsFiniteSet(0..n)
  BY FS_Interval
<1>2. IsFiniteSet({}) /\ Cardinality({}) = 0
  BY Zenon, FS_EmptySet
<1>3. ASSUME NEW S, IsFiniteSet(S)
      PROVE  /\ Cardinality(S) \in Nat
             /\ Cardinality(S) = 0 => S = {}
             /\ \A T \in SUBSET S : IsFiniteSet(T) /\ Cardinality(T) <= Cardinality(S)
             /\ \A x : x \notin S => /\ IsFiniteSet(S \cup {x})
                                     /\ Cardinality(S \cup {x}) = Cardinality(S) + 1
  BY Zenon, <1>3, FS_CardinalityType, FS_EmptySet, FS_Subset, FS_AddElement
<1>4. QED
  BY Zenon, <1>1, <1>2, <1>3 DEF FiniteSetFacts

(***************************************************************************)
(* Every statement of the executor, whichever session runs it and whether  *)
(* it succeeds or fails half-way, preserves the inductive invariant.       *)
(***************************************************************************)
THEOREM Invariance == Spec => []IInv
<1>1. Init => IInv
  BY InitIInv, FiniteSetFactsHold
<1>2. IInv /\ [Next]_vars => IInv'
  BY Zenon, StepIInv, FiniteSetFactsHold
<1>3. QED
  BY <1>1, <1>2, PTL DEF Spec

-----------------------------------------------------------------------------
(***************************************************************************)
(* The results.                                                            *)
(***************************************************************************)

(***************************************************************************)
(* Every statement of Session and Database leaves the engine's state well  *)
(* typed: published stores and retained copies are stores.                 *)
(***************************************************************************)
THEOREM TypeCorrect == Spec => []TypeOK
<1>1. IInv => TypeOK
  BY DEF IInv
<1>2. QED
  BY <1>1, Invariance, PTL

(***************************************************************************)
(* Registry.acquire, release and retainGeneration, as Session.begin,       *)
(* commit, rollback and deinit call them, leak no reference and no copy,   *)
(* and keep at most RetentionLimit copies.                                 *)
(***************************************************************************)
THEOREM RegistryCorrect == Spec => []RegistryExact
<1>1. IInv => RegistryExact
  BY Zenon DEF IInv
<1>2. QED
  BY <1>1, Invariance, PTL

(***************************************************************************)
(* Session.snapshotStoreForRead never answers SnapshotRetentionExceeded:   *)
(* retainCurrentGenerationForActiveSnapshots refuses the writer instead.   *)
(***************************************************************************)
THEOREM ReadersSurvive == Spec => []NoReaderLost
<1>1. IInv => NoReaderLost
  BY Zenon DEF IInv
<1>2. QED
  BY <1>1, Invariance, PTL

(***************************************************************************)
(* Session.commit leaves the commit queue as idle as it found it, and its  *)
(* sequence equal to the database's, on its error paths too.               *)
(***************************************************************************)
THEOREM QueueReturnsToIdle == Spec => []QueueIdle
<1>1. IInv => QueueIdle
  BY Zenon DEF IInv
<1>2. QED
  BY <1>1, Invariance, PTL

(***************************************************************************)
(* The ids that Transaction.insert hands out are above every id of the     *)
(* base that scanWithBase merges them with.                                *)
(***************************************************************************)
THEOREM StagedIdsAreFresh == Spec => []StagedIdsFresh
BY IInvFresh, Invariance, PTL

(***************************************************************************)
(* The rows Session.baseStoreForRead gives an active session do not change *)
(* under it, whatever the other sessions commit and whatever its own       *)
(* failed COMMIT has published elsewhere.                                  *)
(***************************************************************************)
THEOREM SnapshotsAreStable == Spec => SnapshotStable
<1>1. IInv /\ [Next]_vars => [BasesStable]_vars
  BY StepIInv, FiniteSetFactsHold
<1>2. Spec => [][BasesStable]_vars
  BY <1>1, Invariance, PTL DEF Spec
<1>3. QED
  BY <1>2 DEF SnapshotStable, BasesStable
(***************************************************************************)
(* The transactions that a failed COMMIT has published are the first in    *)
(* the session's list, whatever the session does next: COMMIT and ROLLBACK *)
(* stop at the first entry and publish or discard nothing more.            *)
(***************************************************************************)
THEOREM CommittedAlwaysFirst == Spec => []CommittedComeFirst
<1>1. Init => OrderInv
  BY Zenon DEF Init, OrderInv, Ordered, NoTransactions
<1>2. IInv /\ OrderInv /\ [Next]_vars => OrderInv'
  BY Zenon, NextOrder, FiniteSetFactsHold
<1>3. OrderInv => CommittedComeFirst
  BY Zenon DEF OrderInv, Ordered, CommittedComeFirst
<1>. QED
  BY <1>1, <1>2, <1>3, Invariance, PTL DEF Spec
-----------------------------------------------------------------------------
(***************************************************************************)
(* While commits are atomic.  With one table they always are.              *)
(***************************************************************************)

(***************************************************************************)
(* As long as no COMMIT fails half-way, Session and Transaction give their *)
(* callers snapshot isolation on all tables together: reads from           *)
(* generations and retained copies amount to reads of the rows of the time *)
(* of BEGIN, and Session.commit, with the row ids it reassigns, applies    *)
(* what was staged and nothing else, on all tables in one step.            *)
(***************************************************************************)
THEOREM EngineIsolates == Spec /\ []CommitAtomic => Isolated
<1>1. Init => OInv /\ Isolation!Init
  BY Zenon, InitRefines, FiniteSetFactsHold
<1>2. OInv /\ CommitAtomic' /\ [Next]_vars => OInv' /\ [Isolation!Next]_(Isolation!vars)
  BY Zenon, StepRefines, FiniteSetFactsHold
<1>3. QED
  BY <1>1, <1>2, PTL DEF Spec, Isolated, Isolation!Spec

(* The invariant of the refinement, for the theorems below. *)
LEMMA AtomicInvariance == Spec /\ []CommitAtomic => []OInv
<1>1. Init => OInv
  BY Zenon, InitRefines, FiniteSetFactsHold
<1>2. OInv /\ CommitAtomic' /\ [Next]_vars => OInv'
  BY Zenon, StepRefines, FiniteSetFactsHold
<1>3. QED
  BY <1>1, <1>2, PTL DEF Spec

(* On one table, sessions are isolated whichever COMMIT fails. *)
THEOREM OneTableIsolates ==
  ASSUME NEW CONSTANT table, Tables = {table}
  PROVE  Spec => Isolated
<1>1. IInv => CommitAtomic
  BY OneTableAtomic
<1>2. QED
  BY <1>1, Invariance, EngineIsolates, PTL

(***************************************************************************)
(* As long as no COMMIT fails half-way, and whatever has been drained, the *)
(* delta that the overlay holds for a row with a vector is that vector,    *)
(* under the current generation; a delta left over from a row that was     *)
(* deleted, or whose vector was set to NULL, is of an earlier one.         *)
(***************************************************************************)
THEOREM OverlayIsCurrent == Spec /\ []CommitAtomic => []OverlayCurrent
<1>1. Init => OverlayCurrent
  BY Zenon DEF Init, NoDeltas, OverlayCurrent
<1>2. OInv /\ CommitAtomic' /\ OverlayCurrent /\ [Next]_vars => OverlayCurrent'
  BY NextOverlay
<1>. QED
  BY <1>1, <1>2, AtomicInvariance, PTL DEF Spec

(* The inductive invariant is what the loops of Transaction.commit need. *)
LEMMA LoopsAgree == IInv => CommitLoopAgrees
<1>1. ASSUME IInv, NEW s \in Sessions, NEW t \in DOMAIN transactions[s]
      PROVE  t \in Tables /\ transactions[s][t] \in Transactions /\ store[t] \in Stores
  BY Zenon, <1>1 DEF IInv, TypeOK, IsPartial
<1>2. ASSUME IInv, NEW t \in Tables
      PROVE  IdsBelowNext(store[t])
  BY Zenon, <1>2 DEF IInv, StoredIdsOK
<1>3. QED
  BY Zenon, <1>1, <1>2, CommitLoopBuilds DEF CommitLoopAgrees

(***************************************************************************)
(* What the loops of Transaction.commit build, for any session at any      *)
(* moment and whichever staged ids other commits have taken meanwhile, is  *)
(* the store that the model of COMMIT publishes; the loop over the inserts *)
(* never meets an id that is taken.                                        *)
(***************************************************************************)
THEOREM CommitLoopIsExact == Spec => []CommitLoopAgrees
BY LoopsAgree, Invariance, PTL

(***************************************************************************)
(* As long as no COMMIT fails half-way, a session that nobody has          *)
(* overtaken commits exactly what its own scans showed it: no id changes   *)
(* and no row is added, lost or altered on the way from the staged writes  *)
(* to the live store.                                                      *)
(***************************************************************************)
THEOREM CommitsAsShown == Spec /\ []CommitAtomic => CommitsWhatItShows
<1> DEFINE Shown == \A s \in Sessions : \A t \in DOMAIN transactions[s] :
                      /\ commit_sequence' # commit_sequence
                      /\ active[s] /\ ~active'[s]
                      /\ snapshot_handle[s] = commit_sequence
                      => store'[t].rows = scanRowsForTable(s, t)
<1>1. OInv /\ [Next]_vars => Shown
  BY Zenon, CommitShown
<1>2. QED
  BY <1>1, AtomicInvariance, PTL DEF Spec, CommitsWhatItShows
-----------------------------------------------------------------------------
(***************************************************************************)
(* Checkpoints and restarts.                                               *)
(***************************************************************************)

(* The inductive invariant holds in every state. *)
LEMMA DurableInvariance == DSpec => []DInv
<1>0. DInit => DInv
  BY Zenon, InitialDInv, FiniteSetFactsHold
<1>1. DInv /\ [DNext]_dvars => DInv'
  BY Zenon, StepDInv, FiniteSetFactsHold
<1>2. QED
  BY <1>0, <1>1, PTL DEF DSpec, dvars

(***************************************************************************)
(* What statements preserve also holds after any number of checkpoints,    *)
(* crashes and restarts by initFromSnapshot: the state is well-typed, no   *)
(* reader has lost its snapshot, the registry and the queue are exact, and *)
(* staged ids hit no visible row.                                          *)
(***************************************************************************)
THEOREM SafeAcrossRestarts ==
  DSpec => [](TypeOK /\ NoReaderLost /\ RegistryExact /\ QueueIdle /\ StagedIdsFresh)
<1>1. DInv => TypeOK /\ NoReaderLost /\ RegistryExact /\ QueueIdle
  BY DEF DInv, IInv
<1>2. DInv => StagedIdsFresh
  BY Zenon, IInvFresh DEF DInv
<1>3. QED
  BY <1>1, <1>2, DurableInvariance, PTL

(***************************************************************************)
(* The order of a session's transactions is kept, too: those that a failed *)
(* COMMIT has published come first until the process ends.                 *)
(***************************************************************************)
THEOREM CommittedFirstAcrossRestarts == DSpec => []CommittedComeFirst
<1>1. DInit => OrderInv
  BY Zenon DEF DInit, Init, OrderInv, Ordered, NoTransactions
<1>2. ASSUME DInv, OrderInv, [DNext]_dvars
      PROVE  OrderInv'
  <2>1. CASE initFromSnapshot
    BY Zenon, <2>1 DEF initFromSnapshot, OrderInv, Ordered, NoTransactions
  <2>2. CASE ~initFromSnapshot
    BY Zenon, <1>2, <2>2, NonRestart, NextOrder, FiniteSetFactsHold DEF DInv
  <2>3. QED
    BY Zenon, <2>1, <2>2
<1>3. OrderInv => CommittedComeFirst
  BY DEF OrderInv, Ordered, CommittedComeFirst
<1>4. QED
  BY <1>1, <1>2, <1>3, DurableInvariance, PTL DEF DSpec, dvars

(***************************************************************************)
(* The file always holds stores that a database can start from: the ids in *)
(* it are below the next_id it hands out after a restart.                  *)
(***************************************************************************)
THEOREM FileIsUsable == DSpec => []SavedOK
<1>1. DInv => SavedOK
  BY DEF DInv
<1>2. QED
  BY <1>1, DurableInvariance, PTL

(***************************************************************************)
(* Checkpoints and tickets leave a reader's rows alone, as statements do,  *)
(* and a restart leaves no reader: a snapshot is stable for as long as     *)
(* there is one.                                                           *)
(***************************************************************************)
THEOREM SnapshotsStableAcrossRestarts == DSpec => SnapshotStable
<1>1. DInv /\ [DNext]_dvars => BasesStable \/ UNCHANGED vars
  BY Zenon, DurableBases, FiniteSetFactsHold
<1>2. QED
  BY <1>1, DurableInvariance, PTL DEF DSpec, SnapshotStable, BasesStable, dvars

(***************************************************************************)
(* At most one ticket is open, and it is the one that the worker runs: the *)
(* assertions of Worker.complete and Worker.fail hold.                     *)
(***************************************************************************)
THEOREM OneCheckpointAtATime == DSpec => []OneTicket
<1>1. DInv => OneTicket
  BY DEF DInv
<1>2. QED
  BY <1>1, DurableInvariance, PTL

(***************************************************************************)
(* The last completed generation of the worker moves forward, and not past *)
(* the committed ones, until the database is opened anew.                  *)
(***************************************************************************)
THEOREM CheckpointsInOrder == DSpec => CompletedInOrder
<1>1. DInv /\ [DNext]_dvars => CompletedStep
  BY Zenon, StepDInv, FiniteSetFactsHold
<1>2. QED
  BY <1>1, DurableInvariance, PTL DEF DSpec, CompletedInOrder, CompletedStep, dvars

-----------------------------------------------------------------------------
(***************************************************************************)
(* The row ids of the file.                                                *)
(***************************************************************************)

(* The live counters are never behind those of the file. *)
CountersAhead == \A t \in Tables : saved[t].next_id <= store[t].next_id

(* What COMMIT publishes, whole or half-way, takes no counter back. *)
LEMMA PublishCounters ==
  ASSUME IInv, NEW s \in Sessions, NEW T \in SUBSET DOMAIN transactions[s],
         WithinBounds(s, T), NEW t \in Tables
  PROVE  Publish(s, T)[t].next_id >= store[t].next_id
<1>1. store[t] \in Stores /\ IdsBelowNext(store[t])
  BY Zenon DEF IInv, TypeOK, StoredIdsOK
<1>2. CASE t \in T
  <2>1. transactions[s][t] \in Transactions
    BY Zenon, <1>2 DEF IInv, TypeOK, IsPartial
  <2>2. CommittedStores(transactions[s][t], store[t]) # {}
    BY Zenon, <1>2 DEF WithinBounds
  <2>3. Publish(s, T)[t] = CommittedStore(transactions[s][t], store[t])
    BY Zenon, <1>2 DEF Publish
  <2>4. QED
    BY Zenon, <1>1, <2>1, <2>2, <2>3, CommittedStoreType
<1>3. CASE t \notin T
  <2>1. Publish(s, T)[t] = store[t]
    BY Zenon, <1>3 DEF Publish
  <2>2. QED
    BY <1>1, <2>1, NextIdIsNat
<1>4. QED
  BY <1>2, <1>3

(* No statement takes a counter back. *)
LEMMA StatementCounters ==
  ASSUME IInv, [Next]_vars, NEW t \in Tables
  PROVE  store'[t].next_id >= store[t].next_id
<1>1. CASE store' = store
  <2>1. store[t].next_id \in Nat
    BY Zenon, NextIdIsNat DEF IInv, TypeOK
  <2>2. QED
    BY <1>1, <2>1
<1>2. ASSUME NEW s \in Sessions, Commit(s)
      PROVE  store'[t].next_id >= store[t].next_id
  <2>1. /\ store' = Publish(s, DOMAIN transactions[s])
        /\ WithinBounds(s, DOMAIN transactions[s])
    BY Zenon, <1>2 DEF Commit
  <2>2. QED
    BY Zenon, <2>1, PublishCounters
<1>3. ASSUME NEW s \in Sessions, NEW bad \in DOMAIN transactions[s], CommitFails(s, bad)
      PROVE  store'[t].next_id >= store[t].next_id
  <2>1. store' = Publish(s, Before(s, bad)) /\ WithinBounds(s, Before(s, bad))
    BY Zenon, <1>3 DEF CommitFails
  <2>2. Before(s, bad) \in SUBSET DOMAIN transactions[s]
    BY DEF Before
  <2>3. QED
    BY Zenon, <2>1, <2>2, PublishCounters
<1>4. \/ store' = store
      \/ \E s \in Sessions : Commit(s)
      \/ \E s \in Sessions : \E bad \in DOMAIN transactions[s] : CommitFails(s, bad)
  <2>1. CASE UNCHANGED vars
    BY <2>1 DEF vars, dbVars
  <2>2. CASE Next
    BY Zenon, <2>2, OnlyCommitStores
  <2>3. QED
    BY <2>1, <2>2
<1>5. QED
  BY Zenon, <1>1, <1>2, <1>3, <1>4

(* The step behind RowIdsMonotonic. *)
CounterStep ==
  \A t \in Tables :
    /\ saved'[t].next_id >= saved[t].next_id
    /\ \A id \in DOMAIN saved'[t].rows : id < saved'[t].next_id

(* A checkpoint copies counters that are ahead, a restart those of the file. *)
LEMMA StepCounters ==
  ASSUME DInv, DInv', CountersAhead, [DNext]_dvars
  PROVE  CountersAhead' /\ CounterStep
<1>1. ASSUME NEW t \in Tables
      PROVE  /\ saved[t].next_id \in Nat /\ store[t].next_id \in Nat
             /\ saved'[t].next_id \in Nat /\ store'[t].next_id \in Nat
             /\ saved[t].next_id <= store[t].next_id
  BY Zenon, NextIdIsNat DEF DInv, SavedOK, IInv, TypeOK, CountersAhead
<1>2. ASSUME NEW t \in Tables
      PROVE  \A id \in DOMAIN saved'[t].rows : id < saved'[t].next_id
  BY Zenon DEF DInv, SavedOK, IdsBelowNext
<1>3. CASE checkpoint
  <2>1. saved' = store /\ store' = store
    BY <1>3 DEF checkpoint, exportSnapshot, vars, dbVars
  <2>2. QED
    BY <1>1, <1>2, <2>1 DEF CountersAhead, CounterStep
<1>4. CASE initFromSnapshot
  <2>1. saved' = saved /\ store' = saved
    BY <1>4 DEF initFromSnapshot
  <2>2. QED
    BY <1>1, <1>2, <2>1 DEF CountersAhead, CounterStep
<1>5. CASE ~checkpoint /\ ~initFromSnapshot
  <2>1. saved' = saved
    BY <1>5 DEF DNext, Run, beginCheckpoint, complete, fail, dvars, durableVars
  <2>2. ASSUME NEW t \in Tables
        PROVE  store'[t].next_id >= store[t].next_id
    BY Zenon, <1>5, NonRestart, StatementCounters DEF DInv
  <2>3. QED
    BY <1>1, <1>2, <2>1, <2>2 DEF CountersAhead, CounterStep
<1>6. QED
  BY <1>3, <1>4, <1>5

(***************************************************************************)
(* The next_id of the file never goes back, and is above every row in the  *)
(* file: whatever COMMITs do, whole or half-way, on however many tables,   *)
(* and wherever the process ends.  It needs that the live counters are     *)
(* never behind the file's, which a restart makes equal.                   *)
(***************************************************************************)
THEOREM RowIdsKeepRising == DSpec => RowIdsMonotonic
<1>1. DInit => CountersAhead
  <2>1. ASSUME DInit, NEW t \in Tables
        PROVE  saved[t].next_id = store[t].next_id /\ store[t].next_id \in Nat
    BY Zenon, <2>1, InitialDInv, FiniteSetFactsHold, NextIdIsNat DEF DInit, DInv, IInv, TypeOK
  <2>2. QED
    BY <2>1 DEF CountersAhead
<1>2. DInv /\ DInv' /\ CountersAhead /\ [DNext]_dvars => CountersAhead' /\ CounterStep
  BY Zenon, StepCounters
<1>3. QED
  BY <1>1, <1>2, DurableInvariance, PTL DEF DSpec, RowIdsMonotonic, CounterStep, dvars

(***************************************************************************)
(* As long as no COMMIT fails half-way, the engine with its file keeps the *)
(* whole contract: isolated transactions between restarts, and after a     *)
(* restart, wherever it strikes, exactly what was committed at the last    *)
(* checkpoint.                                                             *)
(***************************************************************************)
THEOREM EngineIsDurable == DSpec /\ []CommitAtomic => DurablyIsolated
<1>1. DInit => AInv /\ Contract!SavedInit
  BY Zenon, DurableStart, FiniteSetFactsHold
<1>2. AInv /\ CommitAtomic' /\ [DNext]_dvars
        => AInv' /\ [Contract!SavedNext]_<<Contract!vars, File>>
  BY Zenon, DurableStep, FiniteSetFactsHold
<1>3. QED
  BY <1>1, <1>2, PTL DEF DSpec, DurablyIsolated, Contract!SavedSpec, dvars, File

(***************************************************************************)
(* Checkpoints and restarts do not change that: a new process starts at    *)
(* generation 0 again, but with no delta of the old one's generations.     *)
(***************************************************************************)
THEOREM OverlayIsCurrentAcrossRestarts == DSpec /\ []CommitAtomic => []OverlayCurrent
<1>1. DInit => AInv /\ OverlayCurrent
  BY Zenon, DurableStart, FiniteSetFactsHold DEF DInit, Init, NoDeltas, OverlayCurrent
<1>2. AInv /\ CommitAtomic' /\ [DNext]_dvars => AInv'
  BY Zenon, DurableStep, FiniteSetFactsHold
<1>3. ASSUME AInv, CommitAtomic', OverlayCurrent, [DNext]_dvars
      PROVE  OverlayCurrent'
  <2>1. CASE initFromSnapshot
    BY Zenon, <2>1 DEF initFromSnapshot, NoDeltas, OverlayCurrent
  <2>2. CASE ~initFromSnapshot
    BY Zenon, <1>3, <2>2, NonRestart, NextOverlay DEF AInv
  <2>3. QED
    BY Zenon, <2>1, <2>2
<1>4. QED
  BY <1>1, <1>2, <1>3, PTL DEF DSpec, dvars

(***************************************************************************)
(* Nor do restarts: the next_id that a new process starts from is above    *)
(* every row it loads, so its first COMMITs meet no taken id either.       *)
(***************************************************************************)
THEOREM CommitLoopExactAcrossRestarts == DSpec => []CommitLoopAgrees
<1>1. DInv => IInv
  BY DEF DInv
<1>2. QED
  BY <1>1, LoopsAgree, DurableInvariance, PTL

(* With one table there is no second one to fail on. *)
THEOREM OneTableIsDurable ==
  ASSUME NEW CONSTANT table, Tables = {table}
  PROVE  DSpec => DurablyIsolated
<1>1. DInv => CommitAtomic
  BY Zenon, OneTableAtomic DEF DInv
<1>2. QED
  BY <1>1, DurableInvariance, EngineIsDurable, PTL
=============================================================================
