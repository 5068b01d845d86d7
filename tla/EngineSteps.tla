----------------------------- MODULE EngineSteps ----------------------------
(***************************************************************************)
(* What the operators of Transaction, Snapshot and CommitQueue return to   *)
(* their callers in Engine, for every value of the constants; the          *)
(* inductive invariant of Engine; that every step preserves it; and that   *)
(* every step that leaves commits atomic is a step of SnapshotIsolation or *)
(* a stutter, for any number of sessions, tables, rows and commits.        *)
(***************************************************************************)
EXTENDS EngineIsolation, TLAPS

-----------------------------------------------------------------------------
(***************************************************************************)
(* The operators of Transaction return what their callers expect.          *)
(***************************************************************************)

(* A store is well formed: next_id lies above every row id. *)
IdsBelowNext(st) == \A id \in DOMAIN st.rows : id < st.next_id

(* The ids that a store hands out are numbers. *)
LEMMA NextIdIsNat == \A st \in Stores : st.next_id \in Nat
BY DEF Stores

(* No place is before itself. *)
LEMMA NotBeforeItself == \A n \in Nat : ~(n < n)
OBVIOUS

(* The rows of a store that is built. *)
LEMMA RowsOfStore == \A r, n : [rows |-> r, next_id |-> n].rows = r
OBVIOUS

(* Rows, without its UNION. *)
LEMMA RowsIff ==
  ASSUME NEW f
  PROVE  f \in Rows <=> DOMAIN f \subseteq RowIds /\ f \in [DOMAIN f -> Values]
<1>1. ASSUME f \in Rows
      PROVE  DOMAIN f \subseteq RowIds /\ f \in [DOMAIN f -> Values]
  <2>1. PICK D \in SUBSET RowIds : f \in [D -> Values]
    BY <1>1 DEF Rows
  <2>2. QED
    BY <2>1
<1>2. ASSUME DOMAIN f \subseteq RowIds, f \in [DOMAIN f -> Values]
      PROVE  f \in Rows
  <2>1. [DOMAIN f -> Values] \in {[D -> Values] : D \in SUBSET RowIds}
    BY <1>2
  <2>2. QED
    BY <1>2, <2>1 DEF Rows
<1>3. QED
  BY <1>1, <1>2

(* A function on row ids is a table. *)
LEMMA RowsIntro ==
  ASSUME NEW D \in SUBSET RowIds, NEW f \in [D -> Values]
  PROVE  f \in Rows
BY RowsIff

(* Transaction.begin makes a transaction, and clearLocalRows leaves one. *)
LEMMA BeginType ==
  ASSUME NEW st \in Stores, NEW p \in Nat
  PROVE  /\ begin(p, st) \in Transactions
         /\ \A tx \in Transactions : Committed(tx) \in Transactions
<1>1. NoRows \in [{} -> Values]
  BY DEF NoRows
<1>2. NoRows \in Rows
  BY ZenonT(30), <1>1, RowsIntro
<1>3. QED
  BY ZenonT(30), <1>2 DEF begin, Committed, Transactions, Stores

(* The staging operations return a transaction. *)
LEMMA StagingType ==
  ASSUME NEW tx \in Transactions, NEW S \in SUBSET RowIds
  PROVE  /\ \A v \in Values : /\ tx.next_id <= MaxRowId => insert(tx, v) \in Transactions
                             /\ updateAll(tx, S, v) \in Transactions
         /\ deleteAll(tx, S) \in Transactions
<1>1. ASSUME NEW f \in Rows, NEW T \in SUBSET RowIds
      PROVE  Without(f, T) \in Rows /\ \A v \in Values : WithAll(f, T, v) \in Rows
  <2>1. DOMAIN f \subseteq RowIds /\ f \in [DOMAIN f -> Values]
    BY RowsIff
  <2>2. \A v \in Values : WithAll(f, T, v) \in [DOMAIN f \cup T -> Values]
    BY <2>1 DEF WithAll
  <2>3. Without(f, T) \in [DOMAIN f \ T -> Values]
    BY <2>1 DEF Without
  <2>4. DOMAIN f \cup T \in SUBSET RowIds /\ DOMAIN f \ T \in SUBSET RowIds
    BY <2>1
  <2>5. QED
    BY Zenon, <2>2, <2>3, <2>4, RowsIntro
<1>2. ASSUME NEW v \in Values, tx.next_id <= MaxRowId
      PROVE  insert(tx, v) \in Transactions
  <2>1. {tx.next_id} \in SUBSET RowIds /\ tx.next_id + 1 \in 1..(MaxRowId + 1)
    BY <1>2, MaxRowIdAssumption DEF Transactions, RowIds
  <2>2. WithAll(tx.inserts, {tx.next_id}, v) \in Rows
    BY Zenon, <1>1, <2>1 DEF Transactions
  <2>3. QED
    BY ZenonT(30), <2>1, <2>2 DEF insert, Transactions
<1>3. ASSUME NEW v \in Values
      PROVE  updateAll(tx, S, v) \in Transactions
  <2>1. WithAll(tx.inserts, S \cap DOMAIN tx.inserts, v) \in Rows
    BY ZenonT(30), <1>1 DEF Transactions
  <2>2. WithAll(tx.updates, S \ (S \cap DOMAIN tx.inserts), v) \in Rows
    BY <1>1 DEF Transactions
  <2>3. QED
    BY ZenonT(30), <2>1, <2>2 DEF updateAll, Transactions
<1>4. deleteAll(tx, S) \in Transactions
  <2>1. Without(tx.inserts, S \cap DOMAIN tx.inserts) \in Rows
    BY <1>1 DEF Transactions
  <2>2. Without(tx.updates, S) \in Rows
    BY <1>1 DEF Transactions
  <2>3. QED
    BY ZenonT(30), <2>1, <2>2 DEF deleteAll, Transactions
<1>5. QED
  BY <1>2, <1>3, <1>4

(* What the staging operations leave in each field. *)
LEMMA InsertFields ==
  ASSUME NEW tx \in Transactions, NEW v
  PROVE  /\ insert(tx, v).state = tx.state
         /\ insert(tx, v).next_id = tx.next_id + 1
         /\ DOMAIN insert(tx, v).inserts = DOMAIN tx.inserts \cup {tx.next_id}
         /\ insert(tx, v).updates = tx.updates
         /\ insert(tx, v).deletes = tx.deletes
BY DEF insert, WithAll, Transactions

(* What UPDATE stages. *)
LEMMA UpdateFields ==
  ASSUME NEW tx \in Transactions, NEW S, NEW v
  PROVE  /\ updateAll(tx, S, v).state = tx.state
         /\ updateAll(tx, S, v).next_id = tx.next_id
         /\ DOMAIN updateAll(tx, S, v).inserts = DOMAIN tx.inserts
         /\ DOMAIN updateAll(tx, S, v).updates = DOMAIN tx.updates \cup (S \ DOMAIN tx.inserts)
         /\ updateAll(tx, S, v).deletes = tx.deletes
BY DEF updateAll, WithAll, Transactions

(* What DELETE stages. *)
LEMMA DeleteFields ==
  ASSUME NEW tx \in Transactions, NEW S
  PROVE  /\ deleteAll(tx, S).state = tx.state
         /\ deleteAll(tx, S).next_id = tx.next_id
         /\ DOMAIN deleteAll(tx, S).inserts = DOMAIN tx.inserts \ S
         /\ DOMAIN deleteAll(tx, S).updates = DOMAIN tx.updates \ S
         /\ deleteAll(tx, S).deletes = tx.deletes \cup (S \ DOMAIN tx.inserts)
BY DEF deleteAll, Without, Transactions

(***************************************************************************)
(* The store that Transaction.commit swaps in is a well-formed store whose *)
(* next_id is no smaller than before.                                      *)
(***************************************************************************)
LEMMA CommittedStoreType ==
  ASSUME NEW tx \in Transactions, NEW st \in Stores, IdsBelowNext(st),
         CommittedStores(tx, st) # {}
  PROVE  /\ CommittedStore(tx, st) \in Stores
         /\ IdsBelowNext(CommittedStore(tx, st))
         /\ CommittedStore(tx, st).next_id >= st.next_id
<1> DEFINE new == CommittedStore(tx, st)
<1>1. new \in CommittedStores(tx, st)
  BY DEF CommittedStore
<1>2. PICK ids \in CommitIds(tx, st), n \in 1..(MaxRowId + 1) :
        /\ IsNextRowId(n, st, {ids[i] : i \in DOMAIN ids})
        /\ new = [rows |-> CommitRows(ids, tx, st), next_id |-> n]
  BY ZenonT(30), <1>1 DEF CommittedStores
<1>3. /\ DOMAIN tx.inserts \subseteq RowIds
      /\ tx.inserts \in [DOMAIN tx.inserts -> Values]
      /\ DOMAIN tx.updates \subseteq RowIds
      /\ tx.updates \in [DOMAIN tx.updates -> Values]
      /\ DOMAIN st.rows \subseteq RowIds
      /\ st.rows \in [DOMAIN st.rows -> Values]
      /\ st.next_id \in 1..(MaxRowId + 1)
  <2>1. tx.inserts \in Rows /\ tx.updates \in Rows /\ st.rows \in Rows
    BY DEF Transactions, Stores
  <2>2. QED
    BY <2>1, RowsIff DEF Stores
<1>4. ids \in [DOMAIN tx.inserts -> RowIds]
  BY <1>2 DEF CommitIds
<1>5. CommitRows(ids, tx, st) \in Rows
  <2> DEFINE kept == DOMAIN st.rows \ tx.deletes
             img  == {ids[i] : i \in DOMAIN ids}
  <2>1. kept \cup img \in SUBSET RowIds
    BY <1>3, <1>4
  <2>2. \A id \in kept \cup img : CommitRows(ids, tx, st)[id] \in Values
    BY <1>3, <1>4 DEF CommitRows
  <2>3. CommitRows(ids, tx, st) \in [kept \cup img -> Values]
    BY Zenon, <2>2 DEF CommitRows
  <2>4. QED
    BY <2>1, <2>3, RowsIntro
<1>6. DOMAIN CommitRows(ids, tx, st)
        = (DOMAIN st.rows \ tx.deletes) \cup {ids[i] : i \in DOMAIN ids}
  BY DEF CommitRows
<1>7. \A id \in DOMAIN CommitRows(ids, tx, st) : id < n
  BY <1>2, <1>3, <1>4, <1>6, MaxRowIdAssumption DEF IsNextRowId, IdsBelowNext, RowIds
<1>8. n >= st.next_id
  BY <1>2 DEF IsNextRowId
<1>9. QED
  BY <1>2, <1>5, <1>7, <1>8 DEF Stores, IdsBelowNext
-----------------------------------------------------------------------------
(***************************************************************************)
(* What the proofs below use of finite sets.  EngineProofs derives it from *)
(* FiniteSetTheorems; here it is a hypothesis.                             *)
(***************************************************************************)
FiniteSetFacts ==
  /\ \A n \in Nat : IsFiniteSet(0..n)
  /\ IsFiniteSet({}) /\ Cardinality({}) = 0
  /\ \A S : IsFiniteSet(S) => Cardinality(S) \in Nat
  /\ \A S : IsFiniteSet(S) /\ Cardinality(S) = 0 => S = {}
  /\ \A S : IsFiniteSet(S) =>
       \A T \in SUBSET S : IsFiniteSet(T) /\ Cardinality(T) <= Cardinality(S)
  /\ \A S, x : IsFiniteSet(S) /\ x \notin S =>
       /\ IsFiniteSet(S \cup {x})
       /\ Cardinality(S \cup {x}) = Cardinality(S) + 1

(* The empty set is the one of size 0. *)
LEMMA EmptySet ==
  ASSUME FiniteSetFacts
  PROVE  /\ IsFiniteSet({}) /\ Cardinality({}) = 0
         /\ \A S : IsFiniteSet(S) => (Cardinality(S) = 0 <=> S = {})
BY DEF FiniteSetFacts

(* Sizes are numbers. *)
LEMMA CardinalityType ==
  ASSUME FiniteSetFacts, NEW S, IsFiniteSet(S)
  PROVE  Cardinality(S) \in Nat
BY DEF FiniteSetFacts

(* A part of a finite set is finite, and no larger. *)
LEMMA FiniteSubset ==
  ASSUME FiniteSetFacts, NEW S, IsFiniteSet(S), NEW T \in SUBSET S
  PROVE  IsFiniteSet(T) /\ Cardinality(T) <= Cardinality(S)
BY DEF FiniteSetFacts

(* An element more. *)
LEMMA AddElement ==
  ASSUME FiniteSetFacts, NEW S, IsFiniteSet(S), NEW x, x \notin S
  PROVE  IsFiniteSet(S \cup {x}) /\ Cardinality(S \cup {x}) = Cardinality(S) + 1
BY DEF FiniteSetFacts

(* An element less. *)
LEMMA RemoveElement ==
  ASSUME FiniteSetFacts, NEW S, IsFiniteSet(S), NEW x \in S
  PROVE  IsFiniteSet(S \ {x}) /\ Cardinality(S \ {x}) = Cardinality(S) - 1
<1>1. IsFiniteSet(S \ {x}) /\ Cardinality(S \ {x}) \in Nat
  BY FiniteSubset, CardinalityType
<1>2. (S \ {x}) \cup {x} = S /\ x \notin S \ {x}
  OBVIOUS
<1>3. ASSUME NEW T, T = S \ {x}
      PROVE  Cardinality(T \cup {x}) = Cardinality(T) + 1
  BY <1>1, <1>3, AddElement
<1>4. Cardinality(S) = Cardinality(S \ {x}) + 1
  BY Zenon, <1>2, <1>3
<1>5. QED
  BY <1>1, <1>4

-----------------------------------------------------------------------------
(***************************************************************************)
(* The snapshot registry.                                                  *)
(***************************************************************************)

Copies == [Tables -> Stores]

(* A registry that keeps copies only of generations in use, and not too many. *)
RetainedOK(reg) ==
  /\ \A g \in DOMAIN reg.retained : reg.active[g] > 0
  /\ Cardinality(DOMAIN reg.retained) <= RetentionLimit

(* There are finitely many generations. *)
LEMMA FiniteGenerations == FiniteSetFacts => IsFiniteSet(Generations)
BY MaxCommitsAssumption DEF Generations, FiniteSetFacts

(* Of finitely many sessions, finitely many hold a generation. *)
LEMMA FiniteHolders ==
  ASSUME FiniteSetFacts, NEW h, NEW g
  PROVE  /\ IsFiniteSet({s \in Sessions : h[s] = g})
         /\ Cardinality({s \in Sessions : h[s] = g}) \in Nat
BY FiniteSubset, CardinalityType, SessionsAssumption

(* A session that takes up or gives up a handle moves one count by one. *)
LEMMA HoldersStep ==
  ASSUME FiniteSetFacts, NEW h, NEW s \in Sessions, NEW g, h[s] # g, NEW k, k[s] = g,
         \A u \in Sessions \ {s} : k[u] = h[u]
  PROVE  Cardinality({u \in Sessions : k[u] = g})
           = Cardinality({u \in Sessions : h[u] = g}) + 1
<1> DEFINE H == {u \in Sessions : h[u] = g}
<1>1. {u \in Sessions : k[u] = g} = H \cup {s}
  OBVIOUS
<1>2. s \notin H /\ IsFiniteSet(H)
  BY Zenon, FiniteHolders
<1>3. Cardinality(H \cup {s}) = Cardinality(H) + 1
  BY <1>2, AddElement
<1>4. QED
  BY <1>1, <1>3

(* Somebody holds a generation whose count is positive, and conversely. *)
LEMMA HolderCounts ==
  ASSUME FiniteSetFacts, NEW h, NEW g, NEW s \in Sessions, h[s] = g
  PROVE  Cardinality({u \in Sessions : h[u] = g}) > 0
<1> DEFINE H == {u \in Sessions : h[u] = g}
<1>1. IsFiniteSet(H) /\ Cardinality(H) \in Nat
  BY Zenon, FiniteHolders
<1>2. H # {}
  OBVIOUS
<1>3. Cardinality(H) # 0
  BY <1>1, <1>2, EmptySet
<1>4. QED
  BY <1>1, <1>3

(* Two sessions that hold a generation count twice. *)
LEMMA TwoHolders ==
  ASSUME FiniteSetFacts, NEW h, NEW g, NEW s \in Sessions, NEW u \in Sessions, s # u,
         h[s] = g, h[u] = g
  PROVE  Cardinality({w \in Sessions : h[w] = g}) > 1
<1> DEFINE H == {w \in Sessions : h[w] = g}
           K == H \ {s}
<1>1. IsFiniteSet(H) /\ Cardinality(H) \in Nat /\ s \in H
  BY FiniteHolders
<1>2. IsFiniteSet(K) /\ Cardinality(K) = Cardinality(H) - 1
  BY Zenon, <1>1, RemoveElement
<1>3. u \in K
  OBVIOUS
<1>4. Cardinality(K) # 0 /\ Cardinality(K) \in Nat
  BY <1>2, <1>3, EmptySet, CardinalityType
<1>5. QED
  BY <1>1, <1>2, <1>4

(***************************************************************************)
(* What a COMMIT does to the registry before it publishes anything: counts *)
(* and retained copies stay, and when another session reads the current    *)
(* generation, a copy of the live stores is retained for it.               *)
(***************************************************************************)
LEMMA RetainRegistry ==
  ASSUME FiniteSetFacts, TypeOK, RegistryExact, NEW s \in Sessions, EntersCommit(s)
  PROVE  /\ IsRegistry(RetainCurrent(s), Copies)
         /\ RetainCurrent(s).active = registry.active
         /\ RetainedOK(RetainCurrent(s))
         /\ \A g \in DOMAIN registry.retained :
              /\ g \in DOMAIN RetainCurrent(s).retained
              /\ RetainCurrent(s).retained[g] = registry.retained[g]
         /\ \A g \in DOMAIN RetainCurrent(s).retained \ DOMAIN registry.retained :
              RetainCurrent(s).retained[g] = store
         /\ \A u \in Sessions \ {s} :
              snapshot_handle[u] = commit_sequence
                => commit_sequence \in DOMAIN RetainCurrent(s).retained
<1> DEFINE reg == RetainCurrent(s)
           swept == sweepReleasedGenerations(registry)
<1>1. /\ registry = [active |-> registry.active, retained |-> registry.retained]
      /\ registry.active \in [Generations -> Nat]
      /\ DOMAIN registry.retained \subseteq Generations
      /\ registry.retained \in [DOMAIN registry.retained -> Copies]
      /\ store \in Copies
      /\ commit_sequence \in Generations
  BY DEF TypeOK, IsRegistry, Copies
<1>2. {g \in DOMAIN registry.retained : registry.active[g] # 0} = DOMAIN registry.retained
  BY <1>1 DEF RegistryExact
<1>3. swept = registry
  <2>1. [g \in DOMAIN registry.retained |-> registry.retained[g]] = registry.retained
    BY <1>1
  <2>2. swept = [registry EXCEPT !.retained = registry.retained]
    BY <1>2, <2>1 DEF sweepReleasedGenerations
  <2>3. QED
    BY <1>1, <2>2
<1>4. CASE ~MustRetain(s)
  <2>1. reg = registry
    BY <1>4 DEF RetainCurrent
  <2>2. ASSUME NEW u \in Sessions \ {s}, snapshot_handle[u] = commit_sequence
        PROVE  commit_sequence \in DOMAIN registry.retained
    <3>1. registry.active[commit_sequence]
            = Cardinality({w \in Sessions : snapshot_handle[w] = commit_sequence})
      BY <1>1 DEF RegistryExact, Holders
    <3>2. registry.active[commit_sequence] > 0
      BY Zenon, <2>2, <3>1, HolderCounts
    <3>3. snapshot_handle[s] = commit_sequence => registry.active[commit_sequence] > 1
      BY Zenon, <2>2, <3>1, TwoHolders
    <3>4. registry.active[commit_sequence] \in Nat
      BY <1>1
    <3>5. QED
      BY <1>4, <3>2, <3>3, <3>4 DEF MustRetain, needsRetention
  <2>3. QED
    BY <1>1, <2>1, <2>2 DEF IsRegistry, RetainedOK, RegistryExact
<1>5. CASE MustRetain(s)
  <2> DEFINE g0 == commit_sequence
             D  == DOMAIN registry.retained
             kept == [h \in D \cup {g0} |-> IF h = g0 THEN store ELSE registry.retained[h]]
  <2>1. reg = [registry EXCEPT !.retained = kept]
    BY <1>3, <1>5 DEF RetainCurrent, retainGeneration
  <2>2. reg = [active |-> registry.active, retained |-> kept]
    BY <1>1, <2>1
  <2>3. g0 \notin D /\ registry.active[g0] > 0
    BY <1>1, <1>5 DEF MustRetain, needsRetention
  <2>4. Cardinality(D) < RetentionLimit
    <3>1. ~(Cardinality(D) >= RetentionLimit)
      BY <1>3, <1>5 DEF EntersCommit, RetentionExceeded
    <3>2. Cardinality(D) \in Nat
      BY <1>1, FiniteGenerations, FiniteSubset, CardinalityType
    <3>3. QED
      BY <3>1, <3>2, RetentionLimitAssumption
  <2>5. Cardinality(D \cup {g0}) <= RetentionLimit
    <3>1. IsFiniteSet(D) /\ Cardinality(D) \in Nat
      BY <1>1, FiniteGenerations, FiniteSubset, CardinalityType
    <3>2. Cardinality(D \cup {g0}) = Cardinality(D) + 1
      BY Zenon, <2>3, <3>1, AddElement
    <3>3. QED
      BY <2>4, <3>1, <3>2, RetentionLimitAssumption
  <2>6. DOMAIN kept = D \cup {g0} /\ kept \in [D \cup {g0} -> Copies]
    BY <1>1
  <2>7. RetainedOK(reg)
    BY <2>2, <2>3, <2>5, <2>6 DEF RetainedOK, RegistryExact
  <2>8. IsRegistry(reg, Copies)
    BY <1>1, <2>2, <2>6 DEF IsRegistry
  <2>9. /\ \A g \in D : g \in DOMAIN reg.retained /\ reg.retained[g] = registry.retained[g]
        /\ \A g \in DOMAIN reg.retained \ D : reg.retained[g] = store
        /\ g0 \in DOMAIN reg.retained
    BY <2>2, <2>3, <2>6
  <2>10. QED
    BY <2>2, <2>7, <2>8, <2>9
<1>6. QED
  BY <1>4, <1>5

(***************************************************************************)
(* The end of a session keeps the registry exact, and every copy that      *)
(* another session reads.                                                  *)
(***************************************************************************)
LEMMA FinishRegistry ==
  ASSUME FiniteSetFacts, TypeOK, RegistryExact, NEW s \in Sessions, active[s],
         NEW reg, IsRegistry(reg, Copies), reg.active = registry.active,
         RetainedOK(reg), Finish(s, reg)
  PROVE  /\ IsRegistry(registry', Copies)
         /\ RegistryExact'
         /\ \A g \in DOMAIN registry'.retained :
              g \in DOMAIN reg.retained /\ registry'.retained[g] = reg.retained[g]
         /\ \A u \in Sessions \ {s} :
              snapshot_handle[u] \in DOMAIN reg.retained
                => snapshot_handle[u] \in DOMAIN registry'.retained
<1> DEFINE g == snapshot_handle[s]
           less == [reg EXCEPT !.active[g] = @ - 1]
           counts == [registry.active EXCEPT ![g] = @ - 1]
<1>1. /\ g \in Generations /\ g # NoHandle
      /\ snapshot_handle \in [Sessions -> Generations \cup {NoHandle}]
      /\ registry.active \in [Generations -> Nat]
      /\ active \in [Sessions -> BOOLEAN]
  BY DEF TypeOK, IsRegistry, RegistryExact
<1>2. /\ snapshot_handle' = [snapshot_handle EXCEPT ![s] = NoHandle]
      /\ active' = [active EXCEPT ![s] = FALSE]
      /\ registry' = release(reg, g)
  BY DEF Finish
<1>3. registry.active[g] = Cardinality(Holders(g)) /\ registry.active[g] > 0
  <2>1. Cardinality({u \in Sessions : snapshot_handle[u] = g}) > 0
    BY HolderCounts
  <2>2. QED
    BY <1>1, <2>1 DEF RegistryExact, Holders
<1>4. less = [active |-> counts, retained |-> reg.retained]
  <2>1. reg = [active |-> registry.active, retained |-> reg.retained]
    BY DEF IsRegistry
  <2>2. QED
    BY <2>1
<1>5. counts \in [Generations -> Nat]
  BY <1>1, <1>3
<1>6. registry' = sweepReleasedGenerations(less)
  BY <1>1, <1>2, <1>3 DEF release
<1> DEFINE kept == {h \in DOMAIN reg.retained : counts[h] # 0}
<1> HIDE DEF less, counts
<1>7. registry' = [active |-> counts, retained |-> [h \in kept |-> reg.retained[h]]]
  <2>1. less.active = counts /\ less.retained = reg.retained
    BY <1>4
  <2>2. sweepReleasedGenerations(less)
          = [less EXCEPT !.retained = [h \in kept |-> reg.retained[h]]]
    BY <2>1 DEF sweepReleasedGenerations
  <2>3. QED
    BY <1>4, <1>6, <2>2
<1>8. DOMAIN reg.retained \subseteq Generations /\ reg.retained \in [DOMAIN reg.retained -> Copies]
  BY DEF IsRegistry
<1>9. \A h \in Generations : counts[h] = Cardinality({u \in Sessions : snapshot_handle'[u] = h})
  <2>1. Cardinality({u \in Sessions : snapshot_handle[u] = g})
          = Cardinality({u \in Sessions : snapshot_handle'[u] = g}) + 1
    <3>1. snapshot_handle' = [snapshot_handle EXCEPT ![s] = NoHandle]
      BY <1>2
    <3>2. /\ snapshot_handle'[s] # g
          /\ \A u \in Sessions \ {s} : snapshot_handle[u] = snapshot_handle'[u]
      BY <1>1, <3>1
    <3>3. QED
      BY <3>2, HoldersStep
  <2>2. Cardinality({u \in Sessions : snapshot_handle'[u] = g}) \in Nat
    BY Zenon, FiniteHolders
  <2>3. counts[g] = Cardinality({u \in Sessions : snapshot_handle'[u] = g})
    BY <1>1, <1>3, <2>1, <2>2 DEF Holders, counts
  <2>4. ASSUME NEW h \in Generations, h # g
        PROVE  counts[h] = Cardinality({u \in Sessions : snapshot_handle'[u] = h})
    <3>1. {u \in Sessions : snapshot_handle'[u] = h} = {u \in Sessions : snapshot_handle[u] = h}
      BY <1>1, <1>2, <2>4, NoHandleAssumption
    <3>2. QED
      BY <1>1, <2>4, <3>1 DEF RegistryExact, Holders, counts
  <2>5. QED
    BY <2>3, <2>4
<1>10. Cardinality(kept) <= RetentionLimit
  <2>1. IsFiniteSet(DOMAIN reg.retained) /\ kept \subseteq DOMAIN reg.retained
    BY <1>8, FiniteGenerations, FiniteSubset
  <2>2. Cardinality(kept) <= Cardinality(DOMAIN reg.retained)
    BY <2>1, FiniteSubset
  <2>3. Cardinality(DOMAIN reg.retained) \in Nat /\ Cardinality(kept) \in Nat
    BY <2>1, FiniteSubset, CardinalityType
  <2>4. QED
    BY <2>2, <2>3, RetentionLimitAssumption DEF RetainedOK
<1>11. RegistryExact'
  <2>1. \A u \in Sessions : active'[u] <=> snapshot_handle'[u] # NoHandle
    BY <1>1, <1>2 DEF RegistryExact
  <2>2. \A h \in kept : counts[h] > 0
    <3> SUFFICES ASSUME NEW h \in kept PROVE counts[h] > 0
      OBVIOUS
    <3>1. counts[h] \in Nat
      BY <1>5, <1>8
    <3>2. counts[h] # 0
      OBVIOUS
    <3>3. QED
      BY <3>1, <3>2
  <2>3. QED
    BY <1>7, <1>9, <1>10, <2>1, <2>2 DEF RegistryExact, Holders
<1>12. IsRegistry(registry', Copies)
  BY <1>5, <1>7, <1>8 DEF IsRegistry
<1>13. ASSUME NEW u \in Sessions \ {s}, snapshot_handle[u] \in DOMAIN reg.retained
       PROVE  snapshot_handle[u] \in kept
  <2>1. snapshot_handle'[u] = snapshot_handle[u] /\ snapshot_handle[u] \in Generations
    BY <1>1, <1>2, <1>8, <1>13
  <2>2. Cardinality({w \in Sessions : snapshot_handle'[w] = snapshot_handle[u]}) > 0
    BY Zenon, <2>1, HolderCounts
  <2>3. counts[snapshot_handle[u]] # 0
    BY <1>9, <2>1, <2>2
  <2>4. QED
    BY <1>13, <2>3
<1>14. QED
  BY <1>7, <1>11, <1>12, <1>13

(* BEGIN counts the new handle and touches no copy. *)
LEMMA BeginRegistry ==
  ASSUME FiniteSetFacts, TypeOK, RegistryExact, NEW s \in Sessions, Begin(s)
  PROVE  /\ IsRegistry(registry', Copies)
         /\ registry'.retained = registry.retained
         /\ RegistryExact'
<1> DEFINE g == commit_sequence
           counts == [registry.active EXCEPT ![g] = @ + 1]
<1>1. /\ g \in Generations /\ g # NoHandle
      /\ snapshot_handle \in [Sessions -> Generations \cup {NoHandle}]
      /\ registry.active \in [Generations -> Nat]
      /\ active \in [Sessions -> BOOLEAN]
      /\ registry = [active |-> registry.active, retained |-> registry.retained]
  BY NoHandleAssumption DEF TypeOK, IsRegistry
<1>2. /\ snapshot_handle' = [snapshot_handle EXCEPT ![s] = g]
      /\ active' = [active EXCEPT ![s] = TRUE]
      /\ registry' = [registry EXCEPT !.active[g] = @ + 1]
      /\ snapshot_handle[s] = NoHandle
  BY DEF Begin, acquire, RegistryExact
<1>3. registry' = [active |-> counts, retained |-> registry.retained]
  BY <1>1, <1>2
<1>4. \A h \in Generations : counts[h] = Cardinality(Holders(h)')
  <2>1. /\ snapshot_handle[s] # g
        /\ snapshot_handle'[s] = g
        /\ \A u \in Sessions \ {s} : snapshot_handle'[u] = snapshot_handle[u]
    BY <1>1, <1>2
  <2>2. Cardinality({u \in Sessions : snapshot_handle'[u] = g})
          = Cardinality({u \in Sessions : snapshot_handle[u] = g}) + 1
    BY <2>1, HoldersStep
  <2>3. counts[g] = Cardinality({u \in Sessions : snapshot_handle'[u] = g})
    BY <1>1, <2>2 DEF RegistryExact, Holders
  <2>4. ASSUME NEW h \in Generations, h # g
        PROVE  counts[h] = Cardinality({u \in Sessions : snapshot_handle'[u] = h})
    <3>1. {u \in Sessions : snapshot_handle'[u] = h} = {u \in Sessions : snapshot_handle[u] = h}
      BY <1>1, <1>2, <2>4, NoHandleAssumption
    <3>2. QED
      BY <1>1, <2>4, <3>1 DEF RegistryExact, Holders
  <2>5. QED
    BY <2>3, <2>4 DEF Holders
<1>5. \A h \in DOMAIN registry.retained : counts[h] > 0
  <2> SUFFICES ASSUME NEW h \in DOMAIN registry.retained PROVE counts[h] > 0
    OBVIOUS
  <2>1. h \in Generations /\ registry.active[h] > 0 /\ registry.active[h] \in Nat
    BY <1>1 DEF TypeOK, IsRegistry, RegistryExact
  <2>2. QED
    BY <1>1, <2>1
<1>6. \A u \in Sessions : active'[u] <=> snapshot_handle'[u] # NoHandle
  BY <1>1, <1>2 DEF RegistryExact
<1>7. RegistryExact'
  BY <1>3, <1>4, <1>5, <1>6 DEF RegistryExact
<1>8. counts \in [Generations -> Nat]
  BY <1>1
<1>9. QED
  BY <1>3, <1>7, <1>8 DEF IsRegistry, TypeOK, Copies

(* The overlay stays a map of deltas when a commit records its vectors. *)
LEMMA RecordType ==
  ASSUME NEW deltas, IsPartial(deltas, Tables \X RowIds,
                               [generation : Generations, vector : Values]),
         NEW g \in Generations, NEW stores \in [Tables -> Stores]
  PROVE  IsPartial(recordVectorOverlayDeltas(deltas, g, stores), Tables \X RowIds,
                   [generation : Generations, vector : Values])
<1> DEFINE R == [generation : Generations, vector : Values]
           keys == VectorKeys(stores)
           new == recordVectorOverlayDeltas(deltas, g, stores)
<1>1. \A k \in keys : /\ k \in Tables \X RowIds
                      /\ stores[k[1]].rows[k[2]] \in Values
  <2> SUFFICES ASSUME NEW k \in keys
               PROVE  k \in Tables \X RowIds /\ stores[k[1]].rows[k[2]] \in Values
    OBVIOUS
  <2>1. PICK t \in Tables :
          k \in {<<t, id>> : id \in {i \in DOMAIN stores[t].rows :
                                        stores[t].rows[i] \in VectorValues}}
    BY DEF VectorKeys
  <2>2. PICK id \in DOMAIN stores[t].rows : k = <<t, id>>
    BY <2>1
  <2>3. stores[t].rows \in Rows
    BY DEF Stores
  <2>4. id \in RowIds /\ stores[t].rows[id] \in Values
    BY <2>2, <2>3, RowsIff
  <2>5. QED
    BY <2>2, <2>4
<1>2. DOMAIN deltas \subseteq Tables \X RowIds /\ deltas \in [DOMAIN deltas -> R]
  BY DEF IsPartial
<1>3. new = [k \in DOMAIN deltas \cup keys |->
               IF k \in keys
                 THEN [generation |-> g, vector |-> stores[k[1]].rows[k[2]]]
                 ELSE deltas[k]]
  BY DEF recordVectorOverlayDeltas
<1>4. new \in [DOMAIN deltas \cup keys -> R] /\ DOMAIN new = DOMAIN deltas \cup keys
  BY <1>1, <1>2, <1>3
<1>5. QED
  BY <1>1, <1>2, <1>4 DEF IsPartial

-----------------------------------------------------------------------------
(***************************************************************************)
(* The inductive invariant.  The registry counts handles, so that a copy   *)
(* is there for every reader; and ids in the stores and their copies stay  *)
(* below next_id, so that the ids of staged inserts are fresh.             *)
(***************************************************************************)

(* Ids stay below the next_id from which a transaction would start. *)
StoredIdsOK ==
  /\ \A t \in Tables : IdsBelowNext(store[t])
  /\ \A g \in DOMAIN registry.retained : \A t \in Tables :
       \A id \in DOMAIN registry.retained[g][t].rows : id < store[t].next_id

(* The ids a session sees stay below those it stages, or is to stage. *)
Above(tx, base) ==
  \A b \in DOMAIN base : b < tx.next_id /\ \A id \in DOMAIN tx.inserts : b < id

TransactionsOK ==
  \A s \in Sessions :
    /\ ~active[s] => transactions[s] = NoTransactions
    /\ \A t \in DOMAIN transactions[s] :
         IF transactions[s][t].state = "active"
           THEN Above(transactions[s][t], baseRows(s, t))
           ELSE transactions[s][t].inserts = NoRows

IInv ==
  /\ TypeOK
  /\ RegistryExact
  /\ NoReaderLost
  /\ QueueIdle
  /\ StoredIdsOK
  /\ TransactionsOK

(* The step behind SnapshotStable. *)
BasesStable ==
  \A s \in Sessions, t \in Tables :
    Readable(s, t) /\ Readable(s, t)' => baseRows(s, t)' = baseRows(s, t)

(* The staging operations keep a transaction active and above its base. *)
LEMMA StagingAbove ==
  ASSUME NEW tx \in Transactions, tx.state = "active", NEW S,
         NEW base, DOMAIN base \subseteq RowIds, Above(tx, base)
  PROVE  /\ \A v : insert(tx, v).state = "active" /\ Above(insert(tx, v), base)
         /\ \A v : updateAll(tx, S, v).state = "active" /\ Above(updateAll(tx, S, v), base)
         /\ deleteAll(tx, S).state = "active" /\ Above(deleteAll(tx, S), base)
<1>1. tx.next_id \in Nat /\ \A b \in DOMAIN base : b \in Nat
  BY DEF Transactions, RowIds
<1>2. ASSUME NEW new, new.next_id >= tx.next_id, new.next_id \in Nat,
             DOMAIN new.inserts \subseteq DOMAIN tx.inserts \cup {tx.next_id}
      PROVE  Above(new, base)
  BY <1>1, <1>2 DEF Above
<1>3. ASSUME NEW v
      PROVE  insert(tx, v).state = "active" /\ Above(insert(tx, v), base)
  <2>1. /\ insert(tx, v).state = "active"
        /\ insert(tx, v).next_id = tx.next_id + 1
        /\ DOMAIN insert(tx, v).inserts = DOMAIN tx.inserts \cup {tx.next_id}
    BY InsertFields
  <2>2. QED
    BY <1>1, <1>2, <2>1
<1>4. ASSUME NEW v
      PROVE  updateAll(tx, S, v).state = "active" /\ Above(updateAll(tx, S, v), base)
  <2>1. /\ updateAll(tx, S, v).state = "active"
        /\ updateAll(tx, S, v).next_id = tx.next_id
        /\ DOMAIN updateAll(tx, S, v).inserts = DOMAIN tx.inserts
    BY UpdateFields
  <2>2. QED
    BY <1>1, <1>2, <2>1
<1>5. deleteAll(tx, S).state = "active" /\ Above(deleteAll(tx, S), base)
  <2>1. /\ deleteAll(tx, S).state = "active"
        /\ deleteAll(tx, S).next_id = tx.next_id
        /\ DOMAIN deleteAll(tx, S).inserts = DOMAIN tx.inserts \ S
    BY DeleteFields
  <2>2. QED
    BY <1>1, <1>2, <2>1
<1>6. QED
  BY <1>3, <1>4, <1>5

(* The base of a session is a set of rows below the live next_id. *)
LEMMA BaseType ==
  ASSUME IInv, NEW s \in Sessions, NEW t \in Tables
  PROVE  /\ baseRows(s, t) \in Rows
         /\ \A b \in DOMAIN baseRows(s, t) : b < store[t].next_id
<1>1. CASE active[s] /\ snapshot_handle[s] \in DOMAIN registry.retained
  <2>1. registry.retained[snapshot_handle[s]][t] \in Stores
    BY <1>1 DEF IInv, TypeOK, IsRegistry
  <2>2. baseRows(s, t) = registry.retained[snapshot_handle[s]][t].rows
    BY <1>1 DEF baseRows
  <2>3. QED
    BY <1>1, <2>1, <2>2 DEF IInv, StoredIdsOK, Stores
<1>2. CASE ~(active[s] /\ snapshot_handle[s] \in DOMAIN registry.retained)
  <2>1. store[t] \in Stores
    BY DEF IInv, TypeOK
  <2>2. baseRows(s, t) = store[t].rows
    BY <1>2 DEF baseRows
  <2>3. QED
    BY <2>1, <2>2 DEF IInv, StoredIdsOK, IdsBelowNext, Stores
<1>3. QED
  BY <1>1, <1>2

(* The transaction a statement writes into is above the session's base. *)
LEMMA TransactionForOK ==
  ASSUME FiniteSetFacts, IInv, NEW s \in Sessions, NEW t \in Tables,
         transactionFor(s, t).state = "active"
  PROVE  /\ transactionFor(s, t) \in Transactions
         /\ Above(transactionFor(s, t), baseRows(s, t))
<1>1. CASE t \in DOMAIN transactions[s]
  BY <1>1 DEF transactionFor, IInv, TypeOK, IsPartial, TransactionsOK
<1>2. CASE t \notin DOMAIN transactions[s]
  <2> DEFINE p == Cardinality(DOMAIN transactions[s]) + 1
  <2>1. transactionFor(s, t) = begin(p, store[t])
    BY <1>2 DEF transactionFor
  <2>2. store[t] \in Stores
    BY DEF IInv, TypeOK
  <2>3. /\ transactionFor(s, t).next_id = store[t].next_id
        /\ transactionFor(s, t).inserts = NoRows
    BY <2>1 DEF begin
  <2>4. Above(transactionFor(s, t), baseRows(s, t))
    BY <2>3, BaseType DEF Above, NoRows
  <2>5. p \in Nat
    <3>1. DOMAIN transactions[s] \subseteq Tables
      BY DEF IInv, TypeOK, IsPartial
    <3>2. IsFiniteSet(DOMAIN transactions[s])
      BY <3>1, TablesAssumption, FiniteSubset
    <3>3. QED
      BY <3>2, CardinalityType
  <2>6. QED
    BY <2>1, <2>2, <2>4, <2>5, BeginType
<1>3. QED
  BY <1>1, <1>2

-----------------------------------------------------------------------------
(***************************************************************************)
(* Every step keeps the invariant, and the base of every reader.           *)
(***************************************************************************)

(* A statement that only stages writes. *)
LEMMA StagePreserves ==
  ASSUME IInv, NEW s \in Sessions, active[s], NEW t \in Tables, NEW tx \in Transactions,
         tx.state = "active", Above(tx, baseRows(s, t)), StageOn(s, t, tx)
  PROVE  IInv' /\ BasesStable
<1> DEFINE mine == transactions[s]
           next == [u \in DOMAIN mine \cup {t} |-> IF u = t THEN tx ELSE mine[u]]
<1>1. /\ transactions' = [transactions EXCEPT ![s] = next]
      /\ UNCHANGED <<store, commit_sequence, commit_queue, registry, vector_overlay,
                     active, snapshot_handle>>
  BY DEF StageOn, dbVars
<1>2. DOMAIN transactions = Sessions /\ \A u \in Sessions : IsPartial(transactions[u], Tables, Transactions)
  BY DEF IInv, TypeOK
<1>3. transactions'[s] = next /\ \A u \in Sessions \ {s} : transactions'[u] = transactions[u]
  BY <1>1, <1>2
<1>4. \A u \in Sessions, w \in Tables : baseRows(u, w)' = baseRows(u, w)
  BY <1>1 DEF baseRows
<1>5. TypeOK'
  <2>1. IsPartial(next, Tables, Transactions)
    BY <1>2 DEF IsPartial
  <2>2. \A u \in Sessions : IsPartial(transactions'[u], Tables, Transactions)
    BY <1>2, <1>3, <2>1
  <2>3. DOMAIN transactions' = Sessions
    BY <1>1, <1>2
  <2>4. QED
    BY ZenonT(30), <1>1, <2>2, <2>3 DEF IInv, TypeOK
<1>6. RegistryExact' /\ NoReaderLost' /\ QueueIdle' /\ StoredIdsOK'
  BY <1>1 DEF IInv, RegistryExact, Holders, NoReaderLost, SnapshotLost, QueueIdle,
              StoredIdsOK, IdsBelowNext
<1>7. TransactionsOK'
  <2> SUFFICES ASSUME NEW u \in Sessions
               PROVE  /\ ~active'[u] => transactions'[u] = NoTransactions
                      /\ \A w \in DOMAIN transactions'[u] :
                           IF transactions'[u][w].state = "active"
                             THEN Above(transactions'[u][w], baseRows(u, w)')
                             ELSE transactions'[u][w].inserts = NoRows
    BY Zenon DEF TransactionsOK, Above
  <2>1. \A w \in DOMAIN transactions[u] : w \in Tables
    BY <1>2 DEF IsPartial
  <2>2. CASE u # s
    BY <1>1, <1>3, <1>4, <2>1, <2>2 DEF IInv, TransactionsOK
  <2>3. CASE u = s
    BY <1>1, <1>3, <1>4, <2>1, <2>3 DEF IInv, TransactionsOK
  <2>4. QED
    BY Zenon, <2>2, <2>3
<1>8. QED
  BY <1>4, <1>5, <1>6, <1>7 DEF IInv, BasesStable

(* INSERT, valid or not. *)
LEMMA InsertPreserves ==
  ASSUME FiniteSetFacts, IInv, NEW s \in Sessions, NEW t \in Tables,
         executeInsertInvalid(s, t) \/ \E v \in Values : executeInsert(s, t, v)
  PROVE  IInv' /\ BasesStable
<1> DEFINE tx == transactionFor(s, t)
<1>1. CASE executeInsertInvalid(s, t)
  <2>1. tx.state = "active" /\ active[s] /\ StageOn(s, t, tx)
    BY <1>1 DEF executeInsertInvalid, transactionFor, begin
  <2>2. tx \in Transactions /\ Above(tx, baseRows(s, t))
    BY <2>1, TransactionForOK
  <2>3. QED
    BY <2>1, <2>2, StagePreserves
<1>2. ASSUME NEW v \in Values, executeInsert(s, t, v)
      PROVE  IInv' /\ BasesStable
  <2>1. /\ active[s] /\ tx.state = "active" /\ tx.next_id <= MaxRowId
        /\ StageOn(s, t, insert(tx, v))
    BY <1>2 DEF executeInsert
  <2>2. tx \in Transactions /\ Above(tx, baseRows(s, t))
    BY <2>1, TransactionForOK
  <2>3. insert(tx, v) \in Transactions
    BY <2>1, <2>2, StagingType
  <2>4. insert(tx, v).state = "active" /\ Above(insert(tx, v), baseRows(s, t))
    <3>1. DOMAIN baseRows(s, t) \subseteq RowIds
      BY BaseType, RowsIff
    <3>2. QED
      BY <2>1, <2>2, <3>1, StagingAbove
  <2>5. QED
    BY <2>1, <2>3, <2>4, StagePreserves
<1>3. QED
  BY <1>1, <1>2

(* UPDATE and DELETE, whether or not they get through all their rows. *)
LEMMA ChangePreserves ==
  ASSUME FiniteSetFacts, IInv, NEW s \in Sessions, NEW t \in Tables,
         NEW R \in SUBSET DOMAIN scanRowsForTable(s, t),
         executeDelete(s, t, R) \/ \E v \in Values : executeUpdate(s, t, R, v)
  PROVE  IInv' /\ BasesStable
<1> DEFINE tx == transactionFor(s, t)
<1>1. /\ active[s] /\ tx.state = "active"
      /\ \E S \in Staged(tx, store[t], R) :
           \/ StageOn(s, t, deleteAll(tx, S))
           \/ \E v \in Values : StageOn(s, t, updateAll(tx, S, v))
  BY DEF executeDelete, executeUpdate
<1>2. tx \in Transactions /\ Above(tx, baseRows(s, t))
  BY <1>1, TransactionForOK
<1>3. DOMAIN baseRows(s, t) \subseteq RowIds
  BY BaseType, RowsIff
<1>4. R \subseteq RowIds
  <2>1. DOMAIN tx.inserts \subseteq RowIds
    BY <1>2, RowsIff DEF Transactions
  <2>2. QED
    BY <1>3, <2>1 DEF scanRowsForTable, scanWithBase
<1>5. PICK S \in SUBSET RowIds :
        \/ StageOn(s, t, deleteAll(tx, S))
        \/ \E v \in Values : StageOn(s, t, updateAll(tx, S, v))
  <2>1. \A S \in Staged(tx, store[t], R) : S \in SUBSET RowIds
    BY Zenon, <1>4 DEF Staged
  <2>2. QED
    BY Zenon, <1>1, <2>1
<1> HIDE DEF tx
<1>6. CASE StageOn(s, t, deleteAll(tx, S))
  <2> DEFINE new == deleteAll(tx, S)
  <2>1. new \in Transactions
    BY <1>2, StagingType
  <2>2. new.state = "active" /\ Above(new, baseRows(s, t))
    BY <1>1, <1>2, <1>3, StagingAbove
  <2> HIDE DEF new
  <2>3. StageOn(s, t, new)
    BY <1>6 DEF new
  <2>4. QED
    BY <1>1, <2>1, <2>2, <2>3, StagePreserves
<1>7. ASSUME NEW v \in Values, StageOn(s, t, updateAll(tx, S, v))
      PROVE  IInv' /\ BasesStable
  <2> DEFINE new == updateAll(tx, S, v)
  <2>1. new \in Transactions
    BY <1>2, StagingType
  <2>2. new.state = "active" /\ Above(new, baseRows(s, t))
    BY Zenon, <1>1, <1>2, <1>3, StagingAbove
  <2> HIDE DEF new
  <2>3. StageOn(s, t, new)
    BY <1>7 DEF new
  <2>4. QED
    BY <1>1, <2>1, <2>2, <2>3, StagePreserves
<1>8. QED
  BY <1>5, <1>6, <1>7

(* BEGIN. *)
LEMMA BeginPreserves ==
  ASSUME FiniteSetFacts, IInv, NEW s \in Sessions, Begin(s)
  PROVE  IInv' /\ BasesStable
<1>1. /\ snapshot_handle' = [snapshot_handle EXCEPT ![s] = commit_sequence]
      /\ active' = [active EXCEPT ![s] = TRUE]
      /\ ~active[s]
      /\ UNCHANGED <<store, commit_sequence, commit_queue, vector_overlay, transactions>>
  BY DEF Begin
<1>2. /\ IsRegistry(registry', Copies)
      /\ registry'.retained = registry.retained
      /\ RegistryExact'
  BY BeginRegistry DEF IInv
<1>3. TypeOK'
  BY <1>1, <1>2 DEF IInv, TypeOK, Copies
<1>4. snapshot_handle'[s] = commit_sequence /\ \A u \in Sessions \ {s} :
        snapshot_handle'[u] = snapshot_handle[u] /\ active'[u] = active[u]
  BY <1>1 DEF IInv, TypeOK
<1>5. NoReaderLost'
  BY <1>1, <1>2, <1>4 DEF IInv, NoReaderLost, SnapshotLost
<1>6. QueueIdle' /\ StoredIdsOK'
  BY <1>1, <1>2 DEF IInv, QueueIdle, StoredIdsOK, IdsBelowNext
<1>7. \A u \in Sessions \ {s}, t \in Tables : baseRows(u, t)' = baseRows(u, t)
  BY <1>1, <1>2, <1>4 DEF baseRows
<1>8. TransactionsOK'
  <2> SUFFICES ASSUME NEW u \in Sessions
               PROVE  /\ ~active'[u] => transactions[u] = NoTransactions
                      /\ \A w \in DOMAIN transactions[u] :
                           IF transactions[u][w].state = "active"
                             THEN Above(transactions[u][w], baseRows(u, w)')
                             ELSE transactions[u][w].inserts = NoRows
    BY <1>1 DEF TransactionsOK, Above
  <2>1. CASE u # s
    <3>1. DOMAIN transactions[u] \subseteq Tables
      BY DEF IInv, TypeOK, IsPartial
    <3>2. QED
      BY <1>4, <1>7, <2>1, <3>1 DEF IInv, TransactionsOK
  <2>2. CASE u = s
    <3>1. active'[s]
      BY <1>1 DEF IInv, TypeOK
    <3>2. DOMAIN transactions[s] = {}
      BY Zenon, <1>1 DEF IInv, TransactionsOK, NoTransactions
    <3>3. QED
      BY <2>2, <3>1, <3>2
  <2>3. QED
    BY <2>1, <2>2
<1>9. BasesStable
  BY <1>1, <1>7 DEF BasesStable, Readable
<1>10. QED
  BY <1>2, <1>3, <1>5, <1>6, <1>8, <1>9 DEF IInv

(* What the end of a session leaves of the sessions. *)
LEMMA FinishSessions ==
  ASSUME TypeOK, NEW s \in Sessions, NEW reg, Finish(s, reg)
  PROVE  /\ ~active'[s] /\ snapshot_handle'[s] = NoHandle
         /\ transactions'[s] = NoTransactions
         /\ \A u \in Sessions \ {s} : /\ active'[u] = active[u]
                                      /\ snapshot_handle'[u] = snapshot_handle[u]
                                      /\ transactions'[u] = transactions[u]
         /\ active' \in [Sessions -> BOOLEAN]
         /\ snapshot_handle' \in [Sessions -> Generations \cup {NoHandle}]
         /\ DOMAIN transactions' = Sessions
         /\ \A u \in Sessions : IsPartial(transactions'[u], Tables, Transactions)
<1>1. IsPartial(NoTransactions, Tables, Transactions)
  BY DEF NoTransactions, IsPartial
<1>2. QED
  BY <1>1 DEF TypeOK, Finish

(* COMMIT of a read-only session, ROLLBACK, and the end of a session. *)
LEMMA FinishPreserves ==
  ASSUME FiniteSetFacts, IInv, NEW s \in Sessions, active[s], Finish(s, registry),
         UNCHANGED <<store, commit_sequence, commit_queue, vector_overlay>>
  PROVE  IInv' /\ BasesStable
<1>1. IsRegistry(registry, Copies) /\ RetainedOK(registry)
  BY DEF IInv, TypeOK, Copies, RegistryExact, RetainedOK
<1>2. /\ IsRegistry(registry', Copies)
      /\ RegistryExact'
      /\ \A g \in DOMAIN registry'.retained :
           g \in DOMAIN registry.retained /\ registry'.retained[g] = registry.retained[g]
      /\ \A u \in Sessions \ {s} :
           snapshot_handle[u] \in DOMAIN registry.retained
             => snapshot_handle[u] \in DOMAIN registry'.retained
  BY <1>1, FinishRegistry DEF IInv
<1>3. TypeOK
  BY DEF IInv
<1>4. TypeOK'
  BY Zenon, <1>2, <1>3, FinishSessions DEF TypeOK, Copies
<1>5. /\ ~active'[s] /\ transactions'[s] = NoTransactions
      /\ \A u \in Sessions \ {s} : /\ active'[u] = active[u]
                                   /\ snapshot_handle'[u] = snapshot_handle[u]
                                   /\ transactions'[u] = transactions[u]
  BY Zenon, <1>3, FinishSessions
<1>6. NoReaderLost'
  BY <1>2, <1>5 DEF IInv, NoReaderLost, SnapshotLost
<1>7. QueueIdle' /\ StoredIdsOK'
  BY Zenon, <1>2 DEF IInv, QueueIdle, StoredIdsOK, IdsBelowNext
<1>8. \A u \in Sessions \ {s}, t \in Tables : baseRows(u, t)' = baseRows(u, t)
  BY <1>2, <1>5 DEF baseRows
<1>9. TransactionsOK'
  <2> SUFFICES ASSUME NEW u \in Sessions
               PROVE  /\ ~active'[u] => transactions'[u] = NoTransactions
                      /\ \A w \in DOMAIN transactions'[u] :
                           IF transactions'[u][w].state = "active"
                             THEN Above(transactions'[u][w], baseRows(u, w)')
                             ELSE transactions'[u][w].inserts = NoRows
    BY Zenon DEF TransactionsOK, Above
  <2>1. CASE u # s
    <3>1. DOMAIN transactions[u] \subseteq Tables
      BY <1>3 DEF TypeOK, IsPartial
    <3>2. transactions'[u] = transactions[u] /\ active'[u] = active[u]
      BY Zenon, <1>5, <2>1
    <3>3. \A w \in DOMAIN transactions[u] : baseRows(u, w)' = baseRows(u, w)
      BY Zenon, <1>8, <2>1, <3>1
    <3>4. /\ ~active[u] => transactions[u] = NoTransactions
          /\ \A w \in DOMAIN transactions[u] :
               IF transactions[u][w].state = "active"
                 THEN Above(transactions[u][w], baseRows(u, w)')
                 ELSE transactions[u][w].inserts = NoRows
      BY Zenon, <3>3 DEF IInv, TransactionsOK
    <3>5. QED
      BY Zenon, <3>2, <3>4
  <2>2. CASE u = s
    <3>1. DOMAIN transactions'[s] = {}
      BY <1>5 DEF NoTransactions
    <3>2. QED
      BY Zenon, <1>5, <2>2, <3>1
  <2>3. QED
    BY Zenon, <2>1, <2>2
<1>10. BasesStable
  BY <1>5, <1>8 DEF BasesStable, Readable
<1>11. QED
  BY <1>2, <1>4, <1>6, <1>7, <1>9, <1>10 DEF IInv

(* What a COMMIT publishes on a table is a store, and next_id does not fall. *)
LEMMA PublishType ==
  ASSUME IInv, NEW s \in Sessions, NEW T \in SUBSET DOMAIN transactions[s],
         WithinBounds(s, T)
  PROVE  /\ Publish(s, T) \in [Tables -> Stores]
         /\ \A t \in Tables : /\ IdsBelowNext(Publish(s, T)[t])
                              /\ Publish(s, T)[t].next_id >= store[t].next_id
                              /\ t \notin T => Publish(s, T)[t] = store[t]
<1> SUFFICES ASSUME NEW t \in Tables
             PROVE  /\ Publish(s, T)[t] \in Stores
                    /\ IdsBelowNext(Publish(s, T)[t])
                    /\ Publish(s, T)[t].next_id >= store[t].next_id
                    /\ t \notin T => Publish(s, T)[t] = store[t]
  BY Zenon DEF Publish
<1>1. store[t] \in Stores /\ IdsBelowNext(store[t])
  BY DEF IInv, TypeOK, StoredIdsOK
<1>2. CASE t \in T
  <2>1. transactions[s][t] \in Transactions
    BY <1>2 DEF IInv, TypeOK, IsPartial
  <2>2. CommittedStores(transactions[s][t], store[t]) # {}
    BY <1>2 DEF WithinBounds
  <2>3. Publish(s, T)[t] = CommittedStore(transactions[s][t], store[t])
    BY <1>2 DEF Publish
  <2>4. QED
    BY Zenon, <1>1, <1>2, <2>1, <2>2, <2>3, CommittedStoreType
<1>3. CASE t \notin T
  <2>1. Publish(s, T)[t] = store[t]
    BY <1>3 DEF Publish
  <2>2. store[t].next_id \in Nat
    BY <1>1 DEF Stores
  <2>3. QED
    BY <1>1, <1>3, <2>1, <2>2
<1>4. QED
  BY <1>2, <1>3

(* Copies retained before the publication keep their ids below next_id. *)
LEMMA RetainedIds ==
  ASSUME FiniteSetFacts, IInv, NEW s \in Sessions, EntersCommit(s), NEW next \in [Tables -> Stores],
         \A t \in Tables : next[t].next_id >= store[t].next_id,
         NEW g \in DOMAIN RetainCurrent(s).retained, NEW t \in Tables,
         NEW id \in DOMAIN RetainCurrent(s).retained[g][t].rows
  PROVE  id < next[t].next_id
<1>1. /\ TypeOK
      /\ RegistryExact
  BY DEF IInv
<1>2. id < store[t].next_id
  <2>1. CASE g \in DOMAIN registry.retained
    BY Zenon, <1>1, <2>1, RetainRegistry DEF IInv, StoredIdsOK
  <2>2. CASE g \notin DOMAIN registry.retained
    BY Zenon, <1>1, <2>2, RetainRegistry DEF IInv, StoredIdsOK, IdsBelowNext
  <2>3. QED
    BY Zenon, <2>1, <2>2
<1>3. RetainCurrent(s).retained[g][t] \in Stores
  BY <1>1, RetainRegistry DEF IsRegistry, Copies
<1>4. id \in Nat
  <2>1. RetainCurrent(s).retained[g][t].rows \in Rows
    BY <1>3 DEF Stores
  <2>2. QED
    BY <2>1, RowsIff DEF RowIds
<1>5. store[t].next_id \in Nat /\ next[t].next_id \in Nat
  BY Zenon, <1>1, NextIdIsNat DEF TypeOK
<1>6. QED
  BY <1>2, <1>4, <1>5

(* A writer enters the queue and leaves it again within its COMMIT. *)
LEMMA QueueRoundTrip ==
  ASSUME NEW q \in [pending_writes : Nat, last_assigned_sequence : Generations]
  PROVE  /\ abortQueuedCommit(enqueue(q)) = q
         /\ completeQueuedCommit(enqueue(q)).pending_writes = q.pending_writes
         /\ completeQueuedCommit(enqueue(q)).last_assigned_sequence
              = q.last_assigned_sequence + 1
         /\ completeQueuedCommit(enqueue(q))
              = [pending_writes |-> q.pending_writes,
                 last_assigned_sequence |-> q.last_assigned_sequence + 1]
<1>1. PICK p \in Nat, l \in Generations : q = [pending_writes |-> p, last_assigned_sequence |-> l]
  OBVIOUS
<1>2. enqueue(q) = [pending_writes |-> p + 1, last_assigned_sequence |-> l]
  BY <1>1 DEF enqueue
<1>3. abortQueuedCommit(enqueue(q)) = [pending_writes |-> (p + 1) - 1, last_assigned_sequence |-> l]
  BY <1>2 DEF abortQueuedCommit
<1>4. completeQueuedCommit(enqueue(q))
        = [pending_writes |-> (p + 1) - 1, last_assigned_sequence |-> l + 1]
  BY <1>2 DEF completeQueuedCommit
<1>5. (p + 1) - 1 = p
  OBVIOUS
<1>6. QED
  BY <1>1, <1>3, <1>4, <1>5

(* A reader other than s has its copy when s starts to publish. *)
LEMMA ReadersRetained ==
  ASSUME FiniteSetFacts, IInv, NEW s \in Sessions, EntersCommit(s), NEW u \in Sessions \ {s}, active[u]
  PROVE  /\ snapshot_handle[u] \in DOMAIN RetainCurrent(s).retained
         /\ \A t \in Tables :
              RetainCurrent(s).retained[snapshot_handle[u]][t].rows = baseRows(u, t)
<1>1. TypeOK /\ RegistryExact
  BY DEF IInv
<1>2. CASE snapshot_handle[u] \in DOMAIN registry.retained
  BY Zenon, <1>1, <1>2, RetainRegistry DEF baseRows
<1>3. CASE snapshot_handle[u] \notin DOMAIN registry.retained
  <2>1. snapshot_handle[u] = commit_sequence
    BY <1>3 DEF IInv, NoReaderLost, SnapshotLost
  <2>2. /\ commit_sequence \in DOMAIN RetainCurrent(s).retained
        /\ RetainCurrent(s).retained[commit_sequence] = store
    BY Zenon, <1>1, <1>3, <2>1, RetainRegistry
  <2>3. QED
    BY Zenon, <1>3, <2>1, <2>2 DEF baseRows
<1>4. QED
  BY Zenon, <1>2, <1>3

(* COMMIT that publishes. *)
LEMMA CommitPreserves ==
  ASSUME FiniteSetFacts, IInv, NEW s \in Sessions, Commit(s)
  PROVE  IInv' /\ BasesStable
<1> DEFINE T == DOMAIN transactions[s]
           reg == RetainCurrent(s)
<1>1. /\ EntersCommit(s) /\ active[s]
      /\ commit_sequence < MaxCommits
      /\ WithinBounds(s, T)
      /\ store' = Publish(s, T)
      /\ commit_queue' = completeQueuedCommit(enqueue(commit_queue))
      /\ commit_sequence' = commit_queue'.last_assigned_sequence
      /\ vector_overlay' = recordVectorOverlayDeltas(vector_overlay, commit_sequence', store')
      /\ Finish(s, reg)
  BY Zenon DEF Commit, EntersCommit
<1>2. TypeOK /\ RegistryExact
  BY Zenon DEF IInv
<1>3. /\ IsRegistry(reg, Copies)
      /\ reg.active = registry.active
      /\ RetainedOK(reg)
  BY Zenon, <1>1, <1>2, RetainRegistry
<1>4. /\ IsRegistry(registry', Copies)
      /\ RegistryExact'
      /\ \A g \in DOMAIN registry'.retained :
           g \in DOMAIN reg.retained /\ registry'.retained[g] = reg.retained[g]
      /\ \A u \in Sessions \ {s} :
           snapshot_handle[u] \in DOMAIN reg.retained
             => snapshot_handle[u] \in DOMAIN registry'.retained
  BY ZenonT(30), <1>1, <1>2, <1>3, FinishRegistry
<1>5. /\ store' \in [Tables -> Stores]
      /\ \A t \in Tables : IdsBelowNext(store'[t]) /\ store'[t].next_id >= store[t].next_id
  BY <1>1, PublishType
<1>6. commit_queue' = [pending_writes |-> 0, last_assigned_sequence |-> commit_sequence + 1]
  BY Zenon, <1>1, <1>2, QueueRoundTrip DEF IInv, TypeOK, QueueIdle
<1>7. /\ commit_sequence' = commit_sequence + 1
      /\ commit_sequence' \in Generations
  BY <1>1, <1>2, <1>6, MaxCommitsAssumption DEF TypeOK, Generations
<1>8. QueueIdle'
  BY <1>6, <1>7 DEF QueueIdle
<1>9. /\ ~active'[s] /\ transactions'[s] = NoTransactions
      /\ \A u \in Sessions \ {s} : /\ active'[u] = active[u]
                                   /\ snapshot_handle'[u] = snapshot_handle[u]
                                   /\ transactions'[u] = transactions[u]
      /\ active' \in [Sessions -> BOOLEAN]
      /\ snapshot_handle' \in [Sessions -> Generations \cup {NoHandle}]
      /\ DOMAIN transactions' = Sessions
      /\ \A u \in Sessions : IsPartial(transactions'[u], Tables, Transactions)
  BY ZenonT(30), <1>1, <1>2, FinishSessions
<1>10. TypeOK'
  <2>1. IsPartial(vector_overlay', Tables \X RowIds, [generation : Generations, vector : Values])
    BY ZenonT(30), <1>1, <1>2, <1>5, <1>7, RecordType DEF TypeOK
  <2>2. commit_queue' \in [pending_writes : Nat, last_assigned_sequence : Generations]
    BY Zenon, <1>6, <1>7
  <2>3. QED
    BY ZenonT(30), <1>4, <1>5, <1>7, <1>9, <2>1, <2>2 DEF TypeOK, Copies
<1>11. \A u \in Sessions \ {s} : active[u] =>
         /\ snapshot_handle[u] \in DOMAIN registry'.retained
         /\ \A t \in Tables : registry'.retained[snapshot_handle[u]][t].rows = baseRows(u, t)
  <2>1. SUFFICES ASSUME NEW u \in Sessions \ {s}, active[u]
                 PROVE  /\ snapshot_handle[u] \in DOMAIN registry'.retained
                        /\ \A t \in Tables :
                             registry'.retained[snapshot_handle[u]][t].rows = baseRows(u, t)
    BY Zenon
  <2>2. /\ snapshot_handle[u] \in DOMAIN reg.retained
        /\ \A t \in Tables : reg.retained[snapshot_handle[u]][t].rows = baseRows(u, t)
    BY Zenon, <1>1, <2>1, ReadersRetained
  <2>3. /\ snapshot_handle[u] \in DOMAIN registry'.retained
        /\ registry'.retained[snapshot_handle[u]] = reg.retained[snapshot_handle[u]]
    BY Zenon, <1>4, <2>2
  <2>4. QED
    BY Zenon, <2>2, <2>3
<1>12. NoReaderLost'
  BY Zenon, <1>9, <1>11 DEF NoReaderLost, SnapshotLost
<1>13. \A u \in Sessions \ {s}, t \in Tables : active[u] => baseRows(u, t)' = baseRows(u, t)
  <2>1. SUFFICES ASSUME NEW u \in Sessions \ {s}, NEW t \in Tables, active[u]
                 PROVE  baseRows(u, t)' = baseRows(u, t)
    BY Zenon
  <2>2. active'[u] /\ snapshot_handle'[u] = snapshot_handle[u]
    BY Zenon, <1>9, <2>1
  <2>3. baseRows(u, t)' = registry'.retained[snapshot_handle[u]][t].rows
    BY Zenon, <1>11, <2>1, <2>2 DEF baseRows
  <2>4. QED
    BY Zenon, <1>11, <2>1, <2>3
<1>14. StoredIdsOK'
  BY ZenonT(30), <1>1, <1>4, <1>5, RetainedIds DEF StoredIdsOK
<1>15. TransactionsOK'
  <2> SUFFICES ASSUME NEW u \in Sessions
               PROVE  /\ ~active'[u] => transactions'[u] = NoTransactions
                      /\ \A w \in DOMAIN transactions'[u] :
                           IF transactions'[u][w].state = "active"
                             THEN Above(transactions'[u][w], baseRows(u, w)')
                             ELSE transactions'[u][w].inserts = NoRows
    BY Zenon DEF TransactionsOK, Above
  <2>1. CASE u # s /\ active[u]
    <3>1. DOMAIN transactions[u] \subseteq Tables
      BY <1>2 DEF TypeOK, IsPartial
    <3>2. transactions'[u] = transactions[u] /\ active'[u] = active[u]
      BY Zenon, <1>9, <2>1
    <3>3. \A w \in DOMAIN transactions[u] : baseRows(u, w)' = baseRows(u, w)
      BY Zenon, <1>13, <2>1, <3>1
    <3>4. /\ ~active[u] => transactions[u] = NoTransactions
          /\ \A w \in DOMAIN transactions[u] :
               IF transactions[u][w].state = "active"
                 THEN Above(transactions[u][w], baseRows(u, w)')
                 ELSE transactions[u][w].inserts = NoRows
      BY Zenon, <3>3 DEF IInv, TransactionsOK
    <3>5. QED
      BY Zenon, <3>2, <3>4
  <2>2. CASE u = s \/ ~active[u]
    <3>1. transactions'[u] = NoTransactions
      BY Zenon, <1>9, <2>2 DEF IInv, TransactionsOK
    <3>2. DOMAIN transactions'[u] = {}
      BY Zenon, <3>1 DEF NoTransactions
    <3>3. QED
      BY Zenon, <3>1, <3>2
  <2>3. QED
    BY Zenon, <2>1, <2>2
<1>16. BasesStable
  BY Zenon, <1>9, <1>13 DEF BasesStable, Readable
<1>17. QED
  BY Zenon, <1>4, <1>8, <1>10, <1>12, <1>14, <1>15, <1>16 DEF IInv

(* COMMIT that fails after publishing some of its tables. *)
LEMMA CommitFailsPreserves ==
  ASSUME FiniteSetFacts, IInv, NEW s \in Sessions, NEW bad \in DOMAIN transactions[s], CommitFails(s, bad)
  PROVE  IInv' /\ BasesStable
<1> DEFINE mine == transactions[s]
           T == Before(s, bad)
           reg == RetainCurrent(s)
           left == [t \in DOMAIN mine |-> IF t \in T THEN Committed(mine[t]) ELSE mine[t]]
<1>1. /\ EntersCommit(s) /\ active[s]
      /\ WithinBounds(s, T)
      /\ store' = Publish(s, T)
      /\ transactions' = [transactions EXCEPT ![s] = left]
      /\ commit_queue' = abortQueuedCommit(enqueue(commit_queue))
      /\ registry' = reg
      /\ UNCHANGED <<commit_sequence, vector_overlay, active, snapshot_handle>>
  BY Zenon DEF CommitFails, EntersCommit
<1>2. /\ TypeOK /\ RegistryExact
      /\ T \in SUBSET DOMAIN mine
      /\ DOMAIN transactions = Sessions
      /\ \A u \in Sessions : IsPartial(transactions[u], Tables, Transactions)
  BY DEF IInv, TypeOK, Before
<1>3. /\ IsRegistry(registry', Copies)
      /\ registry'.active = registry.active
      /\ RetainedOK(registry')
      /\ \A g \in DOMAIN registry.retained :
           g \in DOMAIN registry'.retained /\ registry'.retained[g] = registry.retained[g]
      /\ \A g \in DOMAIN registry'.retained \ DOMAIN registry.retained :
           registry'.retained[g] = store
  BY Zenon, <1>1, <1>2, RetainRegistry
<1>4. /\ store' \in [Tables -> Stores]
      /\ \A t \in Tables : /\ IdsBelowNext(store'[t])
                           /\ store'[t].next_id >= store[t].next_id
                           /\ t \notin T => store'[t] = store[t]
  BY Zenon, <1>1, <1>2, PublishType
<1>5. commit_queue' = commit_queue
  BY Zenon, <1>1, <1>2, QueueRoundTrip DEF TypeOK
<1>6. transactions'[s] = left /\ \A u \in Sessions \ {s} : transactions'[u] = transactions[u]
  BY <1>1, <1>2
<1>7. TypeOK'
  <2>1. \A t \in DOMAIN mine : t \in Tables /\ mine[t] \in Transactions
    BY <1>2 DEF IsPartial
  <2>2. \A t \in DOMAIN mine : Committed(mine[t]) \in Transactions
    BY <1>2, <2>1, BeginType DEF TypeOK
  <2>3. IsPartial(left, Tables, Transactions)
    BY <2>1, <2>2 DEF IsPartial
  <2>4. \A u \in Sessions : IsPartial(transactions'[u], Tables, Transactions)
    BY Zenon, <1>2, <1>6, <2>3
  <2>5. DOMAIN transactions' = Sessions
    BY <1>1, <1>2
  <2>6. QED
    BY Zenon, <1>1, <1>2, <1>3, <1>4, <1>5, <2>4, <2>5 DEF TypeOK, Copies
<1>8. RegistryExact'
  BY Zenon, <1>1, <1>2, <1>3 DEF RegistryExact, RetainedOK, Holders
<1>9. NoReaderLost' /\ QueueIdle'
  BY Zenon, <1>1, <1>3, <1>5 DEF IInv, NoReaderLost, SnapshotLost, QueueIdle
<1>10. StoredIdsOK'
  BY Zenon, <1>1, <1>4, RetainedIds DEF StoredIdsOK
<1>11. \A u \in Sessions \ {s}, t \in Tables : active[u] => baseRows(u, t)' = baseRows(u, t)
  BY Zenon, <1>1, ReadersRetained DEF baseRows
<1>12. \A t \in Tables \ T : baseRows(s, t)' = baseRows(s, t)
  <2> SUFFICES ASSUME NEW t \in Tables \ T
               PROVE  baseRows(s, t)' = baseRows(s, t)
    OBVIOUS
  <2>1. CASE snapshot_handle[s] \in DOMAIN registry.retained
    BY Zenon, <1>1, <1>3, <2>1 DEF baseRows
  <2>2. CASE snapshot_handle[s] \notin DOMAIN registry.retained
    BY Zenon, <1>1, <1>3, <1>4, <2>2 DEF baseRows
  <2>3. QED
    BY Zenon, <2>1, <2>2
<1>13. \A t \in T : left[t].state = "committed" /\ left[t].inserts = NoRows
  <2>1. \A t \in T : mine[t] \in Transactions
    BY Zenon, <1>2 DEF IsPartial
  <2>2. QED
    BY ZenonT(30), <1>2, <2>1 DEF Committed, Transactions
<1>14. TransactionsOK'
  <2> SUFFICES ASSUME NEW u \in Sessions
               PROVE  /\ ~active'[u] => transactions'[u] = NoTransactions
                      /\ \A w \in DOMAIN transactions'[u] :
                           IF transactions'[u][w].state = "active"
                             THEN Above(transactions'[u][w], baseRows(u, w)')
                             ELSE transactions'[u][w].inserts = NoRows
    BY Zenon DEF TransactionsOK, Above
  <2>1. \A w \in DOMAIN transactions[u] : w \in Tables
    BY <1>2 DEF IsPartial
  <2>2. CASE u # s /\ active[u]
    BY <1>1, <1>6, <1>11, <2>1, <2>2 DEF IInv, TransactionsOK
  <2>3. CASE u # s /\ ~active[u]
    <3>1. transactions'[u] = NoTransactions
      BY Zenon, <1>6, <2>3 DEF IInv, TransactionsOK
    <3>2. DOMAIN transactions'[u] = {}
      BY Zenon, <3>1 DEF NoTransactions
    <3>3. QED
      BY Zenon, <3>1, <3>2
  <2>4. CASE u = s
    <3>1. ASSUME NEW w \in DOMAIN left
          PROVE  IF left[w].state = "active" THEN Above(left[w], baseRows(s, w)')
                                             ELSE left[w].inserts = NoRows
      <4>1. CASE w \in T
        BY Zenon, <1>13, <4>1
      <4>2. CASE w \notin T
        <5>1. left[w] = mine[w] /\ w \in Tables \ T
          BY <2>1, <2>4, <4>2
        <5>2. baseRows(s, w)' = baseRows(s, w)
          BY <1>12, <5>1
        <5>3. IF mine[w].state = "active" THEN Above(mine[w], baseRows(s, w))
                                          ELSE mine[w].inserts = NoRows
          BY Zenon DEF IInv, TransactionsOK
        <5>4. QED
          BY Zenon, <5>1, <5>2, <5>3
      <4>3. QED
        BY Zenon, <4>1, <4>2
    <3>2. active'[u] /\ transactions'[u] = left
      BY Zenon, <1>1, <1>6, <2>4
    <3> HIDE DEF left
    <3>3. QED
      BY Zenon, <2>4, <3>1, <3>2
  <2>5. QED
    BY Zenon, <2>2, <2>3, <2>4
<1>15. BasesStable
  <2> SUFFICES ASSUME NEW u \in Sessions, NEW t \in Tables,
                      Readable(u, t), Readable(u, t)'
               PROVE  baseRows(u, t)' = baseRows(u, t)
    BY DEF BasesStable
  <2>1. CASE u # s
    BY Zenon, <1>11, <2>1 DEF Readable
  <2>2. CASE u = s
    <3>1. t \notin T
      BY Zenon, <1>2, <1>6, <1>13, <2>2 DEF Readable
    <3>2. QED
      BY Zenon, <1>12, <2>2, <3>1
  <2>3. QED
    BY <2>1, <2>2
<1>16. QED
  BY <1>7, <1>8, <1>9, <1>10, <1>14, <1>15 DEF IInv

(* drainVectorOverlay touches only the overlay. *)
LEMMA DrainPreserves ==
  ASSUME IInv, NEW through, NEW max_count, drainVectorOverlay(through, max_count)
  PROVE  IInv' /\ BasesStable
<1>1. PICK drained \in SUBSET DOMAIN vector_overlay :
        vector_overlay' = Drain(vector_overlay, drained)
  BY DEF drainVectorOverlay
<1>2. UNCHANGED <<store, commit_sequence, commit_queue, registry, active, snapshot_handle,
                  transactions>>
  BY DEF drainVectorOverlay, sessionVars
<1>3. IsPartial(vector_overlay', Tables \X RowIds, [generation : Generations, vector : Values])
  BY <1>1 DEF IInv, TypeOK, IsPartial, Drain
<1>4. TypeOK'
  BY Zenon, <1>2, <1>3 DEF IInv, TypeOK
<1>5. \A s \in Sessions, t \in Tables : baseRows(s, t)' = baseRows(s, t)
  BY Zenon, <1>2 DEF baseRows
<1>6. RegistryExact' /\ NoReaderLost' /\ QueueIdle' /\ StoredIdsOK'
  BY Zenon, <1>2 DEF IInv, RegistryExact, Holders, NoReaderLost, SnapshotLost, QueueIdle,
              StoredIdsOK, IdsBelowNext
<1>7. TransactionsOK'
  BY ZenonT(30), <1>2 DEF IInv, TransactionsOK, Above, baseRows
<1>8. QED
  BY <1>4, <1>5, <1>6, <1>7 DEF IInv, BasesStable

(* A stuttering step. *)
LEMMA StutterPreserves ==
  ASSUME IInv, UNCHANGED vars
  PROVE  IInv' /\ BasesStable
<1>1. UNCHANGED <<store, commit_sequence, commit_queue, registry, vector_overlay,
                  active, snapshot_handle, transactions>>
  BY Zenon DEF vars, dbVars, sessionVars
<1>2. TypeOK' /\ RegistryExact' /\ NoReaderLost' /\ QueueIdle' /\ StoredIdsOK'
  BY Zenon, <1>1 DEF IInv, TypeOK, RegistryExact, Holders, NoReaderLost, SnapshotLost, QueueIdle,
              StoredIdsOK, IdsBelowNext
<1>3. TransactionsOK' /\ BasesStable
  BY ZenonT(30), <1>1 DEF IInv, TransactionsOK, Above, baseRows, BasesStable
<1>4. QED
  BY <1>2, <1>3 DEF IInv

(* A new database satisfies the invariant. *)
LEMMA InitIInv == FiniteSetFacts /\ Init => IInv
<1> SUFFICES ASSUME FiniteSetFacts, Init PROVE IInv
  OBVIOUS
<1> USE DEF Init
<1>1. commit_sequence \in Generations /\ 0 \in Generations
  BY MaxCommitsAssumption DEF Generations
<1>2. store \in [Tables -> Stores] /\ \A t \in Tables : IdsBelowNext(store[t])
  BY InitialStoresAssumption DEF IdsBelowNext
<1>3. registry.active = [g \in Generations |-> 0] /\ DOMAIN registry.retained = {}
  BY DEF InitRegistry
<1>4. IsRegistry(registry, [Tables -> Stores])
  BY Zenon, <1>3 DEF InitRegistry, IsRegistry
<1>5. IsPartial(vector_overlay, Tables \X RowIds, [generation : Generations, vector : Values])
  BY DEF NoDeltas, IsPartial
<1>6. \A s \in Sessions : IsPartial(transactions[s], Tables, Transactions)
  BY DEF NoTransactions, IsPartial
<1>7. TypeOK
  BY Zenon, <1>1, <1>2, <1>4, <1>5, <1>6 DEF TypeOK, InitQueue
<1>8. RegistryExact
  <2>1. \A g \in Generations : Holders(g) = {}
    BY NoHandleAssumption DEF Holders
  <2>2. QED
    <3>1. 0 <= RetentionLimit
      BY RetentionLimitAssumption
    <3>2. Cardinality({}) = 0
      BY Zenon, EmptySet
    <3>3. QED
      BY Zenon, <1>3, <2>1, <3>1, <3>2 DEF RegistryExact
<1>9. NoReaderLost /\ QueueIdle /\ StoredIdsOK
  BY Zenon, <1>2, <1>3 DEF NoReaderLost, SnapshotLost, QueueIdle, InitQueue, StoredIdsOK
<1>10. TransactionsOK
  BY Zenon DEF TransactionsOK, NoTransactions
<1>11. QED
  BY <1>7, <1>8, <1>9, <1>10 DEF IInv

(* Every step keeps the invariant and the base of every reader. *)
LEMMA StepIInv == FiniteSetFacts /\ IInv /\ [Next]_vars => IInv' /\ BasesStable
<1> SUFFICES ASSUME FiniteSetFacts, IInv, [Next]_vars PROVE IInv' /\ BasesStable
  OBVIOUS
<1>1. ASSUME NEW s \in Sessions, Statement(s)
      PROVE  IInv' /\ BasesStable
  <2>1. CASE Begin(s)
    BY <2>1, BeginPreserves
  <2>2. ASSUME NEW t \in Tables,
               executeInsertInvalid(s, t) \/ \E v \in Values : executeInsert(s, t, v)
        PROVE  IInv' /\ BasesStable
    BY <2>2, InsertPreserves
  <2>3. ASSUME NEW t \in Tables, NEW R \in SUBSET DOMAIN scanRowsForTable(s, t),
               executeDelete(s, t, R) \/ \E v \in Values : executeUpdate(s, t, R, v)
        PROVE  IInv' /\ BasesStable
    BY <2>3, ChangePreserves
  <2>4. CASE CommitReadOnly(s)
    BY <2>4, FinishPreserves DEF CommitReadOnly
  <2>5. CASE Commit(s)
    BY <2>5, CommitPreserves
  <2>6. ASSUME NEW bad \in DOMAIN transactions[s], CommitFails(s, bad)
        PROVE  IInv' /\ BasesStable
    BY <2>6, CommitFailsPreserves
  <2>7. CASE Rollback(s)
    BY Zenon, <2>7, FinishPreserves DEF Rollback
  <2>8. CASE Deinit(s)
    BY <2>8, FinishPreserves DEF Deinit
  <2>9. QED
    BY Zenon, <1>1, <2>1, <2>2, <2>3, <2>4, <2>5, <2>6, <2>7, <2>8 DEF Statement
<1>2. ASSUME NEW g \in Generations, NEW n \in DrainBudgets, drainVectorOverlay(g, n)
      PROVE  IInv' /\ BasesStable
  BY <1>2, DrainPreserves
<1>3. CASE UNCHANGED vars
  BY <1>3, StutterPreserves
<1>4. QED
  BY <1>1, <1>2, <1>3 DEF Next

(* What the invariant says of a transaction's base makes its inserts fresh. *)
LEMMA IInvFresh == IInv => StagedIdsFresh
<1> SUFFICES ASSUME IInv, NEW s \in Sessions, NEW t \in DOMAIN transactions[s],
                    NEW id \in DOMAIN transactions[s][t].inserts,
                    NEW b \in DOMAIN baseRows(s, t)
             PROVE  b < id
  BY DEF StagedIdsFresh
<1>1. transactions[s][t].inserts # NoRows
  BY DEF NoRows
<1>2. Above(transactions[s][t], baseRows(s, t))
  BY Zenon, <1>1 DEF IInv, TransactionsOK
<1>3. QED
  BY <1>2 DEF Above

-----------------------------------------------------------------------------
-----------------------------------------------------------------------------
(***************************************************************************)
(* Transaction.commit applies exactly what was staged.                     *)
(***************************************************************************)

WritesOf(tx) == [inserts |-> tx.inserts, updates |-> tx.updates, deletes |-> tx.deletes]

(* The committed ids are distinct, and are not those of rows that stay. *)
LEMMA CommitIdsFresh ==
  ASSUME NEW tx \in Transactions, NEW st \in Stores, IdsBelowNext(st),
         NEW ids \in CommitIds(tx, st)
  PROVE  /\ ids \in [DOMAIN tx.inserts -> RowIds \ (DOMAIN st.rows \ tx.deletes)]
         /\ \A i, j \in DOMAIN tx.inserts : ids[i] = ids[j] => i = j
<1> DEFINE D == DOMAIN tx.inserts
           kept == DOMAIN st.rows \ tx.deletes
           before(i) == {ids[j] : j \in {k \in D : k < i}}
<1>1. /\ ids \in [D -> RowIds]
      /\ \A i \in D : IF i \in kept \cup before(i)
                        THEN IsNextRowId(ids[i], st, before(i))
                        ELSE ids[i] = i
  BY Zenon DEF CommitIds, IsCommitIds
<1>2. D \subseteq RowIds /\ kept \subseteq RowIds
  BY RowsIff DEF Transactions, Stores
<1>3. RowIds \subseteq Nat /\ st.next_id \in Nat
  BY DEF RowIds, Stores
<1>4. ASSUME NEW i \in D
      PROVE  ids[i] \notin kept
  <2>1. CASE i \in kept \cup before(i)
    <3>1. ids[i] >= st.next_id
      BY Zenon, <1>1, <2>1 DEF IsNextRowId
    <3>2. \A k \in kept : k < st.next_id
      BY Zenon DEF IdsBelowNext
    <3>3. ids[i] \in Nat
      BY Zenon, <1>1, <1>3
    <3>4. ids[i] \in kept => ids[i] < st.next_id
      BY Zenon, <3>2
    <3>5. QED
      BY <1>3, <3>1, <3>3, <3>4
  <2>2. CASE i \notin kept \cup before(i)
    BY ZenonT(30), <1>1, <2>2
  <2>3. QED
    BY Zenon, <2>1, <2>2
<1>5. ASSUME NEW i \in D, NEW j \in D, j < i
      PROVE  ids[i] # ids[j]
  <2>1. ids[j] \in before(i)
    BY <1>5
  <2>2. CASE i \in kept \cup before(i)
    <3>1. ids[i] > ids[j]
      BY <1>1, <2>1, <2>2 DEF IsNextRowId
    <3>2. ids[i] \in Nat /\ ids[j] \in Nat
      BY ZenonT(30), <1>1, <1>3
    <3>3. QED
      BY <3>1, <3>2
  <2>3. CASE i \notin kept \cup before(i)
    BY Zenon, <1>1, <2>1, <2>3
  <2>4. QED
    BY Zenon, <2>2, <2>3
<1>6. ASSUME NEW i \in D, NEW j \in D, ids[i] = ids[j]
      PROVE  i = j
  <2>1. i \in Nat /\ j \in Nat
    BY Zenon, <1>2, <1>3
  <2>2. ~(j < i) /\ ~(i < j)
    BY <1>5, <1>6
  <2>3. QED
    BY <2>1, <2>2
<1>7. ids \in [D -> RowIds \ kept]
  BY Zenon, <1>1, <1>4
<1>8. QED
  BY Zenon, <1>6, <1>7

(* The store that COMMIT swaps in is the old one with the staged writes applied. *)
LEMMA CommitApplies ==
  ASSUME NEW tx \in Transactions, NEW st \in Stores, IdsBelowNext(st),
         CanCommit(tx, st), CommittedStores(tx, st) # {}
  PROVE  Isolation!Applies(WritesOf(tx), st.rows, CommittedStore(tx, st).rows)
<1> DEFINE next == CommittedStore(tx, st)
           new == next.rows
           D == DOMAIN tx.inserts
           kept == DOMAIN st.rows \ tx.deletes
<1>1. next \in CommittedStores(tx, st)
  BY DEF CommittedStore
<1>2. PICK ids \in CommitIds(tx, st), n \in 1..(MaxRowId + 1) :
        next = [rows |-> CommitRows(ids, tx, st), next_id |-> n]
  BY ZenonT(30), <1>1 DEF CommittedStores
<1>3. /\ ids \in [D -> RowIds \ kept]
      /\ \A i, j \in D : ids[i] = ids[j] => i = j
  BY Zenon, CommitIdsFresh
<1>4. new = CommitRows(ids, tx, st)
  BY Zenon, <1>2, RowsOfStore
<1> DEFINE used == {ids[i] : i \in DOMAIN ids}
<1>5. new = [id \in kept \cup used |->
               IF id \in used THEN tx.inserts[CHOOSE i \in DOMAIN ids : ids[i] = id]
               ELSE IF id \in DOMAIN tx.updates THEN tx.updates[id]
               ELSE st.rows[id]]
  BY Zenon, <1>4 DEF CommitRows
<1> HIDE DEF new
<1>6. DOMAIN ids = D /\ used = {ids[i] : i \in D}
  BY Zenon, <1>3
<1>7. DOMAIN new = kept \cup {ids[i] : i \in D}
  BY Zenon, <1>5, <1>6
<1>8. ASSUME NEW i \in D
      PROVE  new[ids[i]] = tx.inserts[i]
  <2>1. ids[i] \in used
    BY Zenon, <1>6
  <2>2. new[ids[i]] = tx.inserts[CHOOSE j \in D : ids[j] = ids[i]]
    BY Zenon, <1>5, <1>6, <2>1
  <2>3. (CHOOSE j \in D : ids[j] = ids[i]) = i
    BY Zenon, <1>3
  <2>4. QED
    BY ZenonT(30), <2>2, <2>3
<1>9. ASSUME NEW id \in kept
      PROVE  new[id] = IF id \in DOMAIN tx.updates THEN tx.updates[id] ELSE st.rows[id]
  <2>1. id \notin used
    <3>1. \A i \in D : ids[i] \notin kept
      BY Zenon, <1>3
    <3>2. id \in used => \E i \in D : ids[i] = id
      BY Zenon, <1>6
    <3>3. QED
      BY Zenon, <3>1, <3>2
  <2>2. QED
    BY Zenon, <1>5, <2>1
<1>10. tx.deletes \subseteq DOMAIN st.rows /\ DOMAIN tx.updates \subseteq kept
  BY Zenon DEF CanCommit, HasRow
<1>11. QED
  BY Zenon, <1>3, <1>7, <1>8, <1>9, <1>10 DEF Isolation!Applies, WritesOf, new

-----------------------------------------------------------------------------
(***************************************************************************)
(* The invariant of the refinement: no transaction is left committed,      *)
(* staged writes refer to rows of the base, and a copy of the current      *)
(* generation equals the live stores.                                      *)
(***************************************************************************)

(* The staged updates and deletes are of rows that the session sees. *)
OfBase(tx, base) ==
  tx.deletes \subseteq DOMAIN base /\ DOMAIN tx.updates \subseteq DOMAIN base \ tx.deletes

StagedOK ==
  \A s \in Sessions : \A t \in DOMAIN transactions[s] :
    /\ transactions[s][t].state = "active"
    /\ OfBase(transactions[s][t], baseRows(s, t))

CopiesOK ==
  \A g \in DOMAIN registry.retained :
    g <= commit_sequence /\ (g = commit_sequence => registry.retained[g] = store)

OInv == IInv /\ StagedOK /\ CopiesOK

(* One step of StagedOK: transactions that stay keep their base. *)
LEMMA StagedKept ==
  ASSUME OInv, BasesStable, NEW s \in Sessions, active[s], active'[s],
         transactions'[s] = transactions[s]
  PROVE  /\ \A t \in Tables : baseRows(s, t)' = baseRows(s, t)
         /\ \A t \in DOMAIN transactions'[s] :
              /\ transactions'[s][t].state = "active"
              /\ OfBase(transactions'[s][t], baseRows(s, t)')
<1>1. \A t \in Tables : Readable(s, t) /\ Readable(s, t)'
  BY Zenon DEF OInv, StagedOK, Readable
<1>2. \A t \in Tables : baseRows(s, t)' = baseRows(s, t)
  BY Zenon, <1>1 DEF BasesStable
<1>3. DOMAIN transactions[s] \subseteq Tables
  BY DEF OInv, IInv, TypeOK, IsPartial
<1>4. QED
  BY Zenon, <1>2, <1>3 DEF OInv, StagedOK

(* A session without a transaction has nothing staged. *)
LEMMA IdleSession ==
  ASSUME IInv, NEW s \in Sessions, ~active[s]
  PROVE  DOMAIN transactions[s] = {}
BY DEF IInv, TransactionsOK, NoTransactions

(* The mapped state of SnapshotIsolation. *)
Db        == [t \in Tables |-> store[t].rows]
SnapOf(s)   == [t \in Tables |-> SnapshotRows(s, t)]
StagedOf(s) == [t \in Tables |-> StagedWrites(s, t)]
Snap      == [s \in Sessions |-> SnapOf(s)]
AllStaged == [s \in Sessions |-> StagedOf(s)]

(* What SnapshotIsolation starts a session with. *)
LEMMA SameNothing == Isolation!NoRows = NoRows /\ Isolation!Rows = Rows
BY DEF Isolation!NoRows, NoRows, Isolation!Rows, Rows

(* Staged writes have the type that SnapshotIsolation gives them. *)
LEMMA WritesType ==
  /\ Isolation!NoWrites \in Isolation!Writes
  /\ \A tx \in Transactions : WritesOf(tx) \in Isolation!Writes
<1>1. NoRows \in Rows
  <2>1. NoRows \in [{} -> Values]
    BY DEF NoRows
  <2>2. QED
    BY ZenonT(30), <2>1, RowsIntro
<1>2. QED
  BY Zenon, <1>1, SameNothing DEF WritesOf, Isolation!NoWrites, Isolation!Writes, Transactions

(* What is staged on a table is that of its transaction, or nothing. *)
LEMMA StagedCases ==
  ASSUME NEW s, NEW t
  PROVE  /\ t \in DOMAIN transactions[s] => StagedWrites(s, t) = WritesOf(transactions[s][t])
         /\ t \notin DOMAIN transactions[s] => StagedWrites(s, t) = Isolation!NoWrites
BY Zenon, SameNothing DEF StagedWrites, WritesOf, Isolation!NoWrites

(* Nothing is well staged over any base. *)
LEMMA NothingWellStaged ==
  ASSUME NEW base
  PROVE  Isolation!WellStaged(Isolation!NoWrites, base)
BY Zenon DEF Isolation!WellStaged, Isolation!NoWrites, Isolation!NoRows

(* The writes of a transaction mean something to a session that reads base. *)
LEMMA WritesWellStaged ==
  ASSUME NEW tx \in Transactions, NEW base \in Rows, Above(tx, base), OfBase(tx, base)
  PROVE  Isolation!WellStaged(WritesOf(tx), base)
<1>1. \A b \in DOMAIN base : b \in Nat
  BY RowsIff DEF RowIds
<1>2. \A b \in DOMAIN base, i \in DOMAIN tx.inserts : b < i
  BY DEF Above
<1>3. DOMAIN tx.inserts \cap DOMAIN base = {}
  BY <1>1, <1>2
<1>4. QED
  BY Zenon, <1>3 DEF Isolation!WellStaged, WritesOf, OfBase

(* A transaction that is open stages over the rows of its base. *)
LEMMA OpenTransactionOK ==
  ASSUME OInv, NEW s \in Sessions, NEW t \in DOMAIN transactions[s]
  PROVE  /\ t \in Tables
         /\ transactions[s][t] \in Transactions
         /\ Above(transactions[s][t], baseRows(s, t))
         /\ OfBase(transactions[s][t], baseRows(s, t))
<1>1. t \in Tables /\ transactions[s][t] \in Transactions
  BY DEF OInv, IInv, TypeOK, IsPartial
<1>2. transactions[s][t].state = "active" /\ OfBase(transactions[s][t], baseRows(s, t))
  BY DEF OInv, StagedOK
<1>3. QED
  BY Zenon, <1>1, <1>2 DEF OInv, IInv, TransactionsOK

(* A step that changes the mapped state of one session only. *)
LEMMA SnapChange ==
  ASSUME NEW s \in Sessions, NEW rows, SnapOf(s)' = rows,
         \A u \in Sessions \ {s} : SnapOf(u)' = SnapOf(u)
  PROVE  Snap' = [Snap EXCEPT ![s] = rows]
<1>1. Snap' = [u \in Sessions |-> SnapOf(u)']
  BY DEF Snap
<1>2. QED
  BY Zenon, <1>1 DEF Snap

(* One session stages, and the others keep what they had. *)
LEMMA StagedChange ==
  ASSUME NEW s \in Sessions, NEW writes, StagedOf(s)' = writes,
         \A u \in Sessions \ {s} : StagedOf(u)' = StagedOf(u)
  PROVE  AllStaged' = [AllStaged EXCEPT ![s] = writes]
<1>1. AllStaged' = [u \in Sessions |-> StagedOf(u)']
  BY DEF AllStaged
<1>2. QED
  BY Zenon, <1>1 DEF AllStaged

(* A step that stages writes of s is a Write. *)
LEMMA StageRefines ==
  ASSUME OInv, NEW s \in Sessions, NEW t \in Tables, active[s], NEW tx \in Transactions,
         tx.state = "active", Above(tx, baseRows(s, t)), OfBase(tx, baseRows(s, t)),
         StageOn(s, t, tx)
  PROVE  OInv' /\ Isolation!Write(s)
<1>1. IInv' /\ BasesStable
  BY StagePreserves DEF OInv
<1>2. UNCHANGED <<store, commit_sequence, registry, active, snapshot_handle>>
  BY Zenon DEF StageOn, dbVars
<1>3. DOMAIN transactions = Sessions /\ \A u \in Sessions : DOMAIN transactions[u] \subseteq Tables
  BY Zenon DEF OInv, IInv, TypeOK, IsPartial
<1>4. /\ transactions'[s] = [u \in DOMAIN transactions[s] \cup {t} |->
                               IF u = t THEN tx ELSE transactions[s][u]]
      /\ \A u \in Sessions \ {s} : transactions'[u] = transactions[u]
  BY Zenon, <1>3 DEF StageOn
<1>5. /\ DOMAIN transactions'[s] = DOMAIN transactions[s] \cup {t}
      /\ transactions'[s][t] = tx
      /\ \A w \in DOMAIN transactions[s] \ {t} : transactions'[s][w] = transactions[s][w]
  BY ZenonT(30), <1>4
<1>6. \A u \in Sessions, w \in Tables : baseRows(u, w)' = baseRows(u, w)
  BY Zenon, <1>2 DEF baseRows
<1>7. StagedOK'
  <2> SUFFICES ASSUME NEW u \in Sessions, NEW w \in DOMAIN transactions'[u]
               PROVE  transactions'[u][w].state = "active" /\ OfBase(transactions'[u][w], baseRows(u, w)')
    BY Zenon DEF StagedOK, OfBase
  <2>1. CASE u = s /\ w = t
    BY Zenon, <1>5, <1>6, <2>1
  <2>2. CASE u = s /\ w # t
    BY Zenon, <1>3, <1>5, <1>6, <2>2 DEF OInv, StagedOK
  <2>3. CASE u # s
    <3>1. transactions'[u] = transactions[u] /\ w \in DOMAIN transactions[u] /\ w \in Tables
      BY Zenon, <1>3, <1>4, <2>3
    <3>2. transactions[u][w].state = "active" /\ OfBase(transactions[u][w], baseRows(u, w))
      BY Zenon, <3>1 DEF OInv, StagedOK
    <3>3. baseRows(u, w)' = baseRows(u, w)
      BY Zenon, <1>6, <3>1
    <3>4. QED
      BY Zenon, <3>1, <3>2, <3>3
  <2>4. QED
    BY Zenon, <2>1, <2>2, <2>3
<1>8. CopiesOK'
  <2>1. CopiesOK
    BY Zenon DEF OInv
  <2>2. registry' = registry /\ store' = store /\ commit_sequence' = commit_sequence
    BY Zenon, <1>2
  <2>3. QED
    BY Zenon, <2>1, <2>2 DEF CopiesOK
<1>9. /\ StagedWrites(s, t)' = WritesOf(tx)
      /\ \A w \in Tables \ {t} : StagedWrites(s, w)' = StagedWrites(s, w)
      /\ \A u \in Sessions \ {s}, w \in Tables : StagedWrites(u, w)' = StagedWrites(u, w)
  BY Zenon, <1>4, <1>5 DEF StagedWrites, WritesOf
<1>10. AllStaged'[s] \in [Tables -> Isolation!Writes]
  <2>1. ASSUME NEW w \in Tables
        PROVE  StagedWrites(s, w)' \in Isolation!Writes
    <3>1. w \in DOMAIN transactions[s] => transactions[s][w] \in Transactions
      BY Zenon, OpenTransactionOK
    <3>2. QED
      BY Zenon, <1>9, <3>1, StagedCases, WritesType
  <2>2. StagedOf(s)' \in [Tables -> Isolation!Writes]
    BY <2>1 DEF StagedOf
  <2>3. QED
    BY <2>2 DEF AllStaged
<1>11. \A w \in Tables : Isolation!WellStaged(AllStaged'[s][w], Snap[s][w])
  <2> SUFFICES ASSUME NEW w \in Tables
               PROVE  Isolation!WellStaged(StagedWrites(s, w)', baseRows(s, w))
    BY Zenon DEF AllStaged, Snap, StagedOf, SnapOf, SnapshotRows
  <2>1. CASE w = t
    BY Zenon, <1>9, <2>1, WritesWellStaged, BaseType DEF OInv
  <2>2. CASE w # t /\ w \in DOMAIN transactions[s]
    <3>1. StagedWrites(s, w)' = WritesOf(transactions[s][w])
      BY Zenon, <1>9, <2>2, StagedCases
    <3>2. /\ OfBase(transactions[s][w], baseRows(s, w))
          /\ transactions[s][w] \in Transactions
          /\ Above(transactions[s][w], baseRows(s, w))
      BY Zenon, <2>2, OpenTransactionOK DEF OInv
    <3>3. QED
      BY Zenon, <3>1, <3>2, WritesWellStaged, BaseType DEF OInv
  <2>3. CASE w # t /\ w \notin DOMAIN transactions[s]
    BY Zenon, <1>9, <2>3, StagedCases, NothingWellStaged
  <2>4. QED
    BY Zenon, <2>1, <2>2, <2>3
<1>12. Isolation!Write(s)
  <2>1. AllStaged' = [AllStaged EXCEPT ![s] = AllStaged'[s]]
    <3>1. \A u \in Sessions \ {s} : StagedOf(u)' = StagedOf(u)
      BY Zenon, <1>9 DEF StagedOf
    <3>2. StagedOf(s)' = AllStaged'[s]
      BY DEF AllStaged
    <3>3. QED
      BY <3>1, <3>2, StagedChange
  <2>2. Snap' = Snap /\ Db' = Db
    BY Zenon, <1>2, <1>6 DEF Snap, SnapOf, SnapshotRows, Db
  <2>3. QED
    BY Zenon, <1>2, <1>10, <1>11, <2>1, <2>2
       DEF Isolation!Write, AllStaged, Snap, StagedOf, SnapOf, Db
<1>13. QED
  BY <1>1, <1>7, <1>8, <1>12 DEF OInv

(* The transaction a statement writes into refers to rows of the base. *)
LEMMA TransactionForBase ==
  ASSUME OInv, NEW s \in Sessions, NEW t \in Tables
  PROVE  OfBase(transactionFor(s, t), baseRows(s, t))
<1>1. CASE t \in DOMAIN transactions[s]
  BY Zenon, <1>1 DEF transactionFor, OInv, StagedOK
<1>2. CASE t \notin DOMAIN transactions[s]
  BY Zenon, <1>2 DEF transactionFor, begin, OfBase, NoRows
<1>3. QED
  BY <1>1, <1>2

(* The staging operations keep a transaction's writes within its base. *)
LEMMA StagingOfBase ==
  ASSUME NEW tx \in Transactions, NEW base, OfBase(tx, base), NEW v,
         NEW S \in SUBSET ((DOMAIN base \ tx.deletes) \cup DOMAIN tx.inserts)
  PROVE  /\ OfBase(insert(tx, v), base)
         /\ OfBase(updateAll(tx, S, v), base)
         /\ OfBase(deleteAll(tx, S), base)
<1>1. OfBase(insert(tx, v), base)
  BY Zenon, InsertFields DEF OfBase
<1>2. OfBase(updateAll(tx, S, v), base)
  <2>1. /\ DOMAIN updateAll(tx, S, v).updates = DOMAIN tx.updates \cup (S \ DOMAIN tx.inserts)
        /\ updateAll(tx, S, v).deletes = tx.deletes
    BY UpdateFields
  <2>2. QED
    BY Zenon, <2>1 DEF OfBase
<1>3. OfBase(deleteAll(tx, S), base)
  <2>1. /\ DOMAIN deleteAll(tx, S).updates = DOMAIN tx.updates \ S
        /\ deleteAll(tx, S).deletes = tx.deletes \cup (S \ DOMAIN tx.inserts)
    BY Zenon, DeleteFields
  <2>2. QED
    BY Zenon, <2>1 DEF OfBase
<1>4. QED
  BY Zenon, <1>1, <1>2, <1>3

(* INSERT is a Write. *)
LEMMA InsertRefines ==
  ASSUME FiniteSetFacts, OInv, NEW s \in Sessions, NEW t \in Tables,
         executeInsertInvalid(s, t) \/ \E v \in Values : executeInsert(s, t, v)
  PROVE  OInv' /\ Isolation!Write(s)
<1> DEFINE tx == transactionFor(s, t)
<1>1. IInv /\ OfBase(tx, baseRows(s, t))
  BY TransactionForBase DEF OInv
<1>2. CASE executeInsertInvalid(s, t)
  <2>1. tx.state = "active" /\ active[s] /\ StageOn(s, t, tx)
    BY <1>2 DEF executeInsertInvalid, transactionFor, begin
  <2>2. tx \in Transactions /\ Above(tx, baseRows(s, t))
    BY <1>1, <2>1, TransactionForOK
  <2>3. QED
    BY Zenon, <1>1, <2>1, <2>2, StageRefines
<1>3. ASSUME NEW v \in Values, executeInsert(s, t, v)
      PROVE  OInv' /\ Isolation!Write(s)
  <2> DEFINE new == insert(tx, v)
  <2>1. /\ active[s] /\ tx.state = "active" /\ tx.next_id <= MaxRowId
        /\ StageOn(s, t, new)
    BY Zenon, <1>3 DEF executeInsert
  <2>2. tx \in Transactions /\ Above(tx, baseRows(s, t))
    BY Zenon, <1>1, <2>1, TransactionForOK
  <2>3. new \in Transactions
    BY Zenon, <2>1, <2>2, StagingType
  <2>4. DOMAIN baseRows(s, t) \subseteq RowIds
    BY <1>1, BaseType, RowsIff
  <2>5. new.state = "active" /\ Above(new, baseRows(s, t))
    BY Zenon, <2>1, <2>2, <2>4, StagingAbove
  <2>6. OfBase(new, baseRows(s, t))
    BY Zenon, <1>1, <2>2, StagingOfBase
  <2> HIDE DEF new
  <2>7. QED
    BY Zenon, <2>1, <2>3, <2>5, <2>6, StageRefines
<1>4. QED
  BY <1>2, <1>3

(* UPDATE and DELETE are Writes. *)
LEMMA ChangeRefines ==
  ASSUME FiniteSetFacts, OInv, NEW s \in Sessions, NEW t \in Tables,
         NEW R \in SUBSET DOMAIN scanRowsForTable(s, t),
         executeDelete(s, t, R) \/ \E v \in Values : executeUpdate(s, t, R, v)
  PROVE  OInv' /\ Isolation!Write(s)
<1> DEFINE tx == transactionFor(s, t)
           base == baseRows(s, t)
<1>1. /\ active[s] /\ tx.state = "active"
      /\ \E S \in Staged(tx, store[t], R) :
           \/ StageOn(s, t, deleteAll(tx, S))
           \/ \E v \in Values : StageOn(s, t, updateAll(tx, S, v))
  BY DEF executeDelete, executeUpdate
<1>2. tx \in Transactions /\ Above(tx, base) /\ OfBase(tx, base)
  BY Zenon, <1>1, TransactionForOK, TransactionForBase DEF OInv
<1>3. R \subseteq (DOMAIN base \ tx.deletes) \cup DOMAIN tx.inserts
  BY Zenon DEF scanRowsForTable, scanWithBase
<1>4. DOMAIN base \subseteq RowIds /\ DOMAIN tx.inserts \subseteq RowIds
  BY Zenon, <1>2, BaseType, RowsIff DEF Transactions, OInv
<1>5. PICK S \in SUBSET ((DOMAIN base \ tx.deletes) \cup DOMAIN tx.inserts) :
        \/ StageOn(s, t, deleteAll(tx, S))
        \/ \E v \in Values : StageOn(s, t, updateAll(tx, S, v))
  <2>1. \A S \in Staged(tx, store[t], R) :
          S \in SUBSET ((DOMAIN base \ tx.deletes) \cup DOMAIN tx.inserts)
    BY Zenon, <1>3 DEF Staged
  <2>2. QED
    BY Zenon, <1>1, <2>1
<1>6. S \in SUBSET RowIds
  BY Zenon, <1>4
<1> HIDE DEF tx, base
<1>7. CASE StageOn(s, t, deleteAll(tx, S))
  <2> DEFINE new == deleteAll(tx, S)
  <2>1. new \in Transactions
    BY Zenon, <1>2, <1>6, StagingType
  <2>2. new.state = "active" /\ Above(new, base)
    BY Zenon, <1>1, <1>2, <1>4, StagingAbove
  <2>3. OfBase(new, base)
    BY Zenon, <1>2, StagingOfBase
  <2> HIDE DEF new
  <2>4. StageOn(s, t, new)
    BY Zenon, <1>7 DEF new
  <2>5. active[s] /\ Above(new, baseRows(s, t)) /\ OfBase(new, baseRows(s, t))
    BY Zenon, <1>1, <2>2, <2>3 DEF base
  <2>6. QED
    BY Zenon, <2>1, <2>2, <2>4, <2>5, StageRefines
<1>8. ASSUME NEW v \in Values, StageOn(s, t, updateAll(tx, S, v))
      PROVE  OInv' /\ Isolation!Write(s)
  <2> DEFINE new == updateAll(tx, S, v)
  <2>1. new \in Transactions
    BY Zenon, <1>2, <1>6, StagingType
  <2>2. new.state = "active" /\ Above(new, base)
    BY Zenon, <1>1, <1>2, <1>4, StagingAbove
  <2>3. OfBase(new, base)
    BY Zenon, <1>2, StagingOfBase
  <2> HIDE DEF new
  <2>4. StageOn(s, t, new)
    BY Zenon, <1>8 DEF new
  <2>5. active[s] /\ Above(new, baseRows(s, t)) /\ OfBase(new, baseRows(s, t))
    BY Zenon, <1>1, <2>2, <2>3 DEF base
  <2>6. QED
    BY Zenon, <2>1, <2>2, <2>4, <2>5, StageRefines
<1>9. QED
  BY Zenon, <1>5, <1>7, <1>8

(* BEGIN takes the rows committed by now, also when they come from a copy. *)
LEMMA BeginRefines ==
  ASSUME FiniteSetFacts, OInv, NEW s \in Sessions, Begin(s)
  PROVE  OInv' /\ Isolation!Begin(s)
<1>1. IInv' /\ BasesStable
  BY BeginPreserves DEF OInv
<1>2. /\ snapshot_handle' = [snapshot_handle EXCEPT ![s] = commit_sequence]
      /\ active' = [active EXCEPT ![s] = TRUE]
      /\ ~active[s]
      /\ UNCHANGED <<store, commit_sequence, transactions>>
      /\ registry'.retained = registry.retained
  BY ZenonT(30), BeginRegistry DEF Begin, OInv, IInv
<1>3. /\ snapshot_handle'[s] = commit_sequence /\ active'[s]
      /\ \A u \in Sessions \ {s} : active'[u] = active[u]
  BY Zenon, <1>2 DEF OInv, IInv, TypeOK
<1>4. CopiesOK'
  BY <1>2 DEF OInv, CopiesOK
<1>5. \A t \in Tables : baseRows(s, t)' = store[t].rows
  BY Zenon, <1>2, <1>3 DEF baseRows, OInv, CopiesOK
<1>6. \A u \in Sessions \ {s} :
        active[u] => \A t \in Tables : baseRows(u, t)' = baseRows(u, t)
  BY Zenon, <1>1, <1>2, <1>3, StagedKept
<1>7. StagedOK'
  <2> SUFFICES ASSUME NEW u \in Sessions, NEW w \in DOMAIN transactions'[u]
               PROVE  transactions'[u][w].state = "active" /\ OfBase(transactions'[u][w], baseRows(u, w)')
    BY Zenon DEF StagedOK, OfBase
  <2>1. active[u]
    BY Zenon, <1>2, IdleSession DEF OInv
  <2>2. QED
    BY Zenon, <1>1, <1>2, <1>3, <2>1, StagedKept
<1>8. Snap' = [Snap EXCEPT ![s] = Db]
  <2>1. SnapOf(s)' = Db
    BY Zenon, <1>3, <1>5 DEF SnapOf, SnapshotRows, Db
  <2>2. \A u \in Sessions \ {s} : SnapOf(u)' = SnapOf(u)
    BY Zenon, <1>3, <1>6 DEF SnapOf, SnapshotRows
  <2>3. QED
    BY <2>1, <2>2, SnapChange
<1>9. AllStaged' = AllStaged /\ Db' = Db
  BY Zenon, <1>2 DEF AllStaged, StagedOf, StagedWrites, Db
<1>10. Isolation!Begin(s)
  BY Zenon, <1>2, <1>8, <1>9 DEF Isolation!Begin, Snap, AllStaged, SnapOf, StagedOf, Db
<1>11. QED
  BY <1>1, <1>4, <1>7, <1>10 DEF OInv

(* The end of a session is a Close, provided the copies stay right. *)
LEMMA CloseRefines ==
  ASSUME OInv, NEW s \in Sessions, active[s], NEW reg, Finish(s, reg), IInv', BasesStable
  PROVE  StagedOK' /\ Isolation!Close(s)
<1>1. TypeOK
  BY DEF OInv, IInv
<1>2. /\ ~active'[s] /\ transactions'[s] = NoTransactions
      /\ \A u \in Sessions \ {s} : active'[u] = active[u] /\ transactions'[u] = transactions[u]
      /\ active' = [active EXCEPT ![s] = FALSE]
  BY ZenonT(30), <1>1, FinishSessions DEF Finish
<1>3. StagedOK'
  <2> SUFFICES ASSUME NEW u \in Sessions, NEW w \in DOMAIN transactions'[u]
               PROVE  transactions'[u][w].state = "active" /\ OfBase(transactions'[u][w], baseRows(u, w)')
    BY Zenon DEF StagedOK, OfBase
  <2>1. u # s
    BY <1>2 DEF NoTransactions
  <2>2. active[u]
    BY Zenon, <1>2, <2>1, IdleSession DEF OInv
  <2>3. QED
    BY Zenon, <1>2, <2>1, <2>2, StagedKept
<1>4. \A u \in Sessions \ {s} :
        active[u] => \A t \in Tables : baseRows(u, t)' = baseRows(u, t)
  BY Zenon, <1>2, StagedKept
<1>5. Snap' = [Snap EXCEPT ![s] = [t \in Tables |-> NoRows]]
  <2>1. SnapOf(s)' = [t \in Tables |-> NoRows]
    BY Zenon, <1>2 DEF SnapOf, SnapshotRows
  <2>2. \A u \in Sessions \ {s} : SnapOf(u)' = SnapOf(u)
    BY Zenon, <1>2, <1>4 DEF SnapOf, SnapshotRows
  <2>3. QED
    BY <2>1, <2>2, SnapChange
<1>6. AllStaged' = [AllStaged EXCEPT ![s] = [t \in Tables |-> Isolation!NoWrites]]
  <2>1. \A t \in Tables : StagedWrites(s, t)' = Isolation!NoWrites
    BY Zenon, <1>2, SameNothing DEF StagedWrites, NoTransactions, Isolation!NoWrites
  <2>2. StagedOf(s)' = [t \in Tables |-> Isolation!NoWrites]
    BY <2>1 DEF StagedOf
  <2>3. \A u \in Sessions \ {s} : StagedOf(u)' = StagedOf(u)
    BY Zenon, <1>2 DEF StagedOf, StagedWrites
  <2>4. QED
    BY <2>2, <2>3, StagedChange
<1>7. QED
  BY Zenon, <1>2, <1>3, <1>5, <1>6, SameNothing
     DEF Isolation!Close, Snap, AllStaged, SnapOf, StagedOf

(* Leaving without publishing is a Rollback. *)
LEMMA FinishRefines ==
  ASSUME FiniteSetFacts, OInv, NEW s \in Sessions, active[s], Finish(s, registry),
         UNCHANGED <<store, commit_sequence, commit_queue, vector_overlay>>
  PROVE  OInv' /\ Isolation!Rollback(s)
<1>1. IInv' /\ BasesStable
  BY FinishPreserves DEF OInv
<1>2. StagedOK' /\ Isolation!Close(s)
  BY <1>1, CloseRefines
<1>3. TypeOK /\ RegistryExact /\ IsRegistry(registry, Copies) /\ RetainedOK(registry)
  BY Zenon DEF OInv, IInv, TypeOK, Copies, RegistryExact, RetainedOK
<1>4. \A g \in DOMAIN registry'.retained :
        g \in DOMAIN registry.retained /\ registry'.retained[g] = registry.retained[g]
  BY Zenon, <1>3, FinishRegistry
<1>5. CopiesOK'
  BY Zenon, <1>4 DEF OInv, CopiesOK
<1>6. Db' = Db
  BY DEF Db
<1>7. QED
  BY <1>1, <1>2, <1>5, <1>6 DEF OInv, Isolation!Rollback, Db

(* Where nothing is staged nothing changes. *)
LEMMA NothingApplies ==
  ASSUME NEW rows
  PROVE  Isolation!Applies(Isolation!NoWrites, rows, rows)
<1> DEFINE w == Isolation!NoWrites
           none == [i \in {} |-> i]
<1>1. w.deletes = {} /\ DOMAIN w.inserts = {} /\ DOMAIN w.updates = {}
  BY Zenon DEF Isolation!NoWrites, Isolation!NoRows
<1> HIDE DEF w
<1>2. none \in [DOMAIN w.inserts -> RowIds \ (DOMAIN rows \ w.deletes)]
  BY Zenon, <1>1
<1>3. DOMAIN rows = (DOMAIN rows \ w.deletes) \cup {none[i] : i \in DOMAIN w.inserts}
  BY <1>1
<1>4. Isolation!Applies(w, rows, rows)
  BY Zenon, <1>1, <1>2, <1>3 DEF Isolation!Applies
<1>5. QED
  BY <1>4 DEF w

(* COMMIT is a Commit. *)
LEMMA CommitRefines ==
  ASSUME FiniteSetFacts, OInv, NEW s \in Sessions, Commit(s)
  PROVE  OInv' /\ Isolation!Commit(s)
<1>1. IInv' /\ BasesStable
  BY CommitPreserves DEF OInv
<1>2. /\ EntersCommit(s) /\ active[s]
      /\ \A t \in DOMAIN transactions[s] : CanCommit(transactions[s][t], store[t])
      /\ WithinBounds(s, DOMAIN transactions[s])
      /\ store' = Publish(s, DOMAIN transactions[s])
      /\ Finish(s, RetainCurrent(s))
  BY Zenon DEF Commit, EntersCommit
<1>3. StagedOK' /\ Isolation!Close(s)
  BY Zenon, <1>1, <1>2, CloseRefines
<1>4. TypeOK /\ RegistryExact
  BY DEF OInv, IInv
<1>5. commit_sequence' = commit_sequence + 1
  BY Zenon, <1>4, QueueRoundTrip DEF Commit, OInv, IInv, TypeOK, QueueIdle
<1>6. CopiesOK'
  <2>1. \A g \in DOMAIN registry'.retained : g \in DOMAIN RetainCurrent(s).retained
    BY Zenon, <1>2, <1>4, RetainRegistry, FinishRegistry
  <2>2. \A g \in DOMAIN RetainCurrent(s).retained :
          g \in DOMAIN registry.retained \/ g = commit_sequence
    BY DEF RetainCurrent, retainGeneration, sweepReleasedGenerations
  <2>3. \A g \in DOMAIN registry.retained : g <= commit_sequence /\ g \in Nat
    <3>1. \A g \in DOMAIN registry.retained : g <= commit_sequence /\ g \in Generations
      BY Zenon, <1>4 DEF OInv, CopiesOK, TypeOK, IsRegistry
    <3>2. \A g \in Generations : g \in Nat
      BY DEF Generations
    <3>3. QED
      BY Zenon, <3>1, <3>2
  <2>4. commit_sequence \in Nat
    BY <1>4 DEF TypeOK, Generations
  <2>5. \A g \in DOMAIN registry'.retained : g <= commit_sequence /\ g \in Nat
    BY <2>1, <2>2, <2>3, <2>4
  <2>6. \A g \in DOMAIN registry'.retained : g <= commit_sequence' /\ g # commit_sequence'
    BY <1>5, <2>4, <2>5
  <2>7. QED
    BY Zenon, <2>6 DEF CopiesOK
<1>7. ASSUME NEW t \in Tables
      PROVE  Isolation!Applies(StagedWrites(s, t), store[t].rows, store'[t].rows)
  <2>1. store[t] \in Stores /\ IdsBelowNext(store[t])
    BY Zenon, <1>4 DEF TypeOK, OInv, IInv, StoredIdsOK
  <2>2. CASE t \in DOMAIN transactions[s]
    <3> DEFINE tx == transactions[s][t]
    <3>1. tx \in Transactions
      BY Zenon, <2>2, OpenTransactionOK
    <3>2. CanCommit(tx, store[t]) /\ CommittedStores(tx, store[t]) # {}
      BY Zenon, <1>2, <2>2 DEF WithinBounds
    <3>3. store'[t] = CommittedStore(tx, store[t])
      BY Zenon, <1>2, <2>2 DEF Publish
    <3>4. StagedWrites(s, t) = WritesOf(tx)
      BY Zenon, <2>2, StagedCases
    <3>5. QED
      BY Zenon, <2>1, <3>1, <3>2, <3>3, <3>4, CommitApplies
  <2>3. CASE t \notin DOMAIN transactions[s]
    <3>1. store'[t] = store[t]
      BY Zenon, <1>2, <2>3 DEF Publish
    <3>2. StagedWrites(s, t) = Isolation!NoWrites
      BY <2>3, StagedCases
    <3>3. QED
      BY Zenon, <3>1, <3>2, NothingApplies
  <2>4. QED
    BY Zenon, <2>2, <2>3
<1>8. \A t \in Tables : Isolation!Applies(AllStaged[s][t], Db[t], Db'[t])
  BY Zenon, <1>7 DEF AllStaged, StagedOf, Db
<1>9. QED
  BY Zenon, <1>1, <1>3, <1>6, <1>8 DEF OInv, Isolation!Commit, AllStaged, StagedOf, Db

(***************************************************************************)
(* A COMMIT that fails and leaves the session's transactions in one state  *)
(* has failed at the first of them: the loop left the earlier ones         *)
(* committed and this one active.                                          *)
(***************************************************************************)
LEMMA AtomicFailure ==
  ASSUME OInv, CommitAtomic', NEW s \in Sessions, NEW bad \in DOMAIN transactions[s],
         CommitFails(s, bad)
  PROVE  Before(s, bad) = {} /\ store' = store
<1>1. TypeOK
  BY DEF OInv, IInv
<1>2. /\ store' = Publish(s, Before(s, bad))
      /\ transactions'[s] = [t \in DOMAIN transactions[s] |->
                               IF t \in Before(s, bad) THEN Committed(transactions[s][t])
                                                       ELSE transactions[s][t]]
  BY Zenon, <1>1 DEF CommitFails, TypeOK
<1>3. bad \notin Before(s, bad)
  <2>1. transactions[s][bad].pos \in Nat
    BY <1>1 DEF TypeOK, IsPartial, Transactions
  <2>2. QED
    BY Zenon, <2>1, NotBeforeItself DEF Before
<1>4. transactions'[s][bad].state = "active"
  BY Zenon, <1>2, <1>3 DEF OInv, StagedOK
<1>5. ASSUME NEW t \in Before(s, bad)
      PROVE  FALSE
  <2>1. t \in DOMAIN transactions[s]
    BY Zenon DEF Before
  <2>2. transactions'[s][t].state = "committed"
    <3>1. transactions'[s][t] = Committed(transactions[s][t])
      BY Zenon, <1>2, <2>1
    <3>2. transactions[s][t] \in Transactions
      BY Zenon, <1>1, <2>1 DEF TypeOK, IsPartial
    <3>3. QED
      BY <3>1, <3>2 DEF Committed, Transactions
  <2>3. QED
    BY Zenon, <1>2, <1>4, <2>1, <2>2 DEF CommitAtomic
<1>6. Before(s, bad) = {}
  BY <1>5
<1>7. QED
  BY Zenon, <1>1, <1>2, <1>6 DEF Publish, TypeOK

(* A COMMIT that fails without having published is a stutter. *)
LEMMA CommitFailsRefines ==
  ASSUME FiniteSetFacts, OInv, CommitAtomic', NEW s \in Sessions,
         NEW bad \in DOMAIN transactions[s], CommitFails(s, bad)
  PROVE  OInv' /\ UNCHANGED Isolation!vars
<1>1. IInv' /\ BasesStable
  BY Zenon, CommitFailsPreserves DEF OInv
<1>2. TypeOK /\ RegistryExact /\ EntersCommit(s) /\ active[s]
  BY Zenon DEF OInv, IInv, CommitFails, EntersCommit
<1>3. Before(s, bad) = {} /\ store' = store
  BY AtomicFailure
<1>4. /\ transactions' = [transactions EXCEPT ![s] = [t \in DOMAIN @ |-> @[t]]]
      /\ registry' = RetainCurrent(s)
      /\ UNCHANGED <<commit_sequence, active, snapshot_handle>>
  BY Zenon, <1>3 DEF CommitFails
<1>5. store' = store
  BY <1>3
<1>6. \A u \in Sessions : transactions'[u] = transactions[u]
  <2>1. [t \in DOMAIN transactions[s] |-> transactions[s][t]] = transactions[s]
    BY Zenon, <1>2 DEF TypeOK, IsPartial
  <2>2. QED
    BY Zenon, <1>2, <1>4, <2>1 DEF TypeOK
<1>7. \A u \in Sessions :
        active[u] => \A t \in Tables : baseRows(u, t)' = baseRows(u, t)
  BY ZenonT(30), <1>1, <1>4, <1>6, StagedKept
<1>8. StagedOK'
  <2> SUFFICES ASSUME NEW u \in Sessions, NEW w \in DOMAIN transactions'[u]
               PROVE  transactions'[u][w].state = "active" /\ OfBase(transactions'[u][w], baseRows(u, w)')
    BY Zenon DEF StagedOK, OfBase
  <2>1. active[u]
    BY Zenon, <1>6, IdleSession DEF OInv
  <2>2. QED
    BY Zenon, <1>1, <1>4, <1>6, <2>1, StagedKept
<1>9. CopiesOK'
  <2>1. ASSUME NEW g \in DOMAIN registry'.retained
        PROVE  g <= commit_sequence /\ (g = commit_sequence => registry'.retained[g] = store)
    <3>1. CASE g \in DOMAIN registry.retained
      BY Zenon, <1>2, <1>4, <3>1, RetainRegistry DEF OInv, CopiesOK
    <3>2. CASE g \notin DOMAIN registry.retained
      <4>1. registry'.retained[g] = store
        BY Zenon, <1>2, <1>4, <2>1, <3>2, RetainRegistry
      <4>2. g = commit_sequence
        BY <1>4, <2>1, <3>2 DEF RetainCurrent, retainGeneration, sweepReleasedGenerations
      <4>3. commit_sequence \in Nat
        BY <1>2 DEF TypeOK, Generations
      <4>4. QED
        BY <4>1, <4>2, <4>3
    <3>3. QED
      BY Zenon, <3>1, <3>2
  <2>2. QED
    BY <1>4, <1>5, <2>1 DEF CopiesOK
<1>10. Snap' = Snap /\ AllStaged' = AllStaged /\ Db' = Db
  <2>1. \A u \in Sessions : SnapOf(u)' = SnapOf(u) /\ StagedOf(u)' = StagedOf(u)
    BY Zenon, <1>4, <1>6, <1>7 DEF SnapOf, SnapshotRows, StagedOf, StagedWrites
  <2>2. QED
    BY Zenon, <1>5, <2>1 DEF Snap, AllStaged, Db
<1>11. QED
  BY Zenon, <1>1, <1>4, <1>8, <1>9, <1>10
     DEF OInv, Isolation!vars, Snap, AllStaged, SnapOf, StagedOf, Db

(* A step that touches neither stores nor sessions. *)
LEMMA SilentRefines ==
  ASSUME OInv, IInv',
         UNCHANGED <<store, commit_sequence, registry, active, snapshot_handle, transactions>>
  PROVE  OInv' /\ UNCHANGED Isolation!vars
<1>1. \A u \in Sessions, t \in Tables : baseRows(u, t)' = baseRows(u, t)
  BY Zenon DEF baseRows
<1>2. StagedOK' /\ CopiesOK'
  BY Zenon DEF OInv, StagedOK, OfBase, baseRows, CopiesOK
<1>3. Snap' = Snap /\ AllStaged' = AllStaged /\ Db' = Db
  BY Zenon, <1>1 DEF Snap, SnapOf, SnapshotRows, AllStaged, StagedOf, StagedWrites, Db
<1>4. QED
  BY Zenon, <1>2, <1>3 DEF OInv, Isolation!vars, Snap, AllStaged, SnapOf, StagedOf, Db

(* A new database is an initial state of SnapshotIsolation. *)
LEMMA InitRefines == FiniteSetFacts /\ Init => OInv /\ Isolation!Init
<1> SUFFICES ASSUME FiniteSetFacts, Init PROVE OInv /\ Isolation!Init
  OBVIOUS
<1>1. IInv
  BY InitIInv
<1>2. StagedOK /\ CopiesOK
  BY Zenon DEF Init, NoTransactions, StagedOK, CopiesOK, InitRegistry
<1>3. Db \in [Tables -> Isolation!Rows]
  <2>1. \A t \in Tables : store[t].rows \in Rows
    BY Zenon, <1>1 DEF IInv, TypeOK, Stores
  <2>2. QED
    BY <2>1, SameNothing DEF Db
<1>4. /\ Snap = [s \in Sessions |-> [t \in Tables |-> Isolation!NoRows]]
      /\ AllStaged = [s \in Sessions |-> [t \in Tables |-> Isolation!NoWrites]]
  BY Zenon, SameNothing DEF Init, Snap, SnapOf, SnapshotRows, AllStaged, StagedOf, StagedWrites,
                     NoTransactions, Isolation!NoWrites
<1>5. QED
  BY Zenon, <1>1, <1>2, <1>3, <1>4
     DEF OInv, Isolation!Init, Isolation!NoSessions, Init, Snap, AllStaged, SnapOf, StagedOf, Db

(* Every step is one of SnapshotIsolation, or changes nothing there. *)
LEMMA StepRefines ==
  FiniteSetFacts /\ OInv /\ CommitAtomic' /\ [Next]_vars
    => OInv' /\ [Isolation!Next]_(Isolation!vars)
<1> SUFFICES ASSUME FiniteSetFacts, OInv, CommitAtomic', [Next]_vars
             PROVE  OInv' /\ (Isolation!Next \/ UNCHANGED Isolation!vars)
  OBVIOUS
<1>1. ASSUME NEW s \in Sessions, Statement(s)
      PROVE  OInv' /\ (Isolation!Next \/ UNCHANGED Isolation!vars)
  <2>1. CASE Begin(s)
    BY <2>1, BeginRefines DEF Isolation!Next
  <2>2. ASSUME NEW t \in Tables,
               executeInsertInvalid(s, t) \/ \E v \in Values : executeInsert(s, t, v)
        PROVE  OInv' /\ Isolation!Next
    BY <2>2, InsertRefines DEF Isolation!Next
  <2>3. ASSUME NEW t \in Tables, NEW R \in SUBSET DOMAIN scanRowsForTable(s, t),
               executeDelete(s, t, R) \/ \E v \in Values : executeUpdate(s, t, R, v)
        PROVE  OInv' /\ Isolation!Next
    BY Zenon, <2>3, ChangeRefines DEF Isolation!Next
  <2>4. CASE CommitReadOnly(s)
    BY Zenon, <2>4, FinishRefines DEF CommitReadOnly, Isolation!Next
  <2>5. CASE Commit(s)
    BY <2>5, CommitRefines DEF Isolation!Next
  <2>6. ASSUME NEW bad \in DOMAIN transactions[s], CommitFails(s, bad)
        PROVE  OInv' /\ UNCHANGED Isolation!vars
    BY Zenon, <2>6, CommitFailsRefines
  <2>7. CASE Rollback(s)
    BY Zenon, <2>7, FinishRefines DEF Rollback, Isolation!Next
  <2>8. CASE Deinit(s)
    BY <2>8, FinishRefines DEF Deinit, Isolation!Next
  <2>9. QED
    BY Zenon, <1>1, <2>1, <2>2, <2>3, <2>4, <2>5, <2>6, <2>7, <2>8 DEF Statement
<1>2. ASSUME NEW g \in Generations, NEW n \in DrainBudgets, drainVectorOverlay(g, n)
      PROVE  OInv' /\ UNCHANGED Isolation!vars
  <2>1. IInv'
    BY <1>2, DrainPreserves DEF OInv
  <2>2. QED
    BY <1>2, <2>1, SilentRefines DEF drainVectorOverlay, sessionVars
<1>3. CASE UNCHANGED vars
  <2>1. IInv'
    BY <1>3, StutterPreserves DEF OInv
  <2>2. QED
    BY <1>3, <2>1, SilentRefines DEF vars, dbVars, sessionVars
<1>4. QED
  BY <1>1, <1>2, <1>3 DEF Next

(***************************************************************************)
(* With one table every COMMIT is atomic: there is no second table to fail *)
(* on.                                                                     *)
(***************************************************************************)
LEMMA OneTableAtomic ==
  ASSUME NEW CONSTANT table, Tables = {table}, IInv
  PROVE  CommitAtomic
<1> SUFFICES ASSUME NEW s \in Sessions, NEW t \in DOMAIN transactions[s],
                    NEW u \in DOMAIN transactions[s]
             PROVE  t = u
  BY Zenon DEF CommitAtomic
<1>1. DOMAIN transactions[s] \subseteq Tables
  BY DEF IInv, TypeOK, IsPartial
<1>2. QED
  BY <1>1
=============================================================================
