------------------------------- MODULE Engine -------------------------------
(***************************************************************************)
(* The SQL executor's transaction engine (src/db/executor.zig): sessions   *)
(* that share one Database, its live row stores, the commit sequencer, the *)
(* snapshot registry and the vector overlay.  An action is one statement   *)
(* of one session.  Statements do not overlap: BEGIN and COMMIT run under  *)
(* the commit lock, and callers serialise the calls on one handle          *)
(* (docs/embedding-abi.md).  A statement that fails and changes nothing is *)
(* not a step.                                                             *)
(*                                                                         *)
(* The set of tables is fixed.  Session.last_commit_sequence, which no     *)
(* operation reads, is left out.                                           *)
(***************************************************************************)
EXTENDS Transaction, Snapshot, CommitQueue, VectorOverlay

CONSTANTS Sessions,
          Tables,
          InitialStores,    \* the stores a table may start from (empty or loaded)
          DrainBudgets      \* the max_count arguments of drainVectorOverlay

ASSUME SessionsAssumption == IsFiniteSet(Sessions)
ASSUME TablesAssumption == IsFiniteSet(Tables)
ASSUME InitialStoresAssumption ==
  /\ InitialStores \subseteq Stores
  /\ \A st \in InitialStores : \A id \in DOMAIN st.rows : id < st.next_id

VARIABLES
  store,              \* Database.tables: the live store of each table
  commit_sequence,    \* Database.commit_sequence
  commit_queue,       \* Database.commit_queue
  registry,           \* Database.snapshot_registry
  vector_overlay,     \* Database.vector_overlay
  active,             \* Session.active
  snapshot_handle,    \* Session.snapshot_handle: its generation, or NoHandle
  transactions        \* Session.transactions: the tables it has touched

dbVars      == <<store, commit_sequence, commit_queue, registry, vector_overlay>>
sessionVars == <<active, snapshot_handle, transactions>>
vars        == <<dbVars, sessionVars>>

(* f maps some members of D to members of R. *)
IsPartial(f, D, R) == DOMAIN f \subseteq D /\ f \in [DOMAIN f -> R]

NoTransactions == [t \in {} |-> 0]

TypeOK ==
  /\ store \in [Tables -> Stores]
  /\ commit_sequence \in Generations
  /\ commit_queue \in [pending_writes : Nat, last_assigned_sequence : Generations]
  /\ IsRegistry(registry, [Tables -> Stores])
  /\ IsPartial(vector_overlay, Tables \X RowIds,
               [generation : Generations, vector : Values])
  /\ active \in [Sessions -> BOOLEAN]
  /\ snapshot_handle \in [Sessions -> Generations \cup {NoHandle}]
  /\ DOMAIN transactions = Sessions
  /\ \A s \in Sessions : IsPartial(transactions[s], Tables, Transactions)

(* A Database just created, or restored from a snapshot by initFromSnapshot. *)
Init ==
  /\ store \in [Tables -> InitialStores]
  /\ commit_sequence = 0
  /\ commit_queue = InitQueue
  /\ registry = InitRegistry
  /\ vector_overlay = NoDeltas
  /\ active = [s \in Sessions |-> FALSE]
  /\ snapshot_handle = [s \in Sessions |-> NoHandle]
  /\ transactions = [s \in Sessions |-> NoTransactions]

-----------------------------------------------------------------------------
(***************************************************************************)
(* Reads.                                                                  *)
(***************************************************************************)

(* Session.snapshotStoreForRead fails with SnapshotRetentionExceeded. *)
SnapshotLost(s) ==
  /\ active[s]
  /\ snapshot_handle[s] \notin DOMAIN registry.retained
  /\ snapshot_handle[s] # commit_sequence

(* The rows of Session.baseStoreForRead: the retained copy, or the live store. *)
baseRows(s, t) ==
  IF active[s] /\ snapshot_handle[s] \in DOMAIN registry.retained
    THEN registry.retained[snapshot_handle[s]][t].rows
    ELSE store[t].rows

(* Session.transactionFor: the transaction on t, opened when there is none. *)
transactionFor(s, t) ==
  IF t \in DOMAIN transactions[s]
    THEN transactions[s][t]
    ELSE begin(Cardinality(DOMAIN transactions[s]) + 1, store[t])

(* What scanRowsForTable returns to a statement that writes t. *)
scanRowsForTable(s, t) == scanWithBase(transactionFor(s, t), baseRows(s, t))

-----------------------------------------------------------------------------
(***************************************************************************)
(* Statements that write.  Each opens the transaction on its table before  *)
(* it evaluates anything, so that it stays open when the rest fails.       *)
(***************************************************************************)

StageOn(s, t, tx) ==
  /\ transactions' =
       [transactions EXCEPT ![s] = [u \in DOMAIN @ \cup {t} |->
                                      IF u = t THEN tx ELSE @[u]]]
  /\ UNCHANGED <<dbVars, active, snapshot_handle>>

(* INSERT of a row with value v. *)
executeInsert(s, t, v) ==
  LET tx == transactionFor(s, t)
  IN  /\ active[s]
      /\ tx.state = "active"
      /\ tx.next_id <= MaxRowId
      /\ StageOn(s, t, insert(tx, v))

(* INSERT whose values do not fit the table: only the transaction is left. *)
executeInsertInvalid(s, t) ==
  /\ active[s]
  /\ t \notin DOMAIN transactions[s]
  /\ StageOn(s, t, transactionFor(s, t))

(***************************************************************************)
(* The rows an UPDATE or DELETE gets to stage, out of the rows R that its  *)
(* WHERE clause selects: all of them, or, when a row of the snapshot is    *)
(* gone from the live store, the rows scanned before that one.  Own        *)
(* inserts are scanned last.                                               *)
(***************************************************************************)
Staged(tx, st, R) ==
  LET unknown == {id \in R : Unknown(tx, st, id)}
  IN  IF unknown = {} THEN {R} ELSE SUBSET (R \ (unknown \cup DOMAIN tx.inserts))

(* UPDATE ... SET (the row value) = v WHERE (row in R). *)
executeUpdate(s, t, R, v) ==
  LET tx == transactionFor(s, t)
  IN  /\ active[s]
      /\ tx.state = "active"
      /\ ~SnapshotLost(s)
      /\ \E S \in Staged(tx, store[t], R) : StageOn(s, t, updateAll(tx, S, v))

(* DELETE ... WHERE (row in R). *)
executeDelete(s, t, R) ==
  LET tx == transactionFor(s, t)
  IN  /\ active[s]
      /\ tx.state = "active"
      /\ ~SnapshotLost(s)
      /\ \E S \in Staged(tx, store[t], R) : StageOn(s, t, deleteAll(tx, S))

-----------------------------------------------------------------------------
(***************************************************************************)
(* Session.begin, commit, rollback and deinit.                             *)
(***************************************************************************)

Begin(s) ==
  /\ ~active[s]
  /\ registry' = acquire(registry, commit_sequence)
  /\ snapshot_handle' = [snapshot_handle EXCEPT ![s] = commit_sequence]
  /\ active' = [active EXCEPT ![s] = TRUE]
  /\ UNCHANGED <<store, commit_sequence, commit_queue, vector_overlay, transactions>>

(* clearTransactions, releaseSnapshotHandle, active = false. *)
Finish(s, reg) ==
  /\ transactions' = [transactions EXCEPT ![s] = NoTransactions]
  /\ registry' = release(reg, snapshot_handle[s])
  /\ snapshot_handle' = [snapshot_handle EXCEPT ![s] = NoHandle]
  /\ active' = [active EXCEPT ![s] = FALSE]

(* COMMIT of a session that touched no table. *)
CommitReadOnly(s) ==
  /\ active[s]
  /\ DOMAIN transactions[s] = {}
  /\ Finish(s, registry)
  /\ UNCHANGED <<store, commit_sequence, commit_queue, vector_overlay>>

(* retainCurrentGenerationForActiveSnapshots *)
MustRetain(s) == needsRetention(registry, commit_sequence, snapshot_handle[s])

(* A fault: the copy is taken after the commit has published. *)
RetainLate(s) ==
  IF MustRetain(s) THEN retainGeneration(registry, commit_sequence, store')
                   ELSE registry

RetainCurrent(s) ==
  IF MustRetain(s) THEN retainGeneration(registry, commit_sequence, store)
                   ELSE registry

(* COMMIT gets as far as the loop over the session's transactions. *)
EntersCommit(s) ==
  /\ active[s]
  /\ DOMAIN transactions[s] # {}
  /\ CanEnqueue(commit_queue)
  /\ MustRetain(s) => ~RetentionExceeded(registry)

(* The live stores after the transactions of s on the tables in T committed. *)
Publish(s, T) ==
  [t \in Tables |-> IF t \in T THEN CommittedStore(transactions[s][t], store[t])
                               ELSE store[t]]

(* Model bound: the row ids that the commit assigns stay within MaxRowId. *)
WithinBounds(s, T) ==
  \A t \in T : CommittedStores(transactions[s][t], store[t]) # {}

(* COMMIT that publishes every transaction and takes the next sequence. *)
Commit(s) ==
  LET T == DOMAIN transactions[s]
  IN  /\ EntersCommit(s)
      /\ \A t \in T : CanCommit(transactions[s][t], store[t])
      /\ commit_sequence < MaxCommits
      /\ WithinBounds(s, T)
      /\ store' = Publish(s, T)
      /\ commit_queue' = completeQueuedCommit(enqueue(commit_queue))
      /\ commit_sequence' = commit_queue'.last_assigned_sequence
      /\ vector_overlay' =
           recordVectorOverlayDeltas(vector_overlay, commit_sequence', store')
      /\ Finish(s, RetainCurrent(s))

(* A fault: the loop goes on past a transaction that fails. *)
Others(s, bad) == DOMAIN transactions[s] \ {bad}

(* The tables that the loop of COMMIT visits before table bad. *)
Before(s, bad) == {t \in DOMAIN transactions[s] :
                     transactions[s][t].pos < transactions[s][bad].pos}

(***************************************************************************)
(* COMMIT that fails at the transaction on table bad.  The transactions    *)
(* before it are published and stay in the session as committed ones; the  *)
(* queue slot is given back, no sequence is taken, and the session stays   *)
(* active with its handle.                                                 *)
(***************************************************************************)
CommitFails(s, bad) ==
  LET T == Before(s, bad)
  IN  /\ EntersCommit(s)
      /\ ~CanCommit(transactions[s][bad], store[bad])
      /\ \A t \in T : CanCommit(transactions[s][t], store[t])
      /\ WithinBounds(s, T)
      /\ store' = Publish(s, T)
      /\ transactions' =
           [transactions EXCEPT ![s] = [t \in DOMAIN @ |->
              IF t \in T THEN Committed(@[t]) ELSE @[t]]]
      /\ commit_queue' = abortQueuedCommit(enqueue(commit_queue))
      /\ registry' = RetainCurrent(s)
      /\ UNCHANGED <<commit_sequence, vector_overlay, active, snapshot_handle>>

(***************************************************************************)
(* ROLLBACK.  It visits the transactions in order and stops with           *)
(* AlreadyCommitted at one that is not active; such transactions come      *)
(* first, so that it then changes nothing.                                 *)
(***************************************************************************)
Rollback(s) ==
  /\ active[s]
  /\ \A t \in DOMAIN transactions[s] : transactions[s][t].state = "active"
  /\ Finish(s, registry)
  /\ UNCHANGED <<store, commit_sequence, commit_queue, vector_overlay>>

(* The caller gives the session up; it may make a new one in its place. *)
Deinit(s) ==
  /\ active[s]
  /\ Finish(s, registry)
  /\ UNCHANGED <<store, commit_sequence, commit_queue, vector_overlay>>

(* Database.drainVectorOverlay *)
drainVectorOverlay(through, max_count) ==
  /\ \E drained \in SUBSET DOMAIN vector_overlay :
       /\ IsDrained(drained, vector_overlay, through, max_count)
       /\ vector_overlay' = Drain(vector_overlay, drained)
  /\ UNCHANGED <<store, commit_sequence, commit_queue, registry, sessionVars>>

-----------------------------------------------------------------------------
Statement(s) ==
  \/ Begin(s)
  \/ \E t \in Tables :
       \/ \E v \in Values : executeInsert(s, t, v)
       \/ executeInsertInvalid(s, t)
       \/ \E R \in SUBSET DOMAIN scanRowsForTable(s, t) :
            \/ \E v \in Values : executeUpdate(s, t, R, v)
            \/ executeDelete(s, t, R)
  \/ CommitReadOnly(s)
  \/ Commit(s)
  \/ \E bad \in DOMAIN transactions[s] : CommitFails(s, bad)
  \/ Rollback(s)
  \/ Deinit(s)

Next ==
  \/ \E s \in Sessions : Statement(s)
  \/ \E g \in Generations, n \in DrainBudgets : drainVectorOverlay(g, n)

Spec == Init /\ [][Next]_vars

(* Fairness on callers: a session is not kept open for ever. *)
FairSpec == Spec /\ \A s \in Sessions : WF_vars(Deinit(s))

-----------------------------------------------------------------------------
(***************************************************************************)
(* Properties.                                                             *)
(***************************************************************************)

(***************************************************************************)
(* "Reader snapshots are stable: later commits, checkpoints, and vector    *)
(* overlay updates must not alter rows visible to an active read           *)
(* transaction."  No step changes the rows that an active session reads a  *)
(* table from, whether they come from the live store or from a retained    *)
(* copy, and no step switches between the two with different contents.     *)
(* Exempt is a table that the session's own failed COMMIT published: the   *)
(* session can no longer read it (AlreadyCommitted).                       *)
(***************************************************************************)
Readable(s, t) ==
  active[s] /\ (t \in DOMAIN transactions[s] => transactions[s][t].state = "active")

SnapshotStable ==
  [][\A s \in Sessions, t \in Tables :
       Readable(s, t) /\ Readable(s, t)' => baseRows(s, t)' = baseRows(s, t)]_vars

(***************************************************************************)
(* Retention never fails a reader: the generation of an active session is  *)
(* the current one or is retained, so that snapshotStoreForRead does not   *)
(* return SnapshotRetentionExceeded.  It is the writer that is refused.    *)
(***************************************************************************)
NoReaderLost == \A s \in Sessions : ~SnapshotLost(s)

(***************************************************************************)
(* The registry counts exactly the handles that sessions hold, keeps a     *)
(* copy only of generations that somebody holds, and at most               *)
(* RetentionLimit copies: no statement, failed or not, leaks a reference   *)
(* or a retained generation.                                               *)
(***************************************************************************)
Holders(g) == {s \in Sessions : snapshot_handle[s] = g}

RegistryExact ==
  /\ \A s \in Sessions : active[s] <=> snapshot_handle[s] # NoHandle
  /\ \A g \in Generations : registry.active[g] = Cardinality(Holders(g))
  /\ \A g \in DOMAIN registry.retained : registry.active[g] > 0
  /\ Cardinality(DOMAIN registry.retained) <= RetentionLimit

(***************************************************************************)
(* Between statements nobody is in the commit queue, and the sequence it   *)
(* last assigned is the database's: a COMMIT that fails gives its slot     *)
(* back and takes no sequence.                                             *)
(***************************************************************************)
QueueIdle ==
  /\ commit_queue.pending_writes = 0
  /\ commit_queue.last_assigned_sequence = commit_sequence

(***************************************************************************)
(* The local ids of staged inserts lie above every id the session can see  *)
(* in its base, so that a scan shows no id twice and an UPDATE or DELETE   *)
(* that finds an id among the inserts means the session's own row.         *)
(***************************************************************************)
StagedIdsFresh ==
  \A s \in Sessions : \A t \in DOMAIN transactions[s] :
    \A id \in DOMAIN transactions[s][t].inserts, b \in DOMAIN baseRows(s, t) : b < id

(***************************************************************************)
(* The transactions that a failed COMMIT has published are the first in    *)
(* the session's list, so that the loops of COMMIT and ROLLBACK stop at    *)
(* the first entry and publish or discard nothing more.                    *)
(***************************************************************************)
CommittedComeFirst ==
  \A s \in Sessions : \A t, u \in DOMAIN transactions[s] :
    /\ transactions[s][t].pos = transactions[s][u].pos => t = u
    /\ /\ transactions[s][u].state = "committed"
       /\ transactions[s][t].pos < transactions[s][u].pos
       => transactions[s][t].state = "committed"

(***************************************************************************)
(* "SQL transactions provide atomicity and isolation": the transactions of *)
(* a session are published together or not at all.  The loop of            *)
(* Session.commit returns at the first one that fails.                     *)
(***************************************************************************)
CommitAtomic ==
  \A s \in Sessions : \A t, u \in DOMAIN transactions[s] :
    transactions[s][t].state = transactions[s][u].state

(***************************************************************************)
(* The generation of a delta tells whether it still holds.  While the row  *)
(* has a vector its delta carries that vector under the current            *)
(* generation.  When the row has been deleted, or its vector set to NULL,  *)
(* recordCommittedStore skips it and the old delta stays in the overlay,   *)
(* but under an earlier generation.  It holds as long as commits are       *)
(* atomic, as they are with one table: a COMMIT that fails half-way        *)
(* changes rows and makes no generation.                                   *)
(***************************************************************************)
OverlayCurrent ==
  \A k \in DOMAIN vector_overlay :
    IF k \in VectorKeys(store)
      THEN vector_overlay[k] = [generation |-> commit_sequence,
                                vector     |-> store[k[1]].rows[k[2]]]
      ELSE vector_overlay[k].generation < commit_sequence

(***************************************************************************)
(* A retained copy of an old generation is given up once its readers have  *)
(* gone, so that writers refused for want of a retention slot get one.     *)
(***************************************************************************)
RetainedReleased ==
  \A g \in Generations :
    (g \in DOMAIN registry.retained /\ g < commit_sequence)
      ~> g \notin DOMAIN registry.retained
=============================================================================
