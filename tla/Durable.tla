------------------------------ MODULE Durable -------------------------------
(***************************************************************************)
(* The engine with its database file and its checkpoint worker             *)
(* (src/db/checkpoint_worker.zig).  DatabaseHandle.checkpoint is one step  *)
(* here: Persistence shows that it takes effect at once or not at all.     *)
(* The worker is told of checkpoints by the hosts that use it: a ticket is *)
(* open from beginCheckpoint until the host calls complete or fail on it,  *)
(* and statements run meanwhile.                                           *)
(***************************************************************************)
EXTENDS EngineIsolation

VARIABLES
  saved,        \* the stores in the database file
  worker,       \* Database.checkpoint_worker
  tickets       \* the generations of the open tickets

durableVars == <<saved, worker, tickets>>

(* A Worker; an active_generation of null is NoHandle. *)
InitWorker == [in_progress               |-> FALSE,
               active_generation         |-> NoHandle,
               last_completed_generation |-> 0]

DInit ==
  /\ Init
  /\ saved = store
  /\ worker = InitWorker
  /\ tickets = {}

(* A statement. *)
Run ==
  /\ Next
  /\ UNCHANGED durableVars

(* A fault: a copy that is retained for a reader is taken, when there is one. *)
exportRetained ==
  IF DOMAIN registry.retained = {}
    THEN store
    ELSE registry.retained[CHOOSE g \in DOMAIN registry.retained : TRUE]

(* A fault: next_id is left where inserting the rows has put it. *)
exportRecounted ==
  [t \in Tables |->
     [store[t] EXCEPT !.next_id = CHOOSE n \in 1..(MaxRowId + 1) :
                                    IsNextRowId(n, InitStore, DOMAIN store[t].rows)]]

(***************************************************************************)
(* Database.exportSnapshot: the rows and the next_id of every live store,  *)
(* whatever sessions are doing.  Staged writes are not part of it.         *)
(***************************************************************************)
exportSnapshot == store

(* DatabaseHandle.checkpoint *)
checkpoint ==
  /\ saved' = exportSnapshot
  /\ UNCHANGED <<vars, worker, tickets>>

(***************************************************************************)
(* The process ends, in whatever way, and another opens the file:          *)
(* Database.initFromSnapshot.  Sequences start again at 0.                 *)
(***************************************************************************)
initFromSnapshot ==
  /\ store' = saved
  /\ commit_sequence' = 0
  /\ commit_queue' = InitQueue
  /\ registry' = InitRegistry
  /\ vector_overlay' = NoDeltas
  /\ active' = [s \in Sessions |-> FALSE]
  /\ snapshot_handle' = [s \in Sessions |-> NoHandle]
  /\ transactions' = [s \in Sessions |-> NoTransactions]
  /\ worker' = InitWorker
  /\ tickets' = {}
  /\ UNCHANGED saved

(* A fault: checkpoints may overlap. *)
beginOverlapping ==
  /\ worker' = [worker EXCEPT !.in_progress = TRUE, !.active_generation = commit_sequence]
  /\ tickets' = tickets \cup {commit_sequence}
  /\ UNCHANGED <<vars, saved>>

(* A fault: the ticket is for the generation that the next COMMIT will make. *)
beginAhead ==
  /\ ~worker.in_progress
  /\ worker' = [worker EXCEPT !.in_progress = TRUE, !.active_generation = commit_sequence + 1]
  /\ tickets' = tickets \cup {commit_sequence + 1}
  /\ UNCHANGED <<vars, saved>>

(* Database.beginCheckpoint, when it does not answer CheckpointAlreadyRunning. *)
beginCheckpoint ==
  /\ ~worker.in_progress
  /\ worker' = [worker EXCEPT !.in_progress = TRUE, !.active_generation = commit_sequence]
  /\ tickets' = tickets \cup {commit_sequence}
  /\ UNCHANGED <<vars, saved>>

(* Ticket.complete *)
complete(g) ==
  /\ worker' = [InitWorker EXCEPT !.last_completed_generation = g]
  /\ tickets' = tickets \ {g}
  /\ UNCHANGED <<vars, saved>>

(* Ticket.fail *)
fail(g) ==
  /\ worker' = [worker EXCEPT !.in_progress = FALSE, !.active_generation = NoHandle]
  /\ tickets' = tickets \ {g}
  /\ UNCHANGED <<vars, saved>>

DNext ==
  \/ Run
  \/ checkpoint
  \/ initFromSnapshot
  \/ beginCheckpoint
  \/ \E g \in tickets : complete(g) \/ fail(g)

DSpec == DInit /\ [][DNext]_<<vars, durableVars>>

-----------------------------------------------------------------------------
(***************************************************************************)
(* "The row store preserves internal monotonic row IDs for transaction     *)
(* visibility and reopen": the next_id in the file never goes back and is  *)
(* above every row in it, whichever rows were deleted before a checkpoint  *)
(* and whatever was lost between two of them.  So an id that a process     *)
(* takes from next_id has been in no file before.  (A staged row that      *)
(* keeps its local id at COMMIT may have one that a deleted row had.)      *)
(***************************************************************************)
RowIdsMonotonic ==
  [][\A t \in Tables :
       /\ saved'[t].next_id >= saved[t].next_id
       /\ \A id \in DOMAIN saved'[t].rows : id < saved'[t].next_id]_<<vars, durableVars>>

Contract == INSTANCE DurableIsolation WITH
  db     <- [t \in Tables |-> store[t].rows],
  open   <- active,
  snap   <- [s \in Sessions |-> [t \in Tables |-> SnapshotRows(s, t)]],
  staged <- [s \in Sessions |-> [t \in Tables |-> StagedWrites(s, t)]],
  file   <- [t \in Tables |-> saved[t].rows]

(***************************************************************************)
(* The whole of what a user of the database sees, restarts included: the   *)
(* transactions of a process are isolated from each other, and the next    *)
(* process starts from what had been committed at the last checkpoint,     *)
(* whichever transactions were open then or at the end, and whichever      *)
(* copies and handles were left.  It holds as long as commits are atomic,  *)
(* as they are with one table: exportSnapshot also takes what a COMMIT     *)
(* that failed half-way has published.                                     *)
(***************************************************************************)
DurablyIsolated == Contract!SavedSpec

(***************************************************************************)
(* "Only one checkpoint may run for a database handle at a time": whenever *)
(* a ticket is completed or failed the worker is running that checkpoint,  *)
(* as the assertions of Worker.complete and Worker.fail require.           *)
(***************************************************************************)
OneTicket ==
  tickets = IF worker.in_progress THEN {worker.active_generation} ELSE {}

(***************************************************************************)
(* The generation of the last completed checkpoint goes back only when the *)
(* database is opened anew, and is never ahead of the committed ones:      *)
(* checkpoints of different generations do not overtake each other,        *)
(* although statements commit while a ticket is open.                      *)
(***************************************************************************)
CompletedInOrder ==
  [][/\ worker'.last_completed_generation <= commit_sequence'
     /\ \/ worker'.last_completed_generation >= worker.last_completed_generation
        \/ initFromSnapshot]_<<vars, durableVars>>
=============================================================================
