---------------------------- MODULE CommitQueue -----------------------------
(***************************************************************************)
(* The commit sequencer (src/db/commit_queue.zig): the number of writers   *)
(* inside it and the last sequence it assigned.                            *)
(***************************************************************************)
EXTENDS Naturals

CONSTANT MaxPendingWrites   \* Config.max_pending_writes

ASSUME MaxPendingWritesAssumption == MaxPendingWrites \in Nat \ {0}

InitQueue == [pending_writes |-> 0, last_assigned_sequence |-> 0]

(* Queue.enqueue does not return commit_queue_full. *)
CanEnqueue(q) == q.pending_writes < MaxPendingWrites

(* A fault: the writer is admitted and not counted. *)
enqueueUncounted(q) == q

enqueue(q) == [q EXCEPT !.pending_writes = @ + 1]

(* A fault: a COMMIT that fails keeps its slot. *)
abortKeepingSlot(q) == q

abortQueuedCommit(q) == [q EXCEPT !.pending_writes = @ - 1]

completeQueuedCommit(q) ==
  [pending_writes         |-> q.pending_writes - 1,
   last_assigned_sequence |-> q.last_assigned_sequence + 1]
=============================================================================
