----------------------------- MODULE CommitLoop -----------------------------
(***************************************************************************)
(* Transaction.commit as the loops of the code (src/db/transaction.zig),   *)
(* to be compared with CommittedStores, by which Engine says what a COMMIT *)
(* publishes.  Row ids are not bounded here.                               *)
(***************************************************************************)
EXTENDS Engine

(* insertWithId has refused an id that is taken. *)
DuplicateRow == [error |-> "DuplicateRow"]

(* A fault: next_id follows the id just inserted, even backwards. *)
insertBackwards(next, id, v) ==
  IF HasRow(next, id) THEN DuplicateRow
  ELSE [rows |-> WithAll(next.rows, {id}, v), next_id |-> id + 1]

(* RowStore.insertWithId *)
insertWithId(next, id, v) ==
  IF HasRow(next, id) THEN DuplicateRow
  ELSE [rows    |-> WithAll(next.rows, {id}, v),
        next_id |-> IF id >= next.next_id THEN id + 1 ELSE next.next_id]

(* One turn of the loop over tx.inserts. *)
commitInsert(next, id, v) ==
  IF next = DuplicateRow THEN next
  ELSE insertWithId(next, IF HasRow(next, id) THEN next.next_id ELSE id, v)

(* The copy of the store after the loops over tx.deletes and tx.updates. *)
WithoutInserts(tx, st) ==
  [rows    |-> [id \in DOMAIN st.rows \ tx.deletes |->
                  IF id \in DOMAIN tx.updates THEN tx.updates[id] ELSE st.rows[id]],
   next_id |-> st.next_id]

(***************************************************************************)
(* Transaction.commit: turn id is that of the row staged under id, if      *)
(* there is one; the list is in ascending order of id.                     *)
(***************************************************************************)
commit(tx, st) ==
  LET next[id \in 0..MaxRowId] ==
        IF id = 0 THEN WithoutInserts(tx, st)
        ELSE IF id \in DOMAIN tx.inserts THEN commitInsert(next[id - 1], id, tx.inserts[id])
        ELSE next[id - 1]
  IN  next[MaxRowId]

LoopAgrees(tx, st) ==
  /\ commit(tx, st) # DuplicateRow
  /\ CommittedStores(tx, st) =
       IF commit(tx, st).next_id <= MaxRowId + 1 THEN {commit(tx, st)} ELSE {}

(***************************************************************************)
(* The store that a COMMIT publishes for a table is the one that the loops *)
(* of Transaction.commit build from the live store as it is now, whichever *)
(* staged ids have been taken there since: the loop over the inserts never *)
(* meets DuplicateRow, and there is no such store only where an id would   *)
(* pass MaxRowId.                                                          *)
(***************************************************************************)
CommitLoopAgrees ==
  \A s \in Sessions : \A t \in DOMAIN transactions[s] :
    CanCommit(transactions[s][t], store[t]) => LoopAgrees(transactions[s][t], store[t])
=============================================================================
