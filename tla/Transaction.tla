---------------------------- MODULE Transaction -----------------------------
(***************************************************************************)
(* The writes one session has staged on one table                          *)
(* (src/db/transaction.zig), as operators on a transaction record.  `pos'  *)
(* is the place of the transaction in the session's list, which is the     *)
(* order in which Session.commit visits it.                                *)
(*                                                                         *)
(* Staged inserts are a function from local id to value: the list in the   *)
(* code is always in ascending order of id, because ids are handed out in  *)
(* order and a removal keeps the order.  The state .rolled_back is never   *)
(* seen: Session.rollback frees the transaction in the same call.          *)
(***************************************************************************)
EXTENDS RowStore

Transactions == [pos     : Nat,
                 state   : {"active", "committed"},
                 next_id : 1..(MaxRowId + 1),
                 inserts : Rows,
                 updates : Rows,
                 deletes : SUBSET RowIds]

(* A fault: local ids start at 1 whatever the table holds. *)
beginAtOne(pos, st) == [pos     |-> pos,
                        state   |-> "active",
                        next_id |-> 1,
                        inserts |-> NoRows,
                        updates |-> NoRows,
                        deletes |-> {}]

(* Transaction.begin *)
begin(pos, st) == [pos     |-> pos,
                   state   |-> "active",
                   next_id |-> st.next_id,
                   inserts |-> NoRows,
                   updates |-> NoRows,
                   deletes |-> {}]

(* Entries of f outside S. *)
Without(f, S) == [x \in DOMAIN f \ S |-> f[x]]

(* f, with every member of S mapped to v. *)
WithAll(f, S, v) == [x \in DOMAIN f \cup S |-> IF x \in S THEN v ELSE f[x]]

(* Transaction.insert: the row is staged under the transaction's own next id. *)
insert(tx, v) == [tx EXCEPT !.inserts = WithAll(@, {tx.next_id}, v),
                            !.next_id = @ + 1]

(***************************************************************************)
(* Transaction.update and Transaction.delete refuse (UnknownRow) a row     *)
(* that the session did not insert and that the LIVE store no longer has,  *)
(* even when the session's snapshot still shows it.                        *)
(***************************************************************************)
Unknown(tx, st, id) ==
  /\ id \notin DOMAIN tx.inserts
  /\ id \in tx.deletes \/ ~HasRow(st, id)

(* Transaction.update, applied to every row of S. *)
updateAll(tx, S, v) ==
  LET own == S \cap DOMAIN tx.inserts
  IN  [tx EXCEPT !.inserts = WithAll(@, own, v),
                 !.updates = WithAll(@, S \ own, v)]

(* Transaction.delete, applied to every row of S. *)
deleteAll(tx, S) ==
  LET own == S \cap DOMAIN tx.inserts
  IN  [tx EXCEPT !.inserts = Without(@, own),
                 !.updates = Without(@, S),
                 !.deletes = @ \cup (S \ own)]

(* A fault: rows that the session deleted are still shown. *)
scanWithDeleted(tx, base) ==
  [id \in DOMAIN base \cup DOMAIN tx.inserts |->
     IF id \in DOMAIN tx.inserts THEN tx.inserts[id]
     ELSE IF id \in DOMAIN tx.updates THEN tx.updates[id]
     ELSE base[id]]

(***************************************************************************)
(* The rows of Transaction.scanWithBase: the base without the deleted      *)
(* rows, with the updated ones replaced, then the inserted ones.           *)
(***************************************************************************)
scanWithBase(tx, base) ==
  LET kept == DOMAIN base \ tx.deletes
  IN  [id \in kept \cup DOMAIN tx.inserts |->
         IF id \in DOMAIN tx.inserts THEN tx.inserts[id]
         ELSE IF id \in DOMAIN tx.updates THEN tx.updates[id]
         ELSE base[id]]

(***************************************************************************)
(* Transaction.commit gets through on st: the transaction is active and    *)
(* every row it deletes or updates is still there.                         *)
(***************************************************************************)
CanCommit(tx, st) ==
  /\ tx.state = "active"
  /\ \A id \in tx.deletes : HasRow(st, id)
  /\ \A id \in DOMAIN tx.updates : HasRow(st, id) /\ id \notin tx.deletes

(* A fault: rows are committed under their local ids, taken or not. *)
KeepsLocalIds(ids, tx, st) == \A i \in DOMAIN tx.inserts : ids[i] = i

(***************************************************************************)
(* The loop of Transaction.commit over the staged inserts, in ascending    *)
(* order of local id: ids[i] is the id under which row i is committed.  It *)
(* is i itself when no row of the next store has it, and the next store's  *)
(* next_id otherwise.                                                      *)
(***************************************************************************)
IsCommitIds(ids, tx, st) ==
  \A i \in DOMAIN tx.inserts :
    LET before == {ids[j] : j \in {k \in DOMAIN tx.inserts : k < i}}
    IN  IF i \in (DOMAIN st.rows \ tx.deletes) \cup before
          THEN IsNextRowId(ids[i], st, before)
          ELSE ids[i] = i

CommitIds(tx, st) ==
  {ids \in [DOMAIN tx.inserts -> RowIds] : IsCommitIds(ids, tx, st)}

(* The rows of the next store, given the ids of the inserted ones. *)
CommitRows(ids, tx, st) ==
  LET kept == DOMAIN st.rows \ tx.deletes
      new  == {ids[i] : i \in DOMAIN ids}
  IN  [id \in kept \cup new |->
         IF id \in new THEN tx.inserts[CHOOSE i \in DOMAIN ids : ids[i] = id]
         ELSE IF id \in DOMAIN tx.updates THEN tx.updates[id]
         ELSE st.rows[id]]

(***************************************************************************)
(* The store Transaction.commit swaps in, as a set: it has one member,     *)
(* or none when an id would pass MaxRowId.                                 *)
(***************************************************************************)
CommittedStores(tx, st) ==
  UNION {{[rows |-> CommitRows(ids, tx, st), next_id |-> n] :
            n \in {m \in 1..(MaxRowId + 1) :
                     IsNextRowId(m, st, {ids[i] : i \in DOMAIN ids})}} :
         ids \in CommitIds(tx, st)}

CommittedStore(tx, st) == CHOOSE next \in CommittedStores(tx, st) : TRUE

(* What is left of a transaction after commit: clearLocalRows, .committed. *)
Committed(tx) == [tx EXCEPT !.state   = "committed",
                            !.inserts = NoRows,
                            !.updates = NoRows,
                            !.deletes = {}]
=============================================================================
