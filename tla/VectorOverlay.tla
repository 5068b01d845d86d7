--------------------------- MODULE VectorOverlay ----------------------------
(***************************************************************************)
(* The overlay of committed vectors (src/vector/overlay.zig).  A delta is  *)
(* found by table, column and row id; each table has one vector column     *)
(* here, so <<table, row id>> names it.  The order of the list is left     *)
(* out: when drainReady has to leave some ready deltas behind, the model   *)
(* allows it to leave any.                                                 *)
(***************************************************************************)
EXTENDS Naturals, FiniteSets

CONSTANTS VectorValues      \* the row values whose vector column is not NULL

NoDeltas == [k \in {} |-> 0]

(* The keys of the vectors that stores hold. *)
VectorKeys(stores) ==
  UNION {{<<t, id>> : id \in {i \in DOMAIN stores[t].rows :
                                 stores[t].rows[i] \in VectorValues}} :
         t \in DOMAIN stores}

(* A fault: a delta already there is not replaced. *)
recordNewDeltas(deltas, generation, stores) ==
  [k \in DOMAIN deltas \cup VectorKeys(stores) |->
     IF k \in DOMAIN deltas
       THEN deltas[k]
       ELSE [generation |-> generation, vector |-> stores[k[1]].rows[k[2]]]]

(***************************************************************************)
(* Database.recordVectorOverlayDeltas: every committed vector of every     *)
(* table is recorded anew, under the generation of this commit; a delta    *)
(* already there for the same row is replaced.                             *)
(***************************************************************************)
recordVectorOverlayDeltas(deltas, generation, stores) ==
  LET keys == VectorKeys(stores)
  IN  [k \in DOMAIN deltas \cup keys |->
         IF k \in keys
           THEN [generation |-> generation, vector |-> stores[k[1]].rows[k[2]]]
           ELSE deltas[k]]

(* The deltas drainReady may hand out. *)
Ready(deltas, through) == {k \in DOMAIN deltas : deltas[k].generation <= through}

(* The deltas that are left when drainReady hands out those in `drained'. *)
Drain(deltas, drained) == [k \in DOMAIN deltas \ drained |-> deltas[k]]

(* drainReady stops at max_count deltas and not before it runs out of ready ones. *)
IsDrained(drained, deltas, through, max_count) ==
  LET ready == Ready(deltas, through)
  IN  /\ drained \subseteq ready
      /\ \/ Cardinality(drained) = max_count
         \/ drained = ready /\ Cardinality(ready) < max_count
=============================================================================
