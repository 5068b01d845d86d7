------------------------------ MODULE SelectLaws ----------------------------
(***************************************************************************)
(* What WHERE, ORDER BY and LIMIT promise, and what the search for the     *)
(* nearest vectors does.                                                   *)
(***************************************************************************)
EXTENDS Select, Inputs

(* Values compare when they are of one kind; blobs never do, NULL equals NULL. *)
Compares(l, r) == l[1] = r[1] /\ l # Blob

Same(l, r) == l = r /\ l # Blob

Less(l, r) ==
  \/ l[1] = "integer" /\ r[1] = "integer" /\ l[2] < r[2]
  \/ l[1] = "boolean" /\ r[1] = "boolean" /\ ~l[2] /\ r[2]

SameKeys(l, r) == \A k \in DOMAIN l : Same(l[k], r[k])

(* The first keys of l and r that are not the same are the k-th. *)
DifferAt(k, l, r) == ~Same(l[k], r[k]) /\ \A m \in 1..(k - 1) : Same(l[m], r[m])

ComesFirst(l, r, directions) ==
  \E k \in DOMAIN directions :
    DifferAt(k, l, r) /\ IF directions[k] = "asc" THEN Less(l[k], r[k]) ELSE Less(r[k], l[k])

(* Item i stands before item j: by the first keys that differ, else by the numbers. *)
Precedes(i, j, keys, directions) ==
  \/ ComesFirst(keys[i], keys[j], directions)
  \/ SameKeys(keys[i], keys[j]) /\ i < j

(* s lists the first members of S, all of them when they are no more than limit. *)
ListsFirst(s, S, limit, keys, directions) ==
  /\ Len(s) <= limit
  /\ \A p \in 1..Len(s) : s[p] \in S
  /\ \A p, q \in 1..Len(s) : p < q => Precedes(s[p], s[q], keys, directions)
  /\ \A i \in S : \/ \E p \in 1..Len(s) : s[p] = i
                  \/ Len(s) = limit /\ \A p \in 1..Len(s) : Precedes(s[p], i, keys, directions)

(* The first keys that differ, in some two items of S, do not compare. *)
Incomparable(S, keys) ==
  \E i, j \in S : i # j /\ \E k \in DOMAIN keys[i] :
    DifferAt(k, keys[i], keys[j]) /\ ~Compares(keys[i][k], keys[j][k])

(* The column of the condition is below its bound, or cannot be compared with it. *)
Accepts(row, where) == where # <<>> => Less(row[where[1]], Integer(where[2]))

Refuses(row, where) == where # <<>> /\ ~Compares(row[where[1]], Integer(where[2]))

SelectAgrees(rows, where, order_by, directions, limit) ==
  LET selected == {i \in DOMAIN rows : Accepts(rows[i], where)}
      keys     == OrderKeys(rows, order_by)
      result   == executeSelect(rows, where, order_by, directions, limit)
  IN  IF (\E i \in DOMAIN rows : Refuses(rows[i], where)) \/ Incomparable(selected, keys)
        THEN result.error = "TypeMismatch"
        ELSE result.error = "" /\ ListsFirst(result.items, selected, limit, keys, directions)

(***************************************************************************)
(* SELECT returns the first LIMIT of the rows that WHERE accepts, by the   *)
(* ORDER BY keys and in table order among equals; it fails exactly when    *)
(* WHERE fails on some row or some two of the accepted rows do not         *)
(* compare, whichever pairs the insertion sort happens to look at.         *)
(***************************************************************************)
SelectIsOrdered ==
  input.of = "select" =>
    SelectAgrees(input.rows, input.where, input.order_by, input.directions, input.limit)

(* Candidate i is nearer than j, or as near and has the smaller key, or came first. *)
Nearer(i, j, candidates) ==
  LET a == candidates[i]
      b == candidates[j]
  IN  \/ a.distance < b.distance
      \/ a.distance = b.distance /\ a.key < b.key
      \/ a.distance = b.distance /\ a.key = b.key /\ i < j

TopKAgrees(candidates, limit) ==
  \E n \in 0..Len(candidates) : \E s \in [1..n -> DOMAIN candidates] :
    /\ topK(candidates, limit) = [k \in 1..n |-> candidates[s[k]]]
    /\ n <= limit /\ (n < limit => n = Len(candidates))
    /\ \A p, q \in 1..n : p < q => Nearer(s[p], s[q], candidates)
    /\ \A i \in DOMAIN candidates : (\A p \in 1..n : s[p] # i)
                                      => \A p \in 1..n : Nearer(s[p], i, candidates)

(***************************************************************************)
(* topK returns the nearest candidates, nearest first and the smaller key  *)
(* first at the same distance, whatever the order they came in.            *)
(***************************************************************************)
NearestFirst == input.of = "topK" => TopKAgrees(input.candidates, input.limit)
=============================================================================
