------------------------------- MODULE Select -------------------------------
(***************************************************************************)
(* WHERE, ORDER BY and LIMIT over a row set (src/db/query_source.zig), and *)
(* the nearest vectors of src/vector/search.zig, which sorts in the same   *)
(* way.                                                                    *)
(*                                                                         *)
(* A row is a sequence of values and a row set a sequence of rows.  Names  *)
(* have been resolved to column numbers.  A result is a sequence with the  *)
(* error, "" being none, that took its place.  A condition is              *)
(* <<column, bound>>, for column < bound, or <<>>, which always holds.     *)
(***************************************************************************)
EXTENDS SqlValue, Sequences

Ok(s)   == [items |-> s, error |-> ""]
Bad(e)  == [items |-> <<>>, error |-> e[2]]

(* "try": an error s takes the place of t. *)
Unless(s, t) == IF s.error # "" THEN s ELSE t

Compare(v, bound) ==
  LET c == compareValues(v, Integer(bound)) IN OrError(c, Boolean(c[2] < 0))

matchesWhere(row, where) ==
  IF where = <<>> THEN Boolean(TRUE) ELSE Compare(row[where[1]], where[2])

(* The numbers of the tests that are passed, or the first error among them. *)
Matching(tests) ==
  LET found[k \in 0..Len(tests)] ==
        IF k = 0 THEN Ok(<<>>)
        ELSE Unless(found[k - 1],
                    IF IsError(tests[k]) THEN Bad(tests[k])
                    ELSE IF tests[k][2] THEN Ok(Append(found[k - 1].items, k)) ELSE found[k - 1])
  IN  found[Len(tests)]

-----------------------------------------------------------------------------
(***************************************************************************)
(* ORDER BY: rowComesAfter, groupComesAfter and resultComesAfter compare   *)
(* the keys of two items one by one, and the first that differ decide.     *)
(* Keys[i] are those of item i; a direction is "asc" or "desc".            *)
(***************************************************************************)
compareKeys(left, right) == OrError(left, OrError(right, compareValues(left, right)))

rowComesAfter(left, right, directions) ==
  LET c        == [k \in DOMAIN directions |-> compareKeys(left[k], right[k])]
      decisive == {k \in DOMAIN directions : IsError(c[k]) \/ c[k][2] # 0}
      first    == CHOOSE k \in decisive : \A j \in decisive : k <= j
  IN  IF decisive = {} THEN Boolean(FALSE)
      ELSE OrError(c[first], Boolean(IF directions[first] = "asc" THEN c[first][2] > 0
                                                                  ELSE c[first][2] < 0))

(* The item at j is put at p, and those from p on move up. *)
MovedTo(items, j, p) ==
  [k \in DOMAIN items |-> IF k = p THEN items[j]
                          ELSE IF k \in (p + 1)..j THEN items[k - 1] ELSE items[k]]

(* The inner loop goes down from j, past all up to the first that stops it: last. *)
StopsAt(stops) == CHOOSE k \in stops \cup {0} : \A m \in stops : m <= k

(* A fault: items that compare equal change places. *)
SinkEquals(items, j, keys, directions) ==
  LET before == [k \in 1..(j - 1) |-> rowComesAfter(keys[items[j]], keys[items[k]], directions)]
      last   == StopsAt({k \in 1..(j - 1) : IsError(before[k]) \/ before[k][2]})
  IN  IF last # 0 /\ IsError(before[last]) THEN Bad(before[last])
      ELSE Ok(MovedTo(items, j, last + 1))

(* The inner loop: the item at j moves down past those that come after it. *)
Sink(items, j, keys, directions) ==
  LET after == [k \in 1..(j - 1) |-> rowComesAfter(keys[items[k]], keys[items[j]], directions)]
      last  == StopsAt({k \in 1..(j - 1) : IsError(after[k]) \/ ~after[k][2]})
  IN  IF last # 0 /\ IsError(after[last]) THEN Bad(after[last])
      ELSE Ok(MovedTo(items, j, last + 1))

sortIndices(indices, keys, directions) ==
  LET sorted[k \in 0..Len(indices)] ==
        IF k = 0 THEN Ok(indices)
        ELSE Unless(sorted[k - 1], Sink(sorted[k - 1].items, k, keys, directions))
  IN  sorted[Len(indices)]

Limited(s, limit) == SubSeq(s, 1, IF limit < Len(s) THEN limit ELSE Len(s))

OrderKeys(rows, order_by) ==
  [i \in DOMAIN rows |-> [k \in DOMAIN order_by |-> rows[i][order_by[k]]]]

(* executeSelectScoped without aggregates: the numbers of the rows, in order. *)
executeSelect(rows, where, order_by, directions, limit) ==
  LET filtered == Matching([i \in DOMAIN rows |-> matchesWhere(rows[i], where)])
      sorted   == Unless(filtered,
                         sortIndices(filtered.items, OrderKeys(rows, order_by), directions))
  IN  Unless(sorted, Ok(Limited(sorted.items, limit)))

-----------------------------------------------------------------------------
(***************************************************************************)
(* topK: candidates are [key, distance], whose scores are not computed     *)
(* here.                                                                   *)
(***************************************************************************)
DistanceKeys(candidates) ==
  [i \in DOMAIN candidates |-> <<Integer(candidates[i].distance), Integer(candidates[i].key)>>]

(* A fault: candidates at the same distance keep the order they came in. *)
sortByDistance(candidates) ==
  sortIndices([i \in DOMAIN candidates |-> i],
              [i \in DOMAIN candidates |-> <<Integer(candidates[i].distance)>>], <<"asc">>)

sortResults(candidates) ==
  sortIndices([i \in DOMAIN candidates |-> i], DistanceKeys(candidates), <<"asc", "asc">>)

topK(candidates, limit) ==
  LET nearest == Limited(sortResults(candidates).items, limit)
  IN  [k \in DOMAIN nearest |-> candidates[nearest[k]]]
=============================================================================
