------------------------------ MODULE QueryLaws -----------------------------
(***************************************************************************)
(* What joins and GROUP BY promise.                                        *)
(***************************************************************************)
EXTENDS Query, SelectLaws

(* ON: the two columns are the same, or cannot be compared. *)
Matches(left_row, right_row, on) == on # <<>> => Same(left_row[on[1]], right_row[on[2]])

Mismatches(left_row, right_row, on) == on # <<>> /\ ~Compares(left_row[on[1]], right_row[on[2]])

(* Left row i gives a row with right row k; k = 0 stands for the NULLs. *)
Joins(i, k, left, right, join_type, on) ==
  \/ k \in DOMAIN right /\ Matches(left[i], right[k], on)
  \/ /\ k = 0 /\ join_type = "left"
     /\ \A h \in DOMAIN right : ~Matches(left[i], right[h], on)

JoinedRow(i, k, left, right, width) ==
  left[i] \o (IF k = 0 THEN [c \in 1..width |-> Null] ELSE right[k])

(* The left and the right rows of the items are l and r: every pair that joins, once. *)
ArePairs(items, l, r, left, right, join_type, on, width) ==
  /\ \A p \in 1..Len(items) : /\ Joins(l[p], r[p], left, right, join_type, on)
                              /\ items[p] = JoinedRow(l[p], r[p], left, right, width)
  /\ \A p, q \in 1..Len(items) : p < q /\ l[p] = l[q] => r[p] < r[q]
  /\ \A i \in DOMAIN left : \A k \in 0..Len(right) :
       Joins(i, k, left, right, join_type, on) => \E p \in 1..Len(items) : l[p] = i /\ r[p] = k

(* They come by left row and then by right row. *)
ListsPairs(items, left, right, join_type, on, width) ==
  \E l \in [1..Len(items) -> DOMAIN left] :
    /\ \A p, q \in 1..Len(items) : p < q => l[p] <= l[q]
    /\ \E r \in [1..Len(items) -> 0..Len(right)] :
         ArePairs(items, l, r, left, right, join_type, on, width)

JoinAgrees(left, right, join_type, on, width) ==
  LET result == executeJoinSource(left, right, join_type, on, width)
  IN  IF \E i \in DOMAIN left : \E k \in DOMAIN right : Mismatches(left[i], right[k], on)
        THEN result.error = "TypeMismatch"
        ELSE result.error = "" /\ ListsPairs(result.items, left, right, join_type, on, width)

(***************************************************************************)
(* A join returns every pair of rows that ON accepts, once and in order; a *)
(* LEFT JOIN also every left row that is in none of them, once and in its  *)
(* place, with NULLs; both fail when a NULL key meets one that is not.     *)
(***************************************************************************)
JoinIsRelational ==
  input.of = "join" =>
    JoinAgrees(input.left, input.right, input.type, input.on, input.width)

-----------------------------------------------------------------------------
(* Rows of one group have the same keys. *)
SameGroup(i, j, keys) == i = j \/ SameKeys(keys[i], keys[j])

(* r lists rows of T in order, all of one group, and key is that of the first. *)
IsClass(r, key, T, keys) ==
  /\ r # <<>> /\ key = keys[r[1]]
  /\ \A p \in DOMAIN r : r[p] \in T
  /\ \A p, q \in DOMAIN r : p < q => r[p] < r[q]
  /\ \A p, q \in DOMAIN r : SameGroup(r[p], r[q], keys)

(* No row of r is of the group of a row of s. *)
Apart(r, s, keys) == \A p \in DOMAIN r : \A q \in DOMAIN s : ~SameGroup(r[p], s[q], keys)

ArePartition(groups, T, keys) ==
  /\ \A g \in DOMAIN groups : IsClass(groups[g].row_indices, groups[g].keys, T, keys)
  /\ \A g, h \in DOMAIN groups : g < h =>
       /\ groups[g].row_indices[1] < groups[h].row_indices[1]
       /\ Apart(groups[g].row_indices, groups[h].row_indices, keys)
  /\ \A i \in T : \E g \in DOMAIN groups :
       \E p \in DOMAIN groups[g].row_indices : groups[g].row_indices[p] = i

(***************************************************************************)
(* buildGroups puts every row in one group, with the rows that have the    *)
(* same keys and with no other; the groups come in the order of their      *)
(* first rows, the rows of a group in table order, and a row whose key is  *)
(* a blob, which equals nothing, is alone.                                 *)
(***************************************************************************)
GroupsPartition ==
  input.of = "group" /\ input.group_by # <<>> =>
    ArePartition(buildGroups(input.rows, [i \in DOMAIN input.rows |-> i], input.group_by),
                 DOMAIN input.rows, OrderKeys(input.rows, input.group_by))
=============================================================================
