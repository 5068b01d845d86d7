-------------------------------- MODULE Query -------------------------------
(***************************************************************************)
(* The rest of SELECT over a row set (src/db/query_source.zig): joins, and *)
(* GROUP BY with aggregates and HAVING.  WHERE, ORDER BY and LIMIT are in  *)
(* Select.                                                                 *)
(***************************************************************************)
EXTENDS Select

-----------------------------------------------------------------------------
(***************************************************************************)
(* executeJoinSource, ON left.l = right.r when on is <<l, r>>.             *)
(***************************************************************************)
OnHolds(left_row, right_row, on) ==
  IF on = <<>> THEN Boolean(TRUE)
  ELSE LET c == compareValues(left_row[on[1]], right_row[on[2]])
       IN  OrError(c, Boolean(c[2] = 0))

(* A fault: a left row is followed by NULLs when the last right row does not match. *)
JoinRowLast(left_row, right, join_type, on, width) ==
  LET hits   == Matching([k \in DOMAIN right |-> OnHolds(left_row, right[k], on)])
      last   == IF right = <<>> THEN 0 ELSE Len(right)
      joined == [k \in DOMAIN hits.items |-> left_row \o right[hits.items[k]]]
  IN  IF hits.error # "" THEN hits
      ELSE IF join_type = "left" /\ (hits.items = <<>> \/ hits.items[Len(hits.items)] # last)
        THEN Ok(Append(joined, left_row \o [k \in 1..width |-> Null]))
        ELSE Ok(joined)

(* The rows that one left row gives. *)
JoinRow(left_row, right, join_type, on, width) ==
  LET hits   == Matching([k \in DOMAIN right |-> OnHolds(left_row, right[k], on)])
      joined == [k \in DOMAIN hits.items |-> left_row \o right[hits.items[k]]]
  IN  IF hits.error # "" THEN hits
      ELSE IF join_type = "left" /\ hits.items = <<>>
        THEN Ok(<<left_row \o [k \in 1..width |-> Null]>>)
        ELSE Ok(joined)

executeJoinSource(left, right, join_type, on, width) ==
  LET joined[k \in 0..Len(left)] ==
        IF k = 0 THEN Ok(<<>>)
        ELSE Unless(joined[k - 1],
                    LET rows == JoinRow(left[k], right, join_type, on, width)
                    IN  Unless(rows, Ok(joined[k - 1].items \o rows.items)))
  IN  joined[Len(left)]

-----------------------------------------------------------------------------
(***************************************************************************)
(* GROUP BY.                                                               *)
(***************************************************************************)
valuesEquivalent(l, r) ==
  IF l = Null \/ r = Null THEN l = r
  ELSE LET c == compareValues(l, r) IN ~IsError(c) /\ c[2] = 0

(* A fault: a NULL key equals no other. *)
nullsDiffer(l, r) == \A k \in DOMAIN l : l[k] # Null /\ valuesEquivalent(l[k], r[k])

groupKeysEqual(l, r) == \A k \in DOMAIN l : valuesEquivalent(l[k], r[k])

(* One turn of buildGroups: row i goes to the first group with its keys. *)
AddToGroup(groups, i, keys) ==
  LET same == {g \in DOMAIN groups : groupKeysEqual(groups[g].keys, keys)}
  IN  IF same = {} THEN Append(groups, [keys |-> keys, row_indices |-> <<i>>])
      ELSE [groups EXCEPT ![CHOOSE g \in same : \A h \in same : g <= h].row_indices =
                            Append(@, i)]

(* Without GROUP BY there is one group, even of no row. *)
buildGroups(rows, indices, group_by) ==
  IF group_by = <<>> THEN <<[keys |-> <<>>, row_indices |-> indices]>>
  ELSE LET Keys(i) == [k \in DOMAIN group_by |-> rows[i][group_by[k]]]
           groups[k \in 0..Len(indices)] ==
             IF k = 0 THEN <<>> ELSE AddToGroup(groups[k - 1], indices[k], Keys(indices[k]))
       IN  groups[Len(indices)]

(* MIN and MAX keep the first of equal values. *)
Best(best, v, sign) ==
  LET c == compareValues(v, best)
  IN  OrError(best, OrError(c, IF c[2] * sign > 0 THEN v ELSE best))

Extreme(args, sign) ==
  LET best[k \in DOMAIN args] == IF k = 1 THEN args[1] ELSE Best(best[k - 1], args[k], sign)
  IN  best[Len(args)]

Numeric(v) == IF v[1] = "integer" THEN v ELSE Error("TypeMismatch")

(***************************************************************************)
(* evalAggregateCall on a column, NULLs left out.  The sum, a float in the *)
(* code, is the integer that it equals.  AVG, which divides it by the      *)
(* count, is left out.                                                     *)
(***************************************************************************)
evalAggregateCall(f, column, rows, group) ==
  LET all  == [k \in DOMAIN group.row_indices |-> rows[group.row_indices[k]][column]]
      args == SelectSeq(all, LAMBDA v : v # Null)
      sum[k \in 0..Len(args)] ==
        IF k = 0 THEN Integer(0)
        ELSE OrError(sum[k - 1], OrError(Numeric(args[k]), Integer(sum[k - 1][2] + args[k][2])))
  IN  CASE f = "count_star" -> Integer(Len(all))
        [] f = "count"      -> Integer(Len(args))
        [] f = "sum"        -> IF args = <<>> THEN Null ELSE sum[Len(args)]
        [] f = "min"        -> IF args = <<>> THEN Null ELSE Extreme(args, -1)
        [] f = "max"        -> IF args = <<>> THEN Null ELSE Extreme(args, 1)

(***************************************************************************)
(* An expression is <<"star", 0>>, <<"column", c>> or an aggregate         *)
(* <<function, c>>.                                                        *)
(***************************************************************************)
expressionContainsAggregate(e) == e[1] \notin {"star", "column"}

expressionMatchesGroupBy(e, group_by) == \E k \in DOMAIN group_by : e = <<"column", group_by[k]>>

(* SELECT of the GROUP BY columns and of e. *)
isAggregateSelect(e, group_by, having) ==
  group_by # <<>> \/ having # <<>> \/ expressionContainsAggregate(e)

(* Outside of an aggregate there may only be columns of GROUP BY. *)
validateAggregateSelect(e, group_by) ==
  IF expressionContainsAggregate(e) \/ expressionMatchesGroupBy(e, group_by)
    THEN Ok(<<>>) ELSE Bad(Error("InvalidGrouping"))

evalRepresentativeExpression(column, rows, group) ==
  IF group.row_indices = <<>> THEN Error("InvalidGrouping")
  ELSE rows[group.row_indices[1]][column]

evalGroupedExpression(e, rows, group, group_by) ==
  IF expressionContainsAggregate(e) THEN evalAggregateCall(e[1], e[2], rows, group)
  ELSE IF expressionMatchesGroupBy(e, group_by) THEN evalRepresentativeExpression(e[2], rows, group)
  ELSE Error("InvalidGrouping")

(* HAVING, ORDER BY and LIMIT over groups with their values. *)
GroupRows(groups, value, having, directions, limit) ==
  LET passed  == Matching([g \in DOMAIN value |->
                             IF having = <<>> THEN Boolean(TRUE)
                             ELSE OrError(value[g], Compare(value[g], having[1]))])
      sorted  == Unless(passed, sortIndices(passed.items, [g \in DOMAIN groups |-> <<value[g]>>],
                                            directions))
      Rows(limited) ==
        LET wrong == {k \in DOMAIN limited : IsError(value[limited[k]])}
        IN  IF wrong # {}
              THEN Bad(value[limited[CHOOSE k \in wrong : \A j \in wrong : k <= j]])
              ELSE Ok([k \in DOMAIN limited |-> [keys  |-> groups[limited[k]].keys,
                                                 value |-> value[limited[k]]]])
  IN  Unless(sorted, Rows(Limited(sorted.items, limit)))

(***************************************************************************)
(* executeAggregateSelect: HAVING and ORDER BY see the expression e; the   *)
(* groups, in order.                                                       *)
(***************************************************************************)
executeAggregateSelect(rows, indices, group_by, e, having, directions, limit) ==
  LET Value(groups) ==
        [g \in DOMAIN groups |-> evalGroupedExpression(e, rows, groups[g], group_by)]
      Select(groups) == GroupRows(groups, Value(groups), having, directions, limit)
  IN  Unless(validateAggregateSelect(e, group_by), Select(buildGroups(rows, indices, group_by)))
=============================================================================
