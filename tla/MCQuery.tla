------------------------------- MODULE MCQuery ------------------------------
(***************************************************************************)
(* Inputs of the functions of Query, and what they should return: sets     *)
(* where the code has loops.                                               *)
(***************************************************************************)
EXTENDS QueryLaws, FiniteSets
LOCAL INSTANCE SequencesExt
LOCAL INSTANCE FiniteSetsExt

UpTo(S, n) == UNION {[1..k -> S] : k \in 0..n}

Ints(n) == {Null} \cup {Integer(k) : k \in 0..n}

(* Rows of two columns; a column holds NULLs and values of one type. *)
RowSets(n) == UpTo(Ints(n) \X Ints(0), 3) \cup UpTo(Ints(n) \X {Null, Blob}, 3)

Directed == {<<o, d>> \in UpTo({1, 2}, 2) \X UpTo({"asc", "desc"}, 2) :
               /\ Len(o) = Len(d)
               /\ IsInjective(o)}

SelectInputs ==
  {[of |-> "select", rows |-> rows, where |-> where, order_by |-> o[1], directions |-> o[2],
    limit |-> limit] :
     rows \in RowSets(2), where \in {<<>>, <<1, 2>>}, o \in Directed, limit \in {0, 2, 3}}

JoinInputs ==
  {x \in {[of |-> "join", left |-> left, right |-> right, type |-> type, on |-> on, width |-> 2] :
            left  \in {[i \in DOMAIN s |-> <<s[i], Integer(i)>>] : s \in UpTo(Ints(1), 2)},
            right \in {[i \in DOMAIN s |-> <<s[i], Integer(i)>>] : s \in UpTo(Ints(1), 3)},
            type  \in {"inner", "left"}, on \in {<<>>, <<1, 1>>}} :
     Len(x.left) + Len(x.right) <= 4}

Expressions ==
  {<<"star", 0>>} \cup ({"column", "count_star", "count", "sum", "min", "max"} \X {1, 2})

GroupInputs ==
  {x \in {[of |-> "group", rows |-> rows, group_by |-> keys, e |-> e, having |-> tail[1],
           directions |-> tail[2], limit |-> tail[3]] :
            rows \in RowSets(1), keys \in {<<>>, <<1>>, <<2>>, <<1, 2>>}, e \in Expressions,
            tail \in {<<<<>>, <<>>, 3>>, <<<<2>>, <<"asc">>, 3>>, <<<<>>, <<"desc">>, 1>>}} :
     /\ isAggregateSelect(x.e, x.group_by, x.having)
     /\ x.e[1] = "star" => x.having = <<>> /\ x.directions = <<>>}

TopKInputs ==
  {[of |-> "topK", candidates |-> s, limit |-> limit] :
     s \in UpTo([key : 1..2, distance : 0..2], 3), limit \in 0..4}

-----------------------------------------------------------------------------
(* MIN or MAX of the rows in args: the value that Beats every other one. *)
Extremum(x, args, Beats(_, _)) ==
  LET Value(i) == x.rows[i][x.e[2]]
  IN  IF args = {} THEN Null
      ELSE IF \E i, j \in args : i # j /\ ~Compares(Value(i), Value(j)) THEN Error("TypeMismatch")
      ELSE Value(CHOOSE i \in args : \A j \in args : Value(i) = Value(j) \/ Beats(Value(i), Value(j)))

(* The value of the expression for the set C of rows. *)
ClassValue(x, C) ==
  LET Value(i) == x.rows[i][x.e[2]]
      args     == {i \in C : Value(i) # Null}
  IN  CASE x.e[1] = "column"     -> Value(Min(C))
        [] x.e[1] = "count_star" -> Integer(Cardinality(C))
        [] x.e[1] = "count"      -> Integer(Cardinality(args))
        [] x.e[1] = "sum"        -> IF args = {} THEN Null
                                    ELSE IF Blob \in {Value(i) : i \in args} THEN Error("TypeMismatch")
                                    ELSE Integer(MapThenSumSet(LAMBDA i : Value(i)[2], args))
        [] x.e[1] = "min"        -> Extremum(x, args, Less)
        [] x.e[1] = "max"        -> Extremum(x, args, LAMBDA v, w : Less(w, v))

(* The classes in the order of their values and then of their first rows. *)
SortedClasses(x, classes, value) ==
  LET keys == [i \in UNION classes |-> [k \in DOMAIN x.directions |->
                                           value[CHOOSE C \in classes : i \in C]]]
  IN  SetToSortSeq(classes, LAMBDA C, D : Precedes(Min(C), Min(D), keys, x.directions))

(* Some class cannot be tested by HAVING, or some two not be put in order. *)
Untestable(x, classes, value) ==
  x.having # <<>> /\ \E C \in classes : ~Compares(value[C], Integer(0))

Unsortable(x, classes, value) ==
  /\ x.directions # <<>>
  /\ \E C, D \in classes : C # D /\ (IsError(value[C]) \/ ~Compares(value[C], value[D]))

ClassesAgree(x, classes, value, result, Key(_)) ==
  LET accepted == {C \in classes : x.having # <<>> => Less(value[C], Integer(x.having[1]))}
      shown    == Limited(SortedClasses(x, accepted, value), x.limit)
  IN  IF \/ Untestable(x, classes, value)
         \/ Unsortable(x, accepted, value)
         \/ \E k \in DOMAIN shown : IsError(value[shown[k]])
        THEN result.error = "TypeMismatch"
        ELSE result = Ok([k \in DOMAIN shown |->
                            [keys  |-> IF shown[k] = {} THEN <<>> ELSE Key(Min(shown[k])),
                             value |-> value[shown[k]]]])

GroupsAgree(x) ==
  LET all     == DOMAIN x.rows
      Key(i)  == [k \in DOMAIN x.group_by |-> x.rows[i][x.group_by[k]]]
      classes == IF x.group_by = <<>> THEN {all}
                 ELSE {{j \in all : j = i \/ SameKeys(Key(j), Key(i))} : i \in all}
      result  == executeAggregateSelect(x.rows, [i \in all |-> i], x.group_by, x.e, x.having,
                                        x.directions, x.limit)
  IN  IF x.e[1] \in {"star", "column"} /\ \A k \in DOMAIN x.group_by : x.group_by[k] # x.e[2]
        THEN result.error = "InvalidGrouping"
        ELSE ClassesAgree(x, classes, [C \in classes |-> ClassValue(x, C)], result, Key)
=============================================================================
