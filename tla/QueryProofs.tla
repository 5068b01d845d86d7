---------------------------- MODULE QueryProofs ----------------------------
(***************************************************************************)
(* WHERE, joins and GROUP BY keep their promises for every row set.  What  *)
(* values compare by comes first.  The loop of WHERE keeps the rows passed *)
(* so far; a join repeats that loop for every left row, and its result     *)
(* grows by the pairs of that row; GROUP BY adds one row at a time to the  *)
(* groups of the rows before it.                                           *)
(***************************************************************************)
EXTENDS QueryLaws, Recursion, SequenceTheorems

(* What a column may hold. *)
Values == {Null, Blob} \cup {Integer(n) : n \in Int} \cup {Boolean(b) : b \in BOOLEAN}

(* What values are compared by. *)
Num(v) == IF v[1] = "integer" THEN v[2] ELSE IF v[1] = "boolean" THEN BoolToInt(v[2]) ELSE 0

Comparable(l, r) == l[1] = r[1] /\ l[1] # "blob"

Ties(l, r) == Comparable(l, r) /\ Num(l) = Num(r)

(* Results are told apart by their tags. *)
LEMMA Tagged ==
  /\ \A n : ~IsError(Integer(n)) /\ Integer(n)[2] = n
  /\ \A b : ~IsError(Boolean(b)) /\ Boolean(b)[2] = b
  /\ \A e : IsError(Error(e)) /\ Error(e)[2] = e
BY DEF IsError, Integer, Boolean, Error

(* A value has one of four tags, and a number. *)
LEMMA ValueTags ==
  ASSUME NEW v \in Values
  PROVE  /\ Num(v) \in Int /\ ~IsError(v)
         /\ v[1] \in {"null", "blob", "integer", "boolean"}
BY DEF Values, Num, IsError, Null, Blob, Integer, Boolean, BoolToInt

(* Two values compare by their numbers when they have the same tag. *)
LEMMA KeyCompares ==
  ASSUME NEW l \in Values, NEW r \in Values
  PROVE  compareKeys(l, r) = IF Comparable(l, r) THEN Integer(Num(l) - Num(r))
                                                ELSE Error("TypeMismatch")
<1>1. compareKeys(l, r) = compareValues(l, r)
  BY Zenon, ValueTags DEF compareKeys, OrError
<1>2. /\ l[1] \in {"null", "blob", "integer", "boolean"}
      /\ r[1] \in {"null", "blob", "integer", "boolean"}
  BY Zenon, ValueTags
<1>3. CASE l[1] = "null" /\ r[1] = "null"
  <2>1. Num(l) = 0 /\ Num(r) = 0 /\ Comparable(l, r)
    BY <1>3 DEF Num, Comparable
  <2>2. Num(l) - Num(r) = 0
    BY <2>1
  <2>3. compareValues(l, r) = Integer(0)
    BY <1>3 DEF compareValues
  <2>4. QED
    BY Zenon, <1>1, <2>1, <2>2, <2>3
<1>4. CASE l[1] = "integer" /\ r[1] = "integer"
  <2>1. Num(l) = l[2] /\ Num(r) = r[2] /\ Comparable(l, r)
    BY <1>4 DEF Num, Comparable
  <2>2. compareValues(l, r) = Integer(l[2] - r[2])
    BY <1>4 DEF compareValues
  <2>3. QED
    BY Zenon, <1>1, <2>1, <2>2
<1>5. CASE l[1] = "boolean" /\ r[1] = "boolean"
  <2>1. Num(l) = BoolToInt(l[2]) /\ Num(r) = BoolToInt(r[2]) /\ Comparable(l, r)
    BY <1>5 DEF Num, Comparable
  <2>2. compareValues(l, r) = Integer(BoolToInt(l[2]) - BoolToInt(r[2]))
    BY <1>5 DEF compareValues
  <2>3. QED
    BY Zenon, <1>1, <2>1, <2>2
<1>6. CASE ~(l[1] = "null" /\ r[1] = "null") /\ ~(l[1] = "integer" /\ r[1] = "integer")
             /\ ~(l[1] = "boolean" /\ r[1] = "boolean")
  <2>1. compareValues(l, r) = Error("TypeMismatch")
    BY <1>6 DEF compareValues
  <2>2. ~Comparable(l, r)
    BY <1>2, <1>6 DEF Comparable
  <2>3. QED
    BY Zenon, <1>1, <2>1, <2>2
<1>7. QED
  BY Zenon, <1>3, <1>4, <1>5, <1>6

(* A value is known by its tag and its number. *)
LEMMA ValueForms ==
  ASSUME NEW v \in Values
  PROVE  /\ v[1] = "blob" <=> v = Blob
         /\ v[1] = "null" => v = Null
         /\ v[1] = "integer" => v = Integer(Num(v))
         /\ v[1] = "boolean" => \E b \in BOOLEAN : v = Boolean(b) /\ Num(v) = BoolToInt(b)
<1>1. v \in {Null, Blob} \/ (\E n \in Int : v = Integer(n)) \/ \E b \in BOOLEAN : v = Boolean(b)
  BY Zenon DEF Values
<1>2. CASE v \in {Null, Blob}
  BY <1>2 DEF Null, Blob
<1>3. CASE \E n \in Int : v = Integer(n)
  <2>1. PICK n \in Int : v = Integer(n)
    BY Zenon, <1>3
  <2>2. v[1] = "integer" /\ v[2] = n /\ v # Blob
    BY <2>1 DEF Integer, Blob
  <2>3. Num(v) = n
    BY <2>2 DEF Num
  <2>4. QED
    BY <2>1, <2>2, <2>3
<1>4. CASE \E b \in BOOLEAN : v = Boolean(b)
  <2>1. PICK b \in BOOLEAN : v = Boolean(b)
    BY Zenon, <1>4
  <2>2. v[1] = "boolean" /\ v[2] = b /\ v # Blob
    BY <2>1 DEF Boolean, Blob
  <2>3. Num(v) = BoolToInt(b)
    BY <2>2 DEF Num
  <2>4. QED
    BY <2>1, <2>2, <2>3
<1>5. QED
  BY Zenon, <1>1, <1>2, <1>3, <1>4

(* To tie is to be the same. *)
LEMMA TiesSame ==
  ASSUME NEW l \in Values, NEW r \in Values
  PROVE  Ties(l, r) <=> Same(l, r)
<1>1. Same(l, r) => Ties(l, r)
  BY Zenon, ValueForms DEF Ties, Comparable, Same
<1>2. ASSUME Ties(l, r)
      PROVE  l = r
  <2>1. l[1] = r[1] /\ l[1] # "blob" /\ Num(l) = Num(r)
    BY Zenon, <1>2 DEF Ties, Comparable
  <2>2. CASE l[1] = "null" \/ l[1] = "integer"
    BY Zenon, ValueForms, <2>1, <2>2
  <2>3. CASE l[1] = "boolean"
    <3>1. PICK a \in BOOLEAN : l = Boolean(a) /\ Num(l) = BoolToInt(a)
      BY Zenon, ValueForms, <2>3
    <3>2. PICK b \in BOOLEAN : r = Boolean(b) /\ Num(r) = BoolToInt(b)
      BY Zenon, ValueForms, <2>1, <2>3
    <3>3. a = b
      BY <2>1, <3>1, <3>2 DEF BoolToInt
    <3>4. QED
      BY Zenon, <3>1, <3>2, <3>3
  <2>4. QED
    BY Zenon, <2>1, <2>2, <2>3, ValueTags
<1>3. Ties(l, r) => l # Blob
  BY Zenon, ValueForms DEF Ties, Comparable
<1>4. QED
  BY Zenon, <1>1, <1>2, <1>3 DEF Same

(* To have numbers that compare is to be of one kind, and not blobs. *)
LEMMA ComparableCompares ==
  ASSUME NEW l \in Values, NEW r \in Values
  PROVE  Comparable(l, r) <=> Compares(l, r)
BY Zenon, ValueForms DEF Comparable, Compares

(* The smaller value has the smaller number. *)
LEMMA LessNumber ==
  ASSUME NEW l \in Values, NEW r \in Values
  PROVE  Less(l, r) <=> Comparable(l, r) /\ Num(l) < Num(r)
<1>1. Num(l) \in Int /\ Num(r) \in Int /\ l[1] \in {"null", "blob", "integer", "boolean"}
  BY Zenon, ValueTags
<1>2. CASE l[1] = "integer" /\ r[1] = "integer"
  BY <1>2 DEF Less, Comparable, Num
<1>3. CASE l[1] = "boolean" /\ r[1] = "boolean"
  <2>1. PICK a \in BOOLEAN : l = Boolean(a) /\ Num(l) = BoolToInt(a)
    BY Zenon, <1>3, ValueForms
  <2>2. PICK b \in BOOLEAN : r = Boolean(b) /\ Num(r) = BoolToInt(b)
    BY Zenon, <1>3, ValueForms
  <2>3. l[2] = a /\ r[2] = b
    BY Zenon, <2>1, <2>2, Tagged
  <2>4. Num(l) < Num(r) <=> ~a /\ b
    BY <2>1, <2>2 DEF BoolToInt
  <2>5. "boolean" # "integer" /\ "boolean" # "blob"
    OBVIOUS
  <2>6. QED
    BY Zenon, <1>3, <2>3, <2>4, <2>5 DEF Less, Comparable
<1>4. CASE l[1] # r[1]
  BY <1>4 DEF Less, Comparable
<1>5. CASE l[1] \in {"null", "blob"} /\ r[1] = l[1]
  BY <1>1, <1>5 DEF Less, Comparable, Num
<1>6. QED
  BY Zenon, <1>1, <1>2, <1>3, <1>4, <1>5

(* The keys of a row. *)
KeyRows(d) == [1..d -> Values]

(* ORDER BY and GROUP BY take their keys from the columns. *)
LEMMA SelectKeys ==
  ASSUME NEW w \in Nat, NEW rows \in Seq([1..w -> Values]), NEW order_by \in Seq(1..w)
  PROVE  OrderKeys(rows, order_by) \in [1..Len(rows) -> KeyRows(Len(order_by))]
<1>1. DOMAIN rows = 1..Len(rows) /\ \A i \in 1..Len(rows) : rows[i] \in [1..w -> Values]
  BY LenProperties, ElementOfSeq
<1>2. DOMAIN order_by = 1..Len(order_by) /\ \A k \in 1..Len(order_by) : order_by[k] \in 1..w
  BY LenProperties, ElementOfSeq
<1>3. \A i \in 1..Len(rows), k \in 1..Len(order_by) : rows[i][order_by[k]] \in Values
  BY Zenon, <1>1, <1>2
<1>4. QED
  BY Zenon, <1>1, <1>2, <1>3 DEF OrderKeys, KeyRows

-----------------------------------------------------------------------------
(* The three answers are different. *)
LEMMA Answers ==
  /\ Boolean(TRUE) # Boolean(FALSE) /\ \A e : Boolean(TRUE) # Error(e) /\ Boolean(FALSE) # Error(e)
  /\ Boolean(TRUE)[2] = TRUE /\ Boolean(FALSE)[2] = FALSE
BY DEF Boolean, Error

(* A function on 1..n is a sequence of that length. *)
LEMMA ListLength ==
  ASSUME NEW n \in Nat, NEW I, NEW s \in [1..n -> I]
  PROVE  s \in Seq(I) /\ Len(s) = n
<1>1. s \in Seq(I)
  BY SeqDef
<1>2. Len(s) \in Nat /\ DOMAIN s = 1..Len(s) /\ DOMAIN s = 1..n
  BY <1>1, LenProperties
<1>3. QED
  BY <1>1, <1>2

(* A result has its items or its error, and an error ends the statement. *)
LEMMA ResultFields ==
  /\ \A s : Ok(s).items = s /\ Ok(s).error = ""
  /\ Bad(Error("TypeMismatch")).error = "TypeMismatch"
  /\ \A s : Ok(s) # Bad(Error("TypeMismatch"))
  /\ \A s, t : Unless(Ok(s), t) = t
  /\ \A t : Unless(Bad(Error("TypeMismatch")), t) = Bad(Error("TypeMismatch"))
<1>1. \A s : Ok(s).items = s /\ Ok(s).error = ""
  BY DEF Ok
<1>2. Bad(Error("TypeMismatch")).error = "TypeMismatch"
  BY DEF Bad, Error
<1>3. "TypeMismatch" # ""
  OBVIOUS
<1>4. QED
  BY Zenon, <1>1, <1>2, <1>3 DEF Unless

(* The numbers of rows, as they come. *)
LEMMA AllNumbers ==
  ASSUME NEW n \in Nat
  PROVE  LET all == [i \in 1..n |-> i]
         IN  /\ all \in [1..n -> 1..n]
             /\ \A p, q \in 1..n : p < q => all[p] < all[q]
             /\ \A p \in 1..n : all[p] = p
OBVIOUS

-----------------------------------------------------------------------------
(* What a condition may answer. *)
Tests == {Boolean(TRUE), Boolean(FALSE), Error("TypeMismatch")}

(* WHERE answers so on every row. *)
LEMMA WhereAnswers ==
  ASSUME NEW d \in Nat, NEW row \in [1..d -> Values], NEW where \in {<<>>} \cup ((1..d) \X Int)
  PROVE  /\ matchesWhere(row, where) \in Tests
         /\ matchesWhere(row, where) = Boolean(TRUE) <=> Accepts(row, where)
         /\ matchesWhere(row, where) = Error("TypeMismatch") <=> Refuses(row, where)
<1>1. CASE where = <<>>
  BY Zenon, <1>1, Answers DEF matchesWhere, Tests, Accepts, Refuses
<1>2. CASE where # <<>>
  <2>. DEFINE v == row[where[1]]
              w == Integer(where[2])
              c == compareValues(v, w)
  <2>1. where[1] \in 1..d /\ where[2] \in Int
    BY <1>2
  <2>2. v \in Values /\ w \in Values
    BY <2>1 DEF Values
  <2>3. matchesWhere(row, where) = OrError(c, Boolean(c[2] < 0))
    BY Zenon, <1>2 DEF matchesWhere, Compare
  <2>4. Accepts(row, where) <=> Comparable(v, w) /\ Num(v) < Num(w)
    BY Zenon, <1>2, <2>2, LessNumber DEF Accepts
  <2>5. Refuses(row, where) <=> ~Comparable(v, w)
    BY Zenon, <1>2, <2>2, ComparableCompares DEF Refuses
  <2>. HIDE DEF v, w
  <2>6. c = compareKeys(v, w)
    BY Zenon, <2>2, ValueTags DEF compareKeys, OrError
  <2>. HIDE DEF c
  <2>7. CASE Comparable(v, w)
    <3>1. c = Integer(Num(v) - Num(w))
      BY Zenon, <2>2, <2>6, <2>7, KeyCompares
    <3>2. ~IsError(c) /\ c[2] = Num(v) - Num(w)
      BY Zenon, <3>1, Tagged
    <3>3. Num(v) \in Int /\ Num(w) \in Int
      BY Zenon, <2>2, ValueTags
    <3>4. (c[2] < 0) = (Num(v) < Num(w)) /\ (Num(v) < Num(w)) \in BOOLEAN
      BY <3>2, <3>3
    <3>5. matchesWhere(row, where) = Boolean(c[2] < 0)
      BY Zenon, <2>3, <3>2 DEF OrError
    <3>6. QED
      BY Zenon, <2>4, <2>5, <2>7, <3>4, <3>5, Answers DEF Tests
  <2>8. CASE ~Comparable(v, w)
    <3>1. c = Error("TypeMismatch")
      BY Zenon, <2>2, <2>6, <2>8, KeyCompares
    <3>2. QED
      BY Zenon, <2>3, <2>4, <2>5, <2>8, <3>1, Tagged, Answers DEF OrError, Tests
  <2>9. QED
    BY Zenon, <2>7, <2>8
<1>3. QED
  BY Zenon, <1>1, <1>2

(* f[k] is the state after the first k tests. *)
Tested(x, test, k) ==
  Unless(x, IF IsError(test) THEN Bad(test) ELSE IF test[2] THEN Ok(Append(x.items, k)) ELSE x)

IsMatching(f, n, tests) ==
  f = [k \in 0..n |-> IF k = 0 THEN Ok(<<>>) ELSE Tested(f[k - 1], tests[k], k)]

(* What one test does. *)
LEMMA TestedIs ==
  ASSUME NEW n \in Nat, NEW s \in Seq(1..n), NEW k \in 1..n
  PROVE  /\ Tested(Ok(s), Boolean(TRUE), k) = Ok(Append(s, k))
         /\ Tested(Ok(s), Boolean(FALSE), k) = Ok(s)
         /\ Tested(Ok(s), Error("TypeMismatch"), k) = Bad(Error("TypeMismatch"))
         /\ \A test : Tested(Bad(Error("TypeMismatch")), test, k) = Bad(Error("TypeMismatch"))
<1>1. ~IsError(Boolean(TRUE)) /\ ~IsError(Boolean(FALSE)) /\ IsError(Error("TypeMismatch"))
  BY Zenon, Tagged
<1>2. Ok(s).items = s
  BY Zenon, ResultFields
<1>3. \A test : Tested(Bad(Error("TypeMismatch")), test, k) = Bad(Error("TypeMismatch"))
  BY Zenon, ResultFields DEF Tested
<1>4. \A test : Tested(Ok(s), test, k) = IF IsError(test) THEN Bad(test)
                                         ELSE IF test[2] THEN Ok(Append(s, k)) ELSE Ok(s)
  BY ZenonT(30), <1>2, ResultFields DEF Tested
<1>5. QED
  BY Zenon, <1>1, <1>3, <1>4, Answers

(* Matching is n turns. *)
LEMMA MatchingTurns ==
  ASSUME NEW n \in Nat, NEW tests \in [1..n -> Tests]
  PROVE  \E f : IsMatching(f, n, tests) /\ Matching(tests) = f[n]
<1>. DEFINE S == {Ok(s) : s \in Seq(1..n)} \cup {Bad(Error("TypeMismatch"))}
            step == [x \in (1..n) \X S |-> Tested(x[2], tests[x[1]], x[1])]
<1>1. \A k \in 1..n, x \in S : Tested(x, tests[k], k) \in S
  <2>1. SUFFICES ASSUME NEW k \in 1..n, NEW x \in S
                 PROVE  Tested(x, tests[k], k) \in S
    BY Zenon
  <2>2. tests[k] \in Tests
    OBVIOUS
  <2>3. CASE x = Bad(Error("TypeMismatch"))
    <3>1. <<>> \in Seq(1..n)
      BY EmptySeq
    <3>2. QED
      BY Zenon, <2>3, <3>1, TestedIs
  <2>4. ASSUME NEW s \in Seq(1..n), x = Ok(s)
        PROVE  Tested(x, tests[k], k) \in S
    <3>1. Append(s, k) \in Seq(1..n)
      BY AppendProperties
    <3>2. /\ Tested(Ok(s), Boolean(TRUE), k) = Ok(Append(s, k))
          /\ Tested(Ok(s), Boolean(FALSE), k) = Ok(s)
          /\ Tested(Ok(s), Error("TypeMismatch"), k) = Bad(Error("TypeMismatch"))
      BY Zenon, TestedIs
    <3>3. \A test \in Tests : Tested(Ok(s), test, k) \in S
      BY Zenon, <3>1, <3>2 DEF Tests
    <3>4. QED
      BY Zenon, <2>2, <2>4, <3>3
  <2>5. QED
    BY Zenon, <2>3, <2>4
<1>2. Ok(<<>>) \in S
  <2>1. <<>> \in Seq(1..n)
    BY EmptySeq
  <2>2. QED
    BY Zenon, <2>1
<1>. HIDE DEF S
<1>3. step \in [(1..n) \X S -> S]
  BY <1>1
<1>4. \A k \in 1..n, x \in S : step[<<k, x>>] = Tested(x, tests[k], k)
  OBVIOUS
<1>. HIDE DEF step
<1>5. PICK f \in [0..n -> S] : IsLoop(f, n, Ok(<<>>), step)
  BY Zenon, <1>2, <1>3, LoopExists
<1>6. \A k \in 0..n : k # 0 => k \in 1..n /\ k - 1 \in 0..n
  OBVIOUS
<1>7. \A k \in 0..n : (IF k = 0 THEN Ok(<<>>) ELSE step[<<k, f[k - 1]>>])
                        = IF k = 0 THEN Ok(<<>>) ELSE Tested(f[k - 1], tests[k], k)
  BY Zenon, <1>4, <1>6
<1>8. IsMatching(f, n, tests)
  BY Zenon, <1>5, <1>7 DEF IsLoop, IsMatching
<1>9. Len(tests) = n
  BY Zenon, ListLength
<1>10. QED
  BY Zenon, <1>8, <1>9 DEF Matching, IsMatching, Tested

(* s has the numbers of the first k tests that are passed, in order. *)
Passed(s, k, n, tests) ==
  /\ s \in Seq(1..n)
  /\ \A p, q \in 1..Len(s) : p < q => s[p] < s[q]
  /\ \A p \in 1..Len(s) : s[p] \in 1..k /\ tests[s[p]] = Boolean(TRUE)
  /\ \A i \in 1..k : tests[i] = Boolean(TRUE) => \E p \in 1..Len(s) : s[p] = i

(* After k tests: none has failed, or one has. *)
PassedSoFar(x, k, n, tests) ==
  \/ x = Bad(Error("TypeMismatch")) /\ \E p \in 1..k : tests[p] = Error("TypeMismatch")
  \/ /\ \A p \in 1..k : tests[p] # Error("TypeMismatch")
     /\ \E s : x = Ok(s) /\ Passed(s, k, n, tests)

(* One number more. *)
LEMMA PassedMore ==
  ASSUME NEW n \in Nat, NEW tests, NEW k \in 1..n, NEW s, Passed(s, k - 1, n, tests),
         tests[k] = Boolean(TRUE)
  PROVE  Passed(Append(s, k), k, n, tests)
<1>. DEFINE u == Append(s, k)
            m == Len(s)
<1>1. s \in Seq(1..n)
  BY Zenon DEF Passed
<1>2. /\ u \in Seq(1..n) /\ m \in Nat /\ Len(u) = m + 1
      /\ \A p \in 1..m : u[p] = s[p]
      /\ u[m + 1] = k
  BY <1>1, AppendProperties, LenProperties
<1>3. /\ \A p, q \in 1..m : p < q => s[p] < s[q]
      /\ \A p \in 1..m : s[p] \in 1..(k - 1) /\ tests[s[p]] = Boolean(TRUE)
      /\ \A i \in 1..(k - 1) : tests[i] = Boolean(TRUE) => \E p \in 1..m : s[p] = i
  BY Zenon DEF Passed
<1>. HIDE DEF u, m
<1>4. /\ \A p \in 1..(m + 1) : p \in 1..m \/ p = m + 1
      /\ \A p \in 1..m : p \in 1..(m + 1) /\ ~(m + 1 < p)
      /\ m + 1 \in 1..(m + 1) /\ ~(m + 1 < m + 1)
      /\ \A i \in 1..k : i \in 1..(k - 1) \/ i = k
      /\ \A i \in 1..(k - 1) : i \in 1..k /\ i < k
      /\ k \in 1..k
  BY <1>2
<1>5. \A p, q \in 1..(m + 1) : p < q => u[p] < u[q]
  <2>1. SUFFICES ASSUME NEW p \in 1..(m + 1), NEW q \in 1..(m + 1), p < q
                 PROVE  u[p] < u[q]
    BY Zenon
  <2>2. p \in 1..m
    BY <1>4, <2>1
  <2>3. CASE q \in 1..m
    BY Zenon, <1>2, <1>3, <2>1, <2>2, <2>3
  <2>4. CASE q = m + 1
    <3>1. s[p] < k
      BY Zenon, <1>3, <1>4, <2>2
    <3>2. QED
      BY Zenon, <1>2, <2>2, <2>4, <3>1
  <2>5. QED
    BY Zenon, <1>4, <2>3, <2>4
<1>6. \A p \in 1..(m + 1) : u[p] \in 1..k /\ tests[u[p]] = Boolean(TRUE)
  <2>1. u[m + 1] \in 1..k /\ tests[u[m + 1]] = Boolean(TRUE)
    BY Zenon, <1>2, <1>4
  <2>2. \A p \in 1..m : u[p] \in 1..k /\ tests[u[p]] = Boolean(TRUE)
    BY Zenon, <1>2, <1>3, <1>4
  <2>3. QED
    BY Zenon, <1>4, <2>1, <2>2
<1>7. \A i \in 1..k : tests[i] = Boolean(TRUE) => \E p \in 1..(m + 1) : u[p] = i
  <2>1. SUFFICES ASSUME NEW i \in 1..k, tests[i] = Boolean(TRUE)
                 PROVE  \E p \in 1..(m + 1) : u[p] = i
    BY Zenon
  <2>2. CASE i = k
    BY Zenon, <1>2, <1>4, <2>2
  <2>3. CASE i \in 1..(k - 1)
    <3>1. PICK p \in 1..m : s[p] = i
      BY Zenon, <1>3, <2>1, <2>3
    <3>2. QED
      BY Zenon, <1>2, <1>4, <3>1
  <2>4. QED
    BY Zenon, <1>4, <2>2, <2>3
<1>8. QED
  BY Zenon, <1>2, <1>5, <1>6, <1>7 DEF Passed, u

(* A number that is left out. *)
LEMMA PassedSame ==
  ASSUME NEW n \in Nat, NEW tests, NEW k \in 1..n, NEW s, Passed(s, k - 1, n, tests),
         tests[k] # Boolean(TRUE)
  PROVE  Passed(s, k, n, tests)
<1>1. /\ \A i \in 1..k : i \in 1..(k - 1) \/ i = k
      /\ \A i \in 1..(k - 1) : i \in 1..k
  OBVIOUS
<1>2. QED
  BY Zenon, <1>1 DEF Passed

(* Every test keeps it so. *)
LEMMA PassedTurn ==
  ASSUME NEW n \in Nat, NEW tests \in [1..n -> Tests], NEW k \in 1..n, NEW x,
         PassedSoFar(x, k - 1, n, tests)
  PROVE  PassedSoFar(Tested(x, tests[k], k), k, n, tests)
<1>1. /\ \A p \in 1..(k - 1) : p \in 1..k
      /\ \A p \in 1..k : p \in 1..(k - 1) \/ p = k
      /\ k \in 1..k
  OBVIOUS
<1>2. tests[k] = Boolean(TRUE) \/ tests[k] = Boolean(FALSE) \/ tests[k] = Error("TypeMismatch")
  BY Zenon DEF Tests
<1>3. CASE x = Bad(Error("TypeMismatch")) /\ \E p \in 1..(k - 1) : tests[p] = Error("TypeMismatch")
  <2>1. <<>> \in Seq(1..n)
    BY EmptySeq
  <2>2. Tested(x, tests[k], k) = Bad(Error("TypeMismatch"))
    BY Zenon, <1>3, <2>1, TestedIs
  <2>3. QED
    BY Zenon, <1>1, <1>3, <2>2 DEF PassedSoFar
<1>4. ASSUME \A p \in 1..(k - 1) : tests[p] # Error("TypeMismatch"),
             NEW s, x = Ok(s), Passed(s, k - 1, n, tests)
      PROVE  PassedSoFar(Tested(x, tests[k], k), k, n, tests)
  <2>1. s \in Seq(1..n)
    BY Zenon, <1>4 DEF Passed
  <2>2. /\ Tested(x, Boolean(TRUE), k) = Ok(Append(s, k))
        /\ Tested(x, Boolean(FALSE), k) = Ok(s)
        /\ Tested(x, Error("TypeMismatch"), k) = Bad(Error("TypeMismatch"))
    BY Zenon, <1>4, <2>1, TestedIs
  <2>3. CASE tests[k] = Error("TypeMismatch")
    BY Zenon, <1>1, <2>2, <2>3 DEF PassedSoFar
  <2>4. CASE tests[k] = Boolean(TRUE)
    <3>1. Passed(Append(s, k), k, n, tests)
      BY Zenon, <1>4, <2>4, PassedMore
    <3>2. \A p \in 1..k : tests[p] # Error("TypeMismatch")
      BY Zenon, <1>1, <1>4, <2>4, Answers
    <3>3. QED
      BY Zenon, <2>2, <2>4, <3>1, <3>2 DEF PassedSoFar
  <2>5. CASE tests[k] = Boolean(FALSE)
    <3>1. Passed(s, k, n, tests)
      BY Zenon, <1>4, <2>5, PassedSame, Answers
    <3>2. \A p \in 1..k : tests[p] # Error("TypeMismatch")
      BY Zenon, <1>1, <1>4, <2>5, Answers
    <3>3. QED
      BY Zenon, <2>2, <2>5, <3>1, <3>2 DEF PassedSoFar
  <2>6. QED
    BY Zenon, <1>2, <2>3, <2>4, <2>5
<1>5. QED
  BY Zenon, <1>3, <1>4 DEF PassedSoFar

(* The loop finds the tests that are passed, or fails because some test does. *)
LEMMA MatchingFinds ==
  ASSUME NEW n \in Nat, NEW tests \in [1..n -> Tests]
  PROVE  PassedSoFar(Matching(tests), n, n, tests)
<1>1. PICK f : IsMatching(f, n, tests) /\ Matching(tests) = f[n]
  BY MatchingTurns
<1>2. \A k \in 0..n : f[k] = IF k = 0 THEN Ok(<<>>) ELSE Tested(f[k - 1], tests[k], k)
  BY Zenon, <1>1 DEF IsMatching
<1>. DEFINE P == {k \in 0..n : PassedSoFar(f[k], k, n, tests)}
<1>3. 0 \in 0..n /\ n \in 0..n /\ \A k \in 1..n : k \in 0..n /\ k # 0
  OBVIOUS
<1>4. 0 \in P
  <2>1. f[0] = Ok(<<>>)
    BY Zenon, <1>2, <1>3
  <2>2. <<>> \in Seq(1..n) /\ Len(<<>>) = 0 /\ 1..0 = {}
    BY EmptySeq
  <2>3. Passed(<<>>, 0, n, tests)
    BY Zenon, <2>2 DEF Passed
  <2>4. PassedSoFar(f[0], 0, n, tests)
    BY Zenon, <2>1, <2>2, <2>3 DEF PassedSoFar
  <2>5. QED
    BY Zenon, <1>3, <2>4
<1>5. ASSUME NEW k \in 1..n, k - 1 \in P
      PROVE  k \in P
  <2>. DEFINE x == f[k - 1]
  <2>1. PassedSoFar(x, k - 1, n, tests)
    BY Zenon, <1>5
  <2>2. f[k] = Tested(x, tests[k], k)
    BY Zenon, <1>2, <1>3
  <2>. HIDE DEF x
  <2>3. PassedSoFar(Tested(x, tests[k], k), k, n, tests)
    BY Zenon, <2>1, PassedTurn
  <2>4. QED
    BY Zenon, <1>3, <2>2, <2>3
<1>6. \A k \in 0..n : k \in P
  <2>. HIDE DEF P
  <2>1. QED
    BY Zenon, <1>4, <1>5, EveryTurn
<1>7. QED
  BY Zenon, <1>1, <1>3, <1>6

-----------------------------------------------------------------------------
(***************************************************************************)
(* Joins.                                                                  *)
(***************************************************************************)

(* ON holds, or does not, or fails. *)
LEMMA OnAnswers ==
  ASSUME NEW a \in Nat, NEW b \in Nat, NEW left_row \in [1..a -> Values],
         NEW right_row \in [1..b -> Values], NEW on \in {<<>>} \cup ((1..a) \X (1..b))
  PROVE  /\ OnHolds(left_row, right_row, on) \in Tests
         /\ OnHolds(left_row, right_row, on) = Boolean(TRUE) <=> Matches(left_row, right_row, on)
         /\ OnHolds(left_row, right_row, on) = Error("TypeMismatch") <=> Mismatches(left_row, right_row, on)
<1>1. CASE on = <<>>
  BY Zenon, <1>1, Answers DEF OnHolds, Tests, Matches, Mismatches
<1>2. CASE on # <<>>
  <2>. DEFINE v == left_row[on[1]]
              w == right_row[on[2]]
              c == compareValues(v, w)
  <2>1. on[1] \in 1..a /\ on[2] \in 1..b
    BY <1>2
  <2>2. v \in Values /\ w \in Values
    BY <2>1
  <2>3. OnHolds(left_row, right_row, on) = OrError(c, Boolean(c[2] = 0))
    BY Zenon, <1>2 DEF OnHolds
  <2>4. Matches(left_row, right_row, on) <=> Comparable(v, w) /\ Num(v) = Num(w)
    BY Zenon, <1>2, <2>2, TiesSame DEF Matches, Ties
  <2>5. Mismatches(left_row, right_row, on) <=> ~Comparable(v, w)
    BY Zenon, <1>2, <2>2, ComparableCompares DEF Mismatches
  <2>. HIDE DEF v, w
  <2>6. c = compareKeys(v, w)
    BY Zenon, <2>2, ValueTags DEF compareKeys, OrError
  <2>. HIDE DEF c
  <2>7. CASE Comparable(v, w)
    <3>1. c = Integer(Num(v) - Num(w))
      BY Zenon, <2>2, <2>6, <2>7, KeyCompares
    <3>2. ~IsError(c) /\ c[2] = Num(v) - Num(w)
      BY Zenon, <3>1, Tagged
    <3>3. (c[2] = 0) = (Num(v) = Num(w)) /\ (Num(v) = Num(w)) \in BOOLEAN
      <4>1. Num(v) \in Int /\ Num(w) \in Int
        BY Zenon, <2>2, ValueTags
      <4>2. QED
        BY <3>2, <4>1
    <3>4. OnHolds(left_row, right_row, on) = Boolean(c[2] = 0)
      BY Zenon, <2>3, <3>2 DEF OrError
    <3>5. QED
      BY Zenon, <2>4, <2>5, <2>7, <3>3, <3>4, Answers DEF Tests
  <2>8. CASE ~Comparable(v, w)
    <3>1. c = Error("TypeMismatch")
      BY Zenon, <2>2, <2>6, <2>8, KeyCompares
    <3>2. QED
      BY Zenon, <2>3, <2>4, <2>5, <2>8, <3>1, Tagged, Answers DEF OrError, Tests
  <2>9. QED
    BY Zenon, <2>7, <2>8
<1>3. QED
  BY Zenon, <1>1, <1>2

(* r numbers the right rows of b, in order; J has the numbers, R the rows they give. *)
Numbered(b, r, J, R, m) ==
  /\ r \in [1..Len(b) -> 0..m]
  /\ \A p, q \in 1..Len(b) : p < q => r[p] < r[q]
  /\ \A p \in 1..Len(b) : r[p] \in J /\ b[p] = R[r[p]]
  /\ \A k \in J : \E p \in 1..Len(b) : r[p] = k

(* l and r number the left and the right rows of s, for the first k left rows. *)
Listing(s, l, r, k, n, m, J, R) ==
  /\ l \in [1..Len(s) -> 1..n] /\ r \in [1..Len(s) -> 0..m]
  /\ \A p, q \in 1..Len(s) : p < q => l[p] <= l[q] /\ (l[p] = l[q] => r[p] < r[q])
  /\ \A p \in 1..Len(s) : l[p] \in 1..k /\ r[p] \in J[l[p]] /\ s[p] = R[l[p]][r[p]]
  /\ \A i \in 1..k : \A h \in J[i] : \E p \in 1..Len(s) : l[p] = i /\ r[p] = h

Listed(s, k, n, m, J, R) == \E l, r : Listing(s, l, r, k, n, m, J, R)

(* The rows of the next left row are added. *)
LEMMA ListedMore ==
  ASSUME NEW n \in Nat, NEW m \in Nat, NEW J, NEW R, NEW S, NEW k \in 1..n,
         NEW s \in Seq(S), NEW b \in Seq(S), NEW rb,
         Listed(s, k - 1, n, m, J, R), Numbered(b, rb, J[k], R[k], m)
  PROVE  Listed(s \o b, k, n, m, J, R)
<1>. DEFINE c == Len(s)
            d == Len(b)
            u == s \o b
<1>1. c \in Nat /\ d \in Nat
  BY LenProperties
<1>2. Len(u) = c + d /\ \A p \in 1..(c + d) : u[p] = IF p <= c THEN s[p] ELSE b[p - c]
  BY Zenon, ConcatProperties
<1>3. PICK l, r : Listing(s, l, r, k - 1, n, m, J, R)
  BY Zenon DEF Listed
<1>4. /\ l \in [1..c -> 1..n] /\ r \in [1..c -> 0..m]
      /\ \A p, q \in 1..c : p < q => l[p] <= l[q] /\ (l[p] = l[q] => r[p] < r[q])
      /\ \A p \in 1..c : l[p] \in 1..(k - 1) /\ r[p] \in J[l[p]] /\ s[p] = R[l[p]][r[p]]
      /\ \A i \in 1..(k - 1) : \A h \in J[i] : \E p \in 1..c : l[p] = i /\ r[p] = h
  BY Zenon, <1>3 DEF Listing
<1>5. /\ rb \in [1..d -> 0..m]
      /\ \A p, q \in 1..d : p < q => rb[p] < rb[q]
      /\ \A p \in 1..d : rb[p] \in J[k] /\ b[p] = R[k][rb[p]]
      /\ \A h \in J[k] : \E p \in 1..d : rb[p] = h
  BY Zenon DEF Numbered
<1>. DEFINE e == c + d
            L == [p \in 1..e |-> IF p <= c THEN l[p] ELSE k]
            Q == [p \in 1..e |-> IF p <= c THEN r[p] ELSE rb[p - c]]
<1>. HIDE DEF c, d, u
<1>6. /\ \A p \in 1..c : p \in 1..e /\ p <= c
      /\ \A p \in 1..d : c + p \in 1..e /\ ~(c + p <= c) /\ (c + p) - c = p
      /\ \A p \in 1..e : p \in 1..c \/ (~(p <= c) /\ p - c \in 1..d)
      /\ \A p, q \in 1..e : p < q /\ p \notin 1..c => q \notin 1..c /\ p - c < q - c
  BY <1>1
<1>7. Len(u) = e /\ \A p \in 1..e : u[p] = IF p <= c THEN s[p] ELSE b[p - c]
  BY Zenon, <1>2
<1>. HIDE DEF e
<1>8. \A p \in 1..c : p \in 1..e /\ L[p] = l[p] /\ Q[p] = r[p] /\ u[p] = s[p]
  BY Zenon, <1>6, <1>7
<1>9. \A p \in 1..d : c + p \in 1..e /\ L[c + p] = k /\ Q[c + p] = rb[p]
  BY Zenon, <1>6
<1>10. \A p \in 1..e : p \notin 1..c =>
         p - c \in 1..d /\ L[p] = k /\ Q[p] = rb[p - c] /\ u[p] = b[p - c]
  BY Zenon, <1>6, <1>7
<1>11. k <= k /\ k \in 1..k /\ k \in 1..n /\ \A i \in 1..k : i = k \/ i \in 1..(k - 1)
  OBVIOUS
<1>12. \A i \in 1..(k - 1) : i \in 1..k /\ i <= k /\ i # k
  OBVIOUS
<1>13. L \in [1..e -> 1..n] /\ Q \in [1..e -> 0..m]
  <2>1. \A p \in 1..e : (IF p <= c THEN l[p] ELSE k) \in 1..n
    BY Zenon, <1>4, <1>6, <1>11
  <2>2. \A p \in 1..e : (IF p <= c THEN r[p] ELSE rb[p - c]) \in 0..m
    BY Zenon, <1>4, <1>5, <1>6
  <2>3. QED
    BY Zenon, <2>1, <2>2
<1>. HIDE DEF L, Q
<1>14. ASSUME NEW p \in 1..e, NEW q \in 1..e, p < q
       PROVE  L[p] <= L[q] /\ (L[p] = L[q] => Q[p] < Q[q])
  <2>1. CASE p \in 1..c /\ q \in 1..c
    BY Zenon, <1>4, <1>8, <1>14, <2>1
  <2>2. CASE p \in 1..c /\ q \notin 1..c
    <3>1. L[p] = l[p] /\ l[p] \in 1..(k - 1) /\ L[q] = k
      BY Zenon, <1>4, <1>8, <1>10, <2>2
    <3>2. QED
      BY Zenon, <1>12, <3>1
  <2>3. CASE p \notin 1..c
    <3>1. q \notin 1..c /\ p - c < q - c
      BY Zenon, <1>6, <1>14, <2>3
    <3>2. /\ p - c \in 1..d /\ q - c \in 1..d
          /\ L[p] = k /\ L[q] = k /\ Q[p] = rb[p - c] /\ Q[q] = rb[q - c]
      BY Zenon, <1>10, <2>3, <3>1
    <3>3. rb[p - c] < rb[q - c]
      BY Zenon, <1>5, <3>1, <3>2
    <3>4. QED
      BY Zenon, <1>11, <3>2, <3>3
  <2>4. QED
    BY Zenon, <2>1, <2>2, <2>3
<1>15. ASSUME NEW p \in 1..e
       PROVE  L[p] \in 1..k /\ Q[p] \in J[L[p]] /\ u[p] = R[L[p]][Q[p]]
  <2>1. CASE p \in 1..c
    BY Zenon, <1>4, <1>8, <1>12, <2>1
  <2>2. CASE p \notin 1..c
    <3>1. p - c \in 1..d /\ L[p] = k /\ Q[p] = rb[p - c] /\ u[p] = b[p - c]
      BY Zenon, <1>10, <2>2
    <3>2. rb[p - c] \in J[k] /\ b[p - c] = R[k][rb[p - c]]
      BY Zenon, <1>5, <3>1
    <3>3. QED
      BY Zenon, <1>11, <3>1, <3>2
  <2>3. QED
    BY Zenon, <2>1, <2>2
<1>16. ASSUME NEW i \in 1..k, NEW h \in J[i]
       PROVE  \E p \in 1..e : L[p] = i /\ Q[p] = h
  <2>1. CASE i = k
    <3>1. PICK p \in 1..d : rb[p] = h
      BY Zenon, <1>5, <1>16, <2>1
    <3>2. QED
      BY Zenon, <1>9, <2>1, <3>1
  <2>2. CASE i \in 1..(k - 1)
    <3>1. PICK p \in 1..c : l[p] = i /\ r[p] = h
      BY ZenonT(30), <1>4, <1>16, <2>2
    <3>2. QED
      BY Zenon, <1>8, <3>1
  <2>3. QED
    BY Zenon, <1>11, <2>1, <2>2
<1>17. Listing(u, L, Q, k, n, m, J, R)
  BY ZenonT(30), <1>7, <1>13, <1>14, <1>15, <1>16 DEF Listing
<1>18. QED
  BY Zenon, <1>17 DEF Listed, u

(* The right rows that a left row joins, 0 standing for the NULLs; and the rows it gives. *)
JoinsWith(tests, join_type, m) ==
  {k \in 0..m : \/ k \in 1..m /\ tests[k] = Boolean(TRUE)
                \/ k = 0 /\ join_type = "left" /\ \A h \in 1..m : tests[h] # Boolean(TRUE)}

RowsWith(left_row, right, width, m) ==
  [k \in 0..m |-> left_row \o (IF k = 0 THEN [c \in 1..width |-> Null] ELSE right[k])]

Gives(x, tests, S, J, R, m) ==
  \/ x = Bad(Error("TypeMismatch")) /\ \E k \in 1..m : tests[k] = Error("TypeMismatch")
  \/ /\ \A k \in 1..m : tests[k] # Error("TypeMismatch")
     /\ \E b \in Seq(S) : x = Ok(b) /\ \E r : Numbered(b, r, J, R, m)

(* Some right row matches. *)
LEMMA MatchesNumbered ==
  ASSUME NEW m \in Nat, NEW tests, NEW join_type, NEW s, Passed(s, m, m, tests),
         ~(join_type = "left" /\ s = <<>>), NEW S, NEW R \in [0..m -> S]
  PROVE  LET b == [k \in DOMAIN s |-> R[s[k]]]
         IN  b \in Seq(S) /\ Numbered(b, s, JoinsWith(tests, join_type, m), R, m)
<1>. DEFINE b == [k \in DOMAIN s |-> R[s[k]]]
            J == JoinsWith(tests, join_type, m)
<1>1. /\ s \in Seq(1..m)
      /\ \A p, q \in 1..Len(s) : p < q => s[p] < s[q]
      /\ \A p \in 1..Len(s) : s[p] \in 1..m /\ tests[s[p]] = Boolean(TRUE)
      /\ \A i \in 1..m : tests[i] = Boolean(TRUE) => \E p \in 1..Len(s) : s[p] = i
  BY Zenon DEF Passed
<1>2. Len(s) \in Nat /\ DOMAIN s = 1..Len(s) /\ s \in [1..Len(s) -> 1..m]
  BY <1>1, LenProperties
<1>3. \A k \in 1..m : k \in 0..m /\ k # 0
  OBVIOUS
<1>4. b \in [1..Len(s) -> S] /\ \A p \in 1..Len(s) : b[p] = R[s[p]]
  BY Zenon, <1>1, <1>2, <1>3
<1>5. b \in Seq(S) /\ Len(b) = Len(s)
  BY Zenon, <1>2, <1>4, ListLength
<1>. HIDE DEF b
<1>6. s \in [1..Len(s) -> 0..m]
  BY Zenon, <1>2, <1>3
<1>7. \A p \in 1..Len(s) : s[p] \in J
  BY Zenon, <1>1, <1>3 DEF JoinsWith
<1>8. ASSUME NEW k \in J
      PROVE  \E p \in 1..Len(s) : s[p] = k
  <2>1. CASE k \in 1..m /\ tests[k] = Boolean(TRUE)
    BY Zenon, <1>1, <2>1
  <2>2. CASE k = 0 /\ join_type = "left" /\ \A h \in 1..m : tests[h] # Boolean(TRUE)
    <3>1. 1..Len(s) = {}
      BY Zenon, <1>1, <2>2
    <3>2. s = <<>>
      BY <1>1, <1>2, <3>1, EmptySeq
    <3>3. QED
      BY Zenon, <2>2, <3>2
  <2>3. QED
    BY Zenon, <2>1, <2>2 DEF JoinsWith
<1>9. Numbered(b, s, J, R, m)
  BY Zenon, <1>1, <1>4, <1>5, <1>6, <1>7, <1>8 DEF Numbered
<1>10. QED
  BY Zenon, <1>5, <1>9 DEF b

(* No right row matches, and the NULLs take their place. *)
LEMMA NullsNumbered ==
  ASSUME NEW m \in Nat, NEW tests, Passed(<<>>, m, m, tests), NEW S, NEW R \in [0..m -> S]
  PROVE  /\ <<R[0]>> \in Seq(S)
         /\ Numbered(<<R[0]>>, <<0>>, JoinsWith(tests, "left", m), R, m)
<1>. DEFINE b == <<R[0]>>
            z == <<0>>
            J == JoinsWith(tests, "left", m)
<1>1. 0 \in 0..m /\ R[0] \in S
  OBVIOUS
<1>2. b \in Seq(S) /\ Len(b) = 1 /\ b[1] = R[0] /\ z[1] = 0 /\ z \in [1..1 -> 0..m]
  BY <1>1
<1>3. 1..Len(<<>>) = {}
  OBVIOUS
<1>4. \A h \in 1..m : tests[h] # Boolean(TRUE)
  BY Zenon, <1>3 DEF Passed
<1>5. 0 \in J /\ \A k \in J : k = 0
  BY Zenon, <1>1, <1>4 DEF JoinsWith
<1>. HIDE DEF b, z, J
<1>6. /\ \A p \in 1..1 : p = 1
      /\ \A p, q \in 1..1 : ~(p < q)
      /\ 1 \in 1..1
  OBVIOUS
<1>7. Numbered(b, z, J, R, m)
  BY Zenon, <1>2, <1>5, <1>6 DEF Numbered
<1>8. QED
  BY Zenon, <1>2, <1>7 DEF b, z, J

(* JoinRow gives the rows of one left row, or its first error. *)
LEMMA JoinRowGives ==
  ASSUME NEW m \in Nat, NEW left_row, NEW right, DOMAIN right = 1..m, NEW join_type, NEW on,
         NEW width, NEW S,
         NEW tests \in [1..m -> Tests], \A k \in 1..m : tests[k] = OnHolds(left_row, right[k], on),
         RowsWith(left_row, right, width, m) \in [0..m -> S]
  PROVE  Gives(JoinRow(left_row, right, join_type, on, width), tests, S,
               JoinsWith(tests, join_type, m), RowsWith(left_row, right, width, m), m)
<1>. DEFINE R == RowsWith(left_row, right, width, m)
            J == JoinsWith(tests, join_type, m)
            hits == Matching(tests)
            nulls == [k \in 1..width |-> Null]
            x == JoinRow(left_row, right, join_type, on, width)
<1>1. tests = [k \in DOMAIN right |-> OnHolds(left_row, right[k], on)]
  BY Zenon
<1>2. x = IF hits.error # "" THEN hits
          ELSE IF join_type = "left" /\ hits.items = <<>> THEN Ok(<<left_row \o nulls>>)
          ELSE Ok([k \in DOMAIN hits.items |-> left_row \o right[hits.items[k]]])
  BY Zenon, <1>1 DEF JoinRow
<1>3. PassedSoFar(hits, m, m, tests)
  BY Zenon, MatchingFinds
<1>4. R[0] = left_row \o nulls /\ \A k \in 1..m : R[k] = left_row \o right[k]
  <2>1. 0 \in 0..m /\ \A k \in 1..m : k \in 0..m /\ k # 0
    OBVIOUS
  <2>2. QED
    BY Zenon, <2>1 DEF RowsWith
<1>5. R \in [0..m -> S]
  BY Zenon
<1>. HIDE DEF R, J, hits, nulls, x
<1>6. CASE hits = Bad(Error("TypeMismatch")) /\ \E p \in 1..m : tests[p] = Error("TypeMismatch")
  <2>1. hits.error # ""
    BY Zenon, <1>6, ResultFields
  <2>2. QED
    BY Zenon, <1>2, <1>6, <2>1 DEF Gives, x, R, J
<1>7. ASSUME \A p \in 1..m : tests[p] # Error("TypeMismatch"),
             NEW s, hits = Ok(s), Passed(s, m, m, tests)
      PROVE  Gives(x, tests, S, J, R, m)
  <2>1. hits.error = "" /\ hits.items = s
    BY Zenon, <1>7, ResultFields
  <2>2. CASE join_type = "left" /\ s = <<>>
    <3>1. x = Ok(<<R[0]>>)
      BY Zenon, <1>2, <1>4, <2>1, <2>2
    <3>2. Passed(<<>>, m, m, tests) /\ J = JoinsWith(tests, "left", m)
      BY Zenon, <1>7, <2>2 DEF J
    <3>3. <<R[0]>> \in Seq(S) /\ Numbered(<<R[0]>>, <<0>>, J, R, m)
      BY Zenon, <1>5, <3>2, NullsNumbered
    <3>4. QED
      BY Zenon, <1>7, <3>1, <3>3 DEF Gives
  <2>3. CASE ~(join_type = "left" /\ s = <<>>)
    <3>. DEFINE b == [k \in DOMAIN s |-> R[s[k]]]
    <3>1. b \in Seq(S) /\ Numbered(b, s, J, R, m)
      BY Zenon, <1>5, <1>7, <2>3, MatchesNumbered DEF J
    <3>2. \A k \in DOMAIN s : s[k] \in 1..m
      <4>1. s \in Seq(1..m)
        BY Zenon, <1>7 DEF Passed
      <4>2. QED
        BY <4>1, ElementOfSeq, LenProperties
    <3>3. b = [k \in DOMAIN s |-> left_row \o right[s[k]]]
      BY Zenon, <1>4, <3>2
    <3>4. x = Ok(b)
      BY Zenon, <1>2, <2>1, <2>3, <3>3
    <3>. HIDE DEF b
    <3>5. QED
      BY Zenon, <1>7, <3>1, <3>4 DEF Gives
  <2>4. QED
    BY Zenon, <2>2, <2>3
<1>8. QED
  BY Zenon, <1>3, <1>6, <1>7 DEF PassedSoFar, x, J, R

(* joined[k] is the state after the first k left rows. *)
Joined(x, rows) == Unless(x, Unless(rows, Ok(x.items \o rows.items)))

IsJoining(f, n, given) ==
  f = [k \in 0..n |-> IF k = 0 THEN Ok(<<>>) ELSE Joined(f[k - 1], given[k])]

JoinsTo(x, n, given) == \E f : IsJoining(f, n, given) /\ x = f[n]

JoinStates(S) == {Ok(s) : s \in Seq(S)} \cup {Bad(Error("TypeMismatch"))}

(* What one left row does. *)
LEMMA JoinedIs ==
  ASSUME NEW S, NEW s \in Seq(S), NEW b \in Seq(S)
  PROVE  /\ Joined(Ok(s), Ok(b)) = Ok(s \o b)
         /\ Joined(Ok(s), Bad(Error("TypeMismatch"))) = Bad(Error("TypeMismatch"))
         /\ \A x : Joined(Bad(Error("TypeMismatch")), x) = Bad(Error("TypeMismatch"))
<1>1. Ok(s).items = s /\ Ok(b).items = b
  BY Zenon, ResultFields
<1>2. \A x : Joined(Bad(Error("TypeMismatch")), x) = Bad(Error("TypeMismatch"))
  BY Zenon, ResultFields DEF Joined
<1>3. \A x : Joined(Ok(s), x) = Unless(x, Ok(s \o x.items))
  BY Zenon, <1>1, ResultFields DEF Joined
<1>4. Joined(Ok(s), Ok(b)) = Ok(s \o b)
  <2>1. Joined(Ok(s), Ok(b)) = Unless(Ok(b), Ok(s \o b))
    BY Zenon, <1>1, <1>3
  <2>2. QED
    BY Zenon, <2>1, ResultFields
<1>5. Joined(Ok(s), Bad(Error("TypeMismatch"))) = Bad(Error("TypeMismatch"))
  BY Zenon, <1>3, ResultFields
<1>6. QED
  BY Zenon, <1>2, <1>4, <1>5

(* A turn of the join leads from a state to a state. *)
LEMMA JoinedCloses ==
  ASSUME NEW S, NEW x \in JoinStates(S), NEW rows \in JoinStates(S)
  PROVE  Joined(x, rows) \in JoinStates(S)
<1>1. <<>> \in Seq(S)
  BY EmptySeq
<1>2. CASE x = Bad(Error("TypeMismatch"))
  BY Zenon, <1>1, <1>2, JoinedIs DEF JoinStates
<1>3. ASSUME NEW s \in Seq(S), x = Ok(s), rows = Bad(Error("TypeMismatch"))
      PROVE  Joined(x, rows) \in JoinStates(S)
  BY Zenon, <1>1, <1>3, JoinedIs DEF JoinStates
<1>4. ASSUME NEW s \in Seq(S), x = Ok(s), NEW b \in Seq(S), rows = Ok(b)
      PROVE  Joined(x, rows) \in JoinStates(S)
  <2>1. s \o b \in Seq(S)
    BY Zenon, ConcatProperties
  <2>2. Joined(Ok(s), Ok(b)) = Ok(s \o b)
    BY Zenon, JoinedIs
  <2>3. Ok(s \o b) \in JoinStates(S)
    BY Zenon, <2>1 DEF JoinStates
  <2>4. QED
    BY Zenon, <1>4, <2>2, <2>3
<1>5. QED
  BY Zenon, <1>2, <1>3, <1>4 DEF JoinStates

(* executeJoinSource is that loop. *)
LEMMA JoinTurns ==
  ASSUME NEW n \in Nat, NEW S, NEW left, Len(left) = n, NEW right, NEW join_type, NEW on, NEW width,
         NEW given \in [1..n -> JoinStates(S)],
         \A k \in 1..n : given[k] = JoinRow(left[k], right, join_type, on, width)
  PROVE  JoinsTo(executeJoinSource(left, right, join_type, on, width), n, given)
<1>. DEFINE T == JoinStates(S)
            step == [x \in (1..n) \X T |-> Joined(x[2], given[x[1]])]
<1>1. Ok(<<>>) \in T
  <2>1. <<>> \in Seq(S)
    BY EmptySeq
  <2>2. QED
    BY Zenon, <2>1 DEF JoinStates
<1>2. \A k \in 1..n, x \in T : Joined(x, given[k]) \in T
  BY Zenon, JoinedCloses
<1>. HIDE DEF T
<1>3. step \in [(1..n) \X T -> T]
  BY <1>2
<1>4. \A k \in 1..n, x \in T : step[<<k, x>>] = Joined(x, given[k])
  OBVIOUS
<1>. HIDE DEF step
<1>5. PICK f \in [0..n -> T] : IsLoop(f, n, Ok(<<>>), step)
  BY Zenon, <1>1, <1>3, LoopExists
<1>6. \A k \in 0..n : k # 0 => k \in 1..n /\ k - 1 \in 0..n
  OBVIOUS
<1>7. \A k \in 0..n : (IF k = 0 THEN Ok(<<>>) ELSE step[<<k, f[k - 1]>>])
                        = IF k = 0 THEN Ok(<<>>) ELSE Joined(f[k - 1], given[k])
  BY Zenon, <1>4, <1>6
<1>8. IsJoining(f, n, given)
  BY Zenon, <1>5, <1>7 DEF IsLoop, IsJoining
<1>. DEFINE G(g) == [k \in 0..n |->
                       IF k = 0 THEN Ok(<<>>)
                       ELSE Joined(g[k - 1], JoinRow(left[k], right, join_type, on, width))]
<1>9. \A g : G(g) = [k \in 0..n |-> IF k = 0 THEN Ok(<<>>) ELSE Joined(g[k - 1], given[k])]
  BY Zenon, <1>6
<1>10. \A g : (g = G(g)) <=> IsJoining(g, n, given)
  BY Zenon, <1>9 DEF IsJoining
<1>11. executeJoinSource(left, right, join_type, on, width) = (CHOOSE g : g = G(g))[n]
  BY Zenon DEF executeJoinSource, Joined
<1>. HIDE DEF G
<1>12. LET h == CHOOSE g : g = G(g) IN IsJoining(h, n, given)
  BY Zenon, <1>8, <1>10
<1>13. QED
  BY Zenon, <1>11, <1>12 DEF JoinsTo

(* After k left rows: no pair has failed, or one has. *)
JoinedSoFar(x, k, n, m, S, tests, J, R) ==
  \/ /\ x = Bad(Error("TypeMismatch"))
     /\ \E i \in 1..k : \E h \in 1..m : tests[i][h] = Error("TypeMismatch")
  \/ /\ \A i \in 1..k : \A h \in 1..m : tests[i][h] # Error("TypeMismatch")
     /\ \E s \in Seq(S) : x = Ok(s) /\ Listed(s, k, n, m, J, R)

(* One more left row adds its pairs after the others. *)
LEMMA JoinTurn ==
  ASSUME NEW n \in Nat, NEW m \in Nat, NEW S, NEW tests, NEW J, NEW R, NEW k \in 1..n,
         NEW x, JoinedSoFar(x, k - 1, n, m, S, tests, J, R),
         NEW rows, Gives(rows, tests[k], S, J[k], R[k], m)
  PROVE  JoinedSoFar(Joined(x, rows), k, n, m, S, tests, J, R)
<1>1. /\ \A p \in 1..(k - 1) : p \in 1..k
      /\ \A p \in 1..k : p \in 1..(k - 1) \/ p = k
      /\ k \in 1..k
  OBVIOUS
<1>2. <<>> \in Seq(S)
  BY EmptySeq
<1>3. CASE /\ x = Bad(Error("TypeMismatch"))
           /\ \E i \in 1..(k - 1) : \E h \in 1..m : tests[i][h] = Error("TypeMismatch")
  <2>1. Joined(x, rows) = Bad(Error("TypeMismatch"))
    BY Zenon, <1>2, <1>3, JoinedIs
  <2>2. QED
    BY Zenon, <1>1, <1>3, <2>1 DEF JoinedSoFar
<1>4. ASSUME \A i \in 1..(k - 1) : \A h \in 1..m : tests[i][h] # Error("TypeMismatch"),
             NEW s \in Seq(S), x = Ok(s), Listed(s, k - 1, n, m, J, R)
      PROVE  JoinedSoFar(Joined(x, rows), k, n, m, S, tests, J, R)
  <2>1. CASE /\ rows = Bad(Error("TypeMismatch"))
             /\ \E h \in 1..m : tests[k][h] = Error("TypeMismatch")
    <3>1. Joined(x, rows) = Bad(Error("TypeMismatch"))
      BY Zenon, <1>2, <1>4, <2>1, JoinedIs
    <3>2. QED
      BY Zenon, <1>1, <2>1, <3>1 DEF JoinedSoFar
  <2>2. ASSUME \A h \in 1..m : tests[k][h] # Error("TypeMismatch"),
               NEW b \in Seq(S), rows = Ok(b), NEW r, Numbered(b, r, J[k], R[k], m)
        PROVE  JoinedSoFar(Joined(x, rows), k, n, m, S, tests, J, R)
    <3>1. Joined(Ok(s), Ok(b)) = Ok(s \o b)
      BY Zenon, JoinedIs
    <3>2. s \o b \in Seq(S)
      BY Zenon, ConcatProperties
    <3>3. Listed(s \o b, k, n, m, J, R)
      BY Zenon, <1>4, <2>2, ListedMore
    <3>4. \A i \in 1..k : \A h \in 1..m : tests[i][h] # Error("TypeMismatch")
      BY Zenon, <1>1, <1>4, <2>2
    <3>5. Joined(x, rows) = Ok(s \o b)
      BY Zenon, <1>4, <2>2, <3>1
    <3>6. QED
      BY Zenon, <3>2, <3>3, <3>4, <3>5 DEF JoinedSoFar
  <2>3. QED
    BY Zenon, <2>1, <2>2 DEF Gives
<1>5. QED
  BY Zenon, <1>3, <1>4 DEF JoinedSoFar

(* The loop over the left rows. *)
LEMMA JoiningLists ==
  ASSUME NEW n \in Nat, NEW m \in Nat, NEW S, NEW tests, NEW J, NEW R, NEW given,
         \A k \in 1..n : Gives(given[k], tests[k], S, J[k], R[k], m),
         NEW f, IsJoining(f, n, given)
  PROVE  JoinedSoFar(f[n], n, n, m, S, tests, J, R)
<1>1. \A k \in 0..n : f[k] = IF k = 0 THEN Ok(<<>>) ELSE Joined(f[k - 1], given[k])
  BY Zenon DEF IsJoining
<1>. DEFINE P == {k \in 0..n : JoinedSoFar(f[k], k, n, m, S, tests, J, R)}
<1>2. 0 \in 0..n /\ n \in 0..n /\ \A k \in 1..n : k \in 0..n /\ k # 0
  OBVIOUS
<1>3. 0 \in P
  <2>1. f[0] = Ok(<<>>)
    BY Zenon, <1>1, <1>2
  <2>2. <<>> \in Seq(S) /\ 1..Len(<<>>) = {} /\ 1..0 = {}
    BY EmptySeq
  <2>. DEFINE z == <<>>
  <2>3. z \in [1..Len(z) -> 1..n] /\ z \in [1..Len(z) -> 0..m] /\ 1..Len(z) = {}
    BY <2>2
  <2>. HIDE DEF z
  <2>4. Listing(z, z, z, 0, n, m, J, R)
    BY Zenon, <2>2, <2>3 DEF Listing
  <2>5. Listed(<<>>, 0, n, m, J, R)
    BY Zenon, <2>4 DEF Listed, z
  <2>6. JoinedSoFar(f[0], 0, n, m, S, tests, J, R)
    BY Zenon, <2>1, <2>2, <2>5 DEF JoinedSoFar
  <2>7. QED
    BY Zenon, <1>2, <2>6
<1>4. ASSUME NEW k \in 1..n, k - 1 \in P
      PROVE  k \in P
  <2>. DEFINE x == f[k - 1]
  <2>1. JoinedSoFar(x, k - 1, n, m, S, tests, J, R)
    BY Zenon, <1>4
  <2>2. f[k] = Joined(x, given[k])
    BY Zenon, <1>1, <1>2
  <2>. HIDE DEF x
  <2>3. JoinedSoFar(Joined(x, given[k]), k, n, m, S, tests, J, R)
    BY Zenon, <2>1, JoinTurn
  <2>4. QED
    BY Zenon, <1>2, <2>2, <2>3
<1>5. \A k \in 0..n : k \in P
  <2>. HIDE DEF P
  <2>1. QED
    BY Zenon, <1>3, <1>4, EveryTurn
<1>6. QED
  BY Zenon, <1>2, <1>5

(* What a join is given: rows of one width on each side, and ON over their columns. *)
IsJoin(left, right, join_type, on, width) ==
  /\ width \in Nat /\ right \in Seq([1..width -> Values]) /\ join_type \in {"inner", "left"}
  /\ \E w \in Nat : /\ left \in Seq([1..w -> Values])
                    /\ on \in {<<>>} \cup ((1..w) \X (1..width))

(* The rows it can return. *)
LEMMA RowsWithValues ==
  ASSUME NEW w \in Nat, NEW width \in Nat, NEW m \in Nat, NEW left_row \in [1..w -> Values], NEW right,
         \A k \in 1..m : right[k] \in [1..width -> Values]
  PROVE  RowsWith(left_row, right, width, m) \in [0..m -> Seq(Values)]
<1>. DEFINE nulls == [c \in 1..width |-> Null]
<1>1. Null \in Values
  BY Zenon DEF Values
<1>2. nulls \in [1..width -> Values]
  BY Zenon, <1>1
<1>3. \A s \in [1..width -> Values] : left_row \o s \in Seq(Values)
  <2>1. SUFFICES ASSUME NEW s \in [1..width -> Values] PROVE left_row \o s \in Seq(Values)
    BY Zenon
  <2>2. left_row \in Seq(Values) /\ s \in Seq(Values)
    BY Zenon, ListLength
  <2>3. QED
    BY Zenon, <2>2, ConcatProperties
<1>. HIDE DEF nulls
<1>4. \A k \in 0..m : k = 0 \/ k \in 1..m
  OBVIOUS
<1>5. \A k \in 0..m : left_row \o (IF k = 0 THEN nulls ELSE right[k]) \in Seq(Values)
  BY Zenon, <1>2, <1>3, <1>4
<1>6. QED
  BY Zenon, <1>5 DEF RowsWith, nulls

(* The rows of one left row are a state of the join. *)
LEMMA GivesStates ==
  ASSUME NEW x, NEW tests, NEW S, NEW J, NEW R, NEW m, Gives(x, tests, S, J, R, m)
  PROVE  x \in JoinStates(S)
BY Zenon DEF Gives, JoinStates

(***************************************************************************)
(* executeJoinSource on any two row sets: the rows are those of the pairs  *)
(* that ON accepts and, in a LEFT JOIN, of the left rows that match none,  *)
(* each once, by left row and then by right row; it fails exactly when ON  *)
(* fails on some pair.                                                     *)
(***************************************************************************)
THEOREM JoinLists ==
  ASSUME NEW left, NEW right, NEW join_type, NEW on, NEW width,
         IsJoin(left, right, join_type, on, width)
  PROVE  JoinAgrees(left, right, join_type, on, width)
<1>. DEFINE n == Len(left)
            m == Len(right)
            S == Seq(Values)
            tests == [i \in 1..n |-> [k \in 1..m |-> OnHolds(left[i], right[k], on)]]
            J == [i \in 1..n |-> JoinsWith(tests[i], join_type, m)]
            R == [i \in 1..n |-> RowsWith(left[i], right, width, m)]
            given == [i \in 1..n |-> JoinRow(left[i], right, join_type, on, width)]
            result == executeJoinSource(left, right, join_type, on, width)
<1>1. PICK w \in Nat : left \in Seq([1..w -> Values]) /\ on \in {<<>>} \cup ((1..w) \X (1..width))
  BY Zenon DEF IsJoin
<1>2. width \in Nat /\ right \in Seq([1..width -> Values])
  BY Zenon DEF IsJoin
<1>3. n \in Nat /\ DOMAIN left = 1..n /\ \A i \in 1..n : left[i] \in [1..w -> Values]
  BY Zenon, <1>1, LenProperties, ElementOfSeq
<1>4. m \in Nat /\ DOMAIN right = 1..m /\ \A k \in 1..m : right[k] \in [1..width -> Values]
  BY Zenon, <1>2, LenProperties, ElementOfSeq
<1>5. \A i \in 1..n, k \in 1..m : OnHolds(left[i], right[k], on) \in Tests
  BY Zenon, <1>1, <1>2, <1>3, <1>4, OnAnswers
<1>6. /\ \A i \in 1..n : \A k \in 1..m : tests[i][k] = OnHolds(left[i], right[k], on)
      /\ \A i \in 1..n : tests[i] \in [1..m -> Tests]
  BY Zenon, <1>5
<1>7. /\ \A i \in 1..n : J[i] = JoinsWith(tests[i], join_type, m)
      /\ \A i \in 1..n : R[i] = RowsWith(left[i], right, width, m)
      /\ \A i \in 1..n : given[i] = JoinRow(left[i], right, join_type, on, width)
  BY Zenon
<1>8. given = [i \in 1..n |-> given[i]]
  BY Zenon
<1>. HIDE DEF n, m, S, tests, J, R, given, result
<1>9. ASSUME NEW i \in 1..n
      PROVE  Gives(given[i], tests[i], S, J[i], R[i], m)
  <2>1. RowsWith(left[i], right, width, m) \in [0..m -> S]
    BY Zenon, <1>2, <1>3, <1>4, RowsWithValues DEF S
  <2>2. Gives(JoinRow(left[i], right, join_type, on, width), tests[i], S,
              JoinsWith(tests[i], join_type, m), RowsWith(left[i], right, width, m), m)
    BY Zenon, <1>4, <1>6, <2>1, JoinRowGives
  <2>3. QED
    BY Zenon, <1>7, <2>2
<1>10. given \in [1..n -> JoinStates(S)]
  <2>1. \A i \in 1..n : given[i] \in JoinStates(S)
    BY Zenon, <1>9, GivesStates
  <2>2. QED
    BY Zenon, <1>8, <2>1
<1>11. PICK f : IsJoining(f, n, given) /\ result = f[n]
  <2>1. Len(left) = n
    BY Zenon DEF n
  <2>2. \A k \in 1..n : given[k] = JoinRow(left[k], right, join_type, on, width)
    BY Zenon, <1>7
  <2>3. JoinsTo(executeJoinSource(left, right, join_type, on, width), n, given)
    BY Zenon, <1>3, <1>10, <2>1, <2>2, JoinTurns
  <2>4. QED
    BY Zenon, <2>3 DEF JoinsTo, result
<1>12. JoinedSoFar(result, n, n, m, S, tests, J, R)
  BY Zenon, <1>3, <1>4, <1>9, <1>11, JoiningLists
<1>13. \A i \in 1..n, k \in 1..m :
         /\ Mismatches(left[i], right[k], on) <=> tests[i][k] = Error("TypeMismatch")
         /\ Matches(left[i], right[k], on) <=> tests[i][k] = Boolean(TRUE)
  <2>1. SUFFICES ASSUME NEW i \in 1..n, NEW k \in 1..m
                 PROVE  /\ Mismatches(left[i], right[k], on) <=> tests[i][k] = Error("TypeMismatch")
                        /\ Matches(left[i], right[k], on) <=> tests[i][k] = Boolean(TRUE)
    BY Zenon
  <2>2. left[i] \in [1..w -> Values] /\ right[k] \in [1..width -> Values]
    BY Zenon, <1>3, <1>4
  <2>3. /\ OnHolds(left[i], right[k], on) = Boolean(TRUE) <=> Matches(left[i], right[k], on)
        /\ OnHolds(left[i], right[k], on) = Error("TypeMismatch") <=> Mismatches(left[i], right[k], on)
    BY Zenon, <1>1, <1>2, <2>2, OnAnswers
  <2>4. tests[i][k] = OnHolds(left[i], right[k], on)
    BY Zenon, <1>6
  <2>5. QED
    BY Zenon, <2>3, <2>4
<1>14. \A i \in 1..n : \A k \in 0..m : Joins(i, k, left, right, join_type, on) <=> k \in J[i]
  <2>1. SUFFICES ASSUME NEW i \in 1..n, NEW k \in 0..m
                 PROVE  Joins(i, k, left, right, join_type, on) <=> k \in J[i]
    BY Zenon
  <2>2. \A h \in 1..m : Matches(left[i], right[h], on) <=> tests[i][h] = Boolean(TRUE)
    BY Zenon, <1>13
  <2>3. k \in J[i] <=> \/ k \in 1..m /\ tests[i][k] = Boolean(TRUE)
                      \/ /\ k = 0 /\ join_type = "left"
                         /\ \A h \in 1..m : tests[i][h] # Boolean(TRUE)
    BY Zenon, <1>7 DEF JoinsWith
  <2>4. Joins(i, k, left, right, join_type, on)
          <=> \/ k \in 1..m /\ Matches(left[i], right[k], on)
              \/ /\ k = 0 /\ join_type = "left"
                 /\ \A h \in 1..m : ~Matches(left[i], right[h], on)
    BY Zenon, <1>4 DEF Joins
  <2>5. QED
    BY Zenon, <2>2, <2>3, <2>4
<1>15. \A i \in 1..n : \A k \in 0..m : JoinedRow(i, k, left, right, width) = R[i][k]
  BY ZenonT(30), <1>7 DEF JoinedRow, RowsWith
<1>16. CASE /\ result = Bad(Error("TypeMismatch"))
            /\ \E i \in 1..n : \E h \in 1..m : tests[i][h] = Error("TypeMismatch")
  <2>1. result.error = "TypeMismatch"
    BY Zenon, <1>16, ResultFields
  <2>2. \E i \in DOMAIN left : \E k \in DOMAIN right : Mismatches(left[i], right[k], on)
    BY Zenon, <1>3, <1>4, <1>13, <1>16
  <2>3. QED
    BY Zenon, <2>1, <2>2 DEF JoinAgrees, result
<1>17. ASSUME \A i \in 1..n : \A h \in 1..m : tests[i][h] # Error("TypeMismatch"),
              NEW s \in Seq(S), result = Ok(s), Listed(s, n, n, m, J, R)
       PROVE  JoinAgrees(left, right, join_type, on, width)
  <2>1. result.error = "" /\ result.items = s
    BY Zenon, <1>17, ResultFields
  <2>2. ~\E i \in DOMAIN left : \E k \in DOMAIN right : Mismatches(left[i], right[k], on)
    BY ZenonT(30), <1>3, <1>4, <1>13, <1>17
  <2>3. PICK l, r : Listing(s, l, r, n, n, m, J, R)
    BY Zenon, <1>17 DEF Listed
  <2>4. l \in [1..Len(s) -> 1..n] /\ r \in [1..Len(s) -> 0..m]
    BY Zenon, <2>3 DEF Listing
  <2>5. \A p \in 1..Len(s) : l[p] \in 1..n /\ r[p] \in 0..m
    BY Zenon, <2>4
  <2>6. \A p, q \in 1..Len(s) : p < q => l[p] <= l[q]
    BY Zenon, <2>3 DEF Listing
  <2>7. \A p, q \in 1..Len(s) : p < q /\ l[p] = l[q] => r[p] < r[q]
    BY Zenon, <2>3 DEF Listing
  <2>8. \A p \in 1..Len(s) : /\ Joins(l[p], r[p], left, right, join_type, on)
                             /\ s[p] = JoinedRow(l[p], r[p], left, right, width)
    <3>1. \A p \in 1..Len(s) : r[p] \in J[l[p]] /\ s[p] = R[l[p]][r[p]]
      BY Zenon, <2>3 DEF Listing
    <3>2. QED
      BY Zenon, <1>14, <1>15, <2>5, <3>1
  <2>9. \A i \in 1..n : \A k \in 0..m : Joins(i, k, left, right, join_type, on)
          => \E p \in 1..Len(s) : l[p] = i /\ r[p] = k
    <3>1. \A i \in 1..n : \A k \in J[i] : \E p \in 1..Len(s) : l[p] = i /\ r[p] = k
      BY Zenon, <2>3 DEF Listing
    <3>2. QED
      BY Zenon, <1>14, <3>1
  <2>10. ListsPairs(s, left, right, join_type, on, width)
    <3>1. m = Len(right)
      BY Zenon DEF m
    <3>2. ArePairs(s, l, r, left, right, join_type, on, width)
      BY Zenon, <1>3, <2>7, <2>8, <2>9, <3>1 DEF ArePairs
    <3>3. QED
      BY Zenon, <1>3, <2>4, <2>6, <3>1, <3>2 DEF ListsPairs
  <2>11. QED
    BY Zenon, <2>1, <2>2, <2>10 DEF JoinAgrees, result
<1>18. QED
  BY Zenon, <1>12, <1>16, <1>17 DEF JoinedSoFar

(* JoinIsRelational for every join, not only those that the run enumerates. *)
THEOREM EveryJoinRelational ==
  ASSUME input.of = "join" =>
           IsJoin(input.left, input.right, input.type, input.on, input.width)
  PROVE  JoinIsRelational
BY Zenon, JoinLists DEF JoinIsRelational

-----------------------------------------------------------------------------
(***************************************************************************)
(* GROUP BY.                                                               *)
(***************************************************************************)

(* Keys are equivalent when they tie, NULL with NULL included. *)
LEMMA EquivalentTies ==
  ASSUME NEW l \in Values, NEW r \in Values
  PROVE  valuesEquivalent(l, r) <=> Ties(l, r)
<1>1. \A v \in Values : v = Null <=> v[1] = "null"
  BY DEF Values, Null, Blob, Integer, Boolean
<1>2. \A v \in Values : v = Null => Num(v) = 0
  BY DEF Num, Null
<1>3. CASE l = Null \/ r = Null
  <2>1. valuesEquivalent(l, r) <=> l = r
    BY Zenon, <1>3 DEF valuesEquivalent
  <2>2. l = r => Ties(l, r)
    <3>1. l = r => l[1] = "null" /\ r[1] = "null" /\ Num(l) = Num(r)
      BY Zenon, <1>1, <1>3
    <3>2. "null" # "blob"
      BY Zenon
    <3>3. QED
      BY Zenon, <3>1, <3>2 DEF Ties, Comparable
  <2>3. Ties(l, r) => l = r
    BY Zenon, <1>1, <1>3 DEF Ties, Comparable
  <2>4. QED
    BY Zenon, <2>1, <2>2, <2>3
<1>4. CASE l # Null /\ r # Null
  <2>. DEFINE c == compareValues(l, r)
  <2>1. valuesEquivalent(l, r) <=> ~IsError(c) /\ c[2] = 0
    BY Zenon, <1>4 DEF valuesEquivalent
  <2>2. c = compareKeys(l, r)
    BY Zenon, ValueTags DEF compareKeys, OrError
  <2>. HIDE DEF c
  <2>3. CASE Comparable(l, r)
    <3>1. c = Integer(Num(l) - Num(r))
      BY Zenon, <2>2, <2>3, KeyCompares
    <3>2. ~IsError(c) /\ c[2] = Num(l) - Num(r)
      BY Zenon, <3>1, Tagged
    <3>3. Num(l) \in Int /\ Num(r) \in Int
      BY Zenon, ValueTags
    <3>4. Num(l) - Num(r) = 0 <=> Num(l) = Num(r)
      BY <3>3
    <3>5. QED
      BY Zenon, <2>1, <2>3, <3>2, <3>4 DEF Ties
  <2>4. CASE ~Comparable(l, r)
    <3>1. IsError(c)
      BY Zenon, <2>2, <2>4, KeyCompares, Tagged
    <3>2. QED
      BY Zenon, <2>1, <2>4, <3>1 DEF Ties
  <2>5. QED
    BY Zenon, <2>3, <2>4
<1>5. QED
  BY Zenon, <1>3, <1>4

(* groupKeysEqual compares rows by their keys as it should. *)
LEMMA GroupKeysSame ==
  ASSUME NEW d \in Nat, NEW l \in KeyRows(d), NEW r \in KeyRows(d)
  PROVE  groupKeysEqual(l, r) <=> SameKeys(l, r)
<1>1. DOMAIN l = 1..d /\ \A k \in 1..d : l[k] \in Values /\ r[k] \in Values
  BY Zenon DEF KeyRows
<1>2. \A k \in 1..d : valuesEquivalent(l[k], r[k]) <=> Same(l[k], r[k])
  BY Zenon, <1>1, EquivalentTies, TiesSame
<1>3. QED
  BY Zenon, <1>1, <1>2 DEF groupKeysEqual, SameKeys

(* To be of one group is an equivalence. *)
LEMMA GroupEquivalence ==
  ASSUME NEW d \in Nat, NEW I, NEW keys \in [I -> KeyRows(d)]
  PROVE  /\ \A i \in I : SameGroup(i, i, keys)
         /\ \A i, j \in I : SameGroup(i, j, keys) => SameGroup(j, i, keys)
         /\ \A i, j, k \in I : SameGroup(i, j, keys) /\ SameGroup(j, k, keys) => SameGroup(i, k, keys)
<1>1. \A i \in I : DOMAIN keys[i] = 1..d
  BY Zenon DEF KeyRows
<1>2. \A i, j \in I : SameKeys(keys[i], keys[j]) => SameKeys(keys[j], keys[i])
  BY Zenon, <1>1 DEF SameKeys, Same
<1>3. \A i, j, k \in I : SameKeys(keys[i], keys[j]) /\ SameKeys(keys[j], keys[k])
                          => SameKeys(keys[i], keys[k])
  BY Zenon, <1>1 DEF SameKeys, Same
<1>4. QED
  BY Zenon, <1>2, <1>3 DEF SameGroup

(* A list that is not empty has a first item. *)
LEMMA FirstOf ==
  ASSUME NEW I, NEW r \in Seq(I), r # <<>>
  PROVE  1 \in DOMAIN r
<1>1. Len(r) \in Nat /\ DOMAIN r = 1..Len(r)
  BY LenProperties
<1>2. Len(r) # 0
  BY EmptySeq
<1>3. QED
  BY <1>1, <1>2

(* u is r with i after it. *)
Longer(u, r, i, I) ==
  /\ u \in Seq(I) /\ u # <<>> /\ DOMAIN r \subseteq DOMAIN u
  /\ \A p \in DOMAIN r : u[p] = r[p]
  /\ \E p \in DOMAIN u : u[p] = i
  /\ \A p \in DOMAIN u : p \in DOMAIN r \/ u[p] = i
  /\ \A p, q \in DOMAIN u : p < q => p \in DOMAIN r

(* A group grows by one row. *)
LEMMA RowAppended ==
  ASSUME NEW I, NEW r \in Seq(I), NEW i \in I
  PROVE  Longer(Append(r, i), r, i, I)
<1>. DEFINE u == Append(r, i)
            n == Len(r)
<1>1. n \in Nat /\ DOMAIN r = 1..n
  BY LenProperties
<1>2. u \in Seq(I) /\ Len(u) = n + 1 /\ u[n + 1] = i /\ \A p \in 1..n : u[p] = r[p]
  BY <1>1, AppendProperties
<1>3. DOMAIN u = 1..(n + 1)
  BY <1>2, LenProperties
<1>4. u # <<>>
  BY <1>1, <1>2
<1>. HIDE DEF u, n
<1>5. /\ 1..n \subseteq 1..(n + 1) /\ n + 1 \in 1..(n + 1)
      /\ \A p \in 1..(n + 1) : p \in 1..n \/ p = n + 1
      /\ \A p, q \in 1..(n + 1) : p < q => p \in 1..n
  BY <1>1
<1>6. Longer(u, r, i, I)
  BY Zenon, <1>1, <1>2, <1>3, <1>4, <1>5 DEF Longer
<1>7. QED
  BY Zenon, <1>6 DEF u

(* Row i is of the group of all the rows of a class, or of none. *)
LEMMA OfClass ==
  ASSUME NEW d \in Nat, NEW I, NEW keys \in [I -> KeyRows(d)], NEW T, T \subseteq I,
         NEW r \in Seq(I), NEW key, IsClass(r, key, T, keys), NEW i \in I, i \notin T
  PROVE  \A p \in DOMAIN r : groupKeysEqual(key, keys[i]) <=> SameGroup(r[p], i, keys)
<1>1. /\ r # <<>> /\ key = keys[r[1]]
      /\ \A p \in DOMAIN r : r[p] \in T
      /\ \A p, q \in DOMAIN r : SameGroup(r[p], r[q], keys)
  BY Zenon DEF IsClass
<1>2. 1 \in DOMAIN r
  BY Zenon, <1>1, FirstOf
<1>3. \A p \in DOMAIN r : r[p] \in I /\ r[p] # i
  BY Zenon, <1>1
<1>4. groupKeysEqual(key, keys[i]) <=> SameGroup(r[1], i, keys)
  BY Zenon, <1>1, <1>2, <1>3, GroupKeysSame DEF SameGroup
<1>5. \A p \in DOMAIN r : SameGroup(r[p], i, keys) <=> SameGroup(r[1], i, keys)
  <2>1. SUFFICES ASSUME NEW p \in DOMAIN r
                 PROVE  SameGroup(r[p], i, keys) <=> SameGroup(r[1], i, keys)
    BY Zenon
  <2>2. SameGroup(r[p], r[1], keys) /\ SameGroup(r[1], r[p], keys) /\ r[p] \in I /\ r[1] \in I
    BY Zenon, <1>1, <1>2, <1>3
  <2>3. \A a, b, c \in I : SameGroup(a, b, keys) /\ SameGroup(b, c, keys) => SameGroup(a, c, keys)
    BY Zenon, GroupEquivalence
  <2>4. QED
    BY Zenon, <2>2, <2>3
<1>6. QED
  BY Zenon, <1>4, <1>5

(* A class gets one row more, after the others. *)
LEMMA ClassGrows ==
  ASSUME NEW d \in Nat, NEW I, NEW keys \in [I -> KeyRows(d)], NEW T, T \subseteq I,
         NEW r \in Seq(I), NEW key, IsClass(r, key, T, keys), NEW i \in I, \A t \in T : t < i,
         \A p \in DOMAIN r : SameGroup(r[p], i, keys)
  PROVE  IsClass(Append(r, i), key, T \cup {i}, keys)
<1>. DEFINE u == Append(r, i)
<1>1. /\ r # <<>> /\ key = keys[r[1]]
      /\ \A p \in DOMAIN r : r[p] \in T
      /\ \A p, q \in DOMAIN r : p < q => r[p] < r[q]
      /\ \A p, q \in DOMAIN r : SameGroup(r[p], r[q], keys)
  BY Zenon DEF IsClass
<1>2. /\ u # <<>> /\ \A p \in DOMAIN r : u[p] = r[p]
      /\ \A p \in DOMAIN u : p \in DOMAIN r \/ u[p] = i
      /\ \A p, q \in DOMAIN u : p < q => p \in DOMAIN r
      /\ 1 \in DOMAIN r
  <2>1. Longer(u, r, i, I) /\ 1 \in DOMAIN r
    BY Zenon, <1>1, RowAppended, FirstOf
  <2>2. QED
    BY Zenon, <2>1 DEF Longer
<1>. HIDE DEF u
<1>3. key = keys[u[1]]
  BY Zenon, <1>1, <1>2
<1>4. \A p \in DOMAIN u : u[p] \in T \cup {i}
  BY Zenon, <1>1, <1>2
<1>5. \A p, q \in DOMAIN u : p < q => u[p] < u[q]
  <2>1. SUFFICES ASSUME NEW p \in DOMAIN u, NEW q \in DOMAIN u, p < q PROVE u[p] < u[q]
    BY Zenon
  <2>2. p \in DOMAIN r /\ u[p] = r[p] /\ r[p] \in T
    BY Zenon, <1>1, <1>2, <2>1
  <2>3. CASE q \in DOMAIN r
    BY Zenon, <1>1, <1>2, <2>1, <2>2, <2>3
  <2>4. CASE u[q] = i
    BY Zenon, <2>2, <2>4
  <2>5. QED
    BY Zenon, <1>2, <2>3, <2>4
<1>6. \A p, q \in DOMAIN u : SameGroup(u[p], u[q], keys)
  <2>1. SUFFICES ASSUME NEW p \in DOMAIN u, NEW q \in DOMAIN u PROVE SameGroup(u[p], u[q], keys)
    BY Zenon
  <2>2. \A h \in DOMAIN r : SameGroup(i, r[h], keys)
    <3>1. \A h \in DOMAIN r : r[h] \in I
      BY Zenon, <1>1
    <3>2. \A a, b \in I : SameGroup(a, b, keys) => SameGroup(b, a, keys)
      BY Zenon, GroupEquivalence
    <3>3. QED
      BY Zenon, <3>1, <3>2
  <2>3. SameGroup(i, i, keys)
    BY Zenon DEF SameGroup
  <2>4. (p \in DOMAIN r /\ u[p] = r[p]) \/ u[p] = i
    BY Zenon, <1>2
  <2>5. (q \in DOMAIN r /\ u[q] = r[q]) \/ u[q] = i
    BY Zenon, <1>2
  <2>6. CASE p \in DOMAIN r /\ u[p] = r[p]
    <3>1. CASE q \in DOMAIN r /\ u[q] = r[q]
      <4>1. SameGroup(r[p], r[q], keys)
        BY Zenon, <1>1, <2>6, <3>1
      <4>2. QED
        BY Zenon, <2>6, <3>1, <4>1
    <3>2. CASE u[q] = i
      <4>1. SameGroup(r[p], i, keys)
        BY Zenon, <2>6
      <4>2. QED
        BY Zenon, <2>6, <3>2, <4>1
    <3>3. QED
      BY Zenon, <2>5, <3>1, <3>2
  <2>7. CASE u[p] = i
    BY Zenon, <2>2, <2>3, <2>5, <2>7
  <2>8. QED
    BY Zenon, <2>4, <2>6, <2>7
<1>7. QED
  BY Zenon, <1>2, <1>3, <1>4, <1>5, <1>6 DEF IsClass, u

(* A row of another class changes nothing for this one. *)
LEMMA ClassKept ==
  ASSUME NEW r, NEW key, NEW T, NEW keys, NEW i, IsClass(r, key, T, keys)
  PROVE  IsClass(r, key, T \cup {i}, keys)
BY Zenon DEF IsClass

(* A row that fits no group is a group of its own. *)
LEMMA NewClass ==
  ASSUME NEW T, NEW keys, NEW i
  PROVE  IsClass(<<i>>, keys[i], T \cup {i}, keys)
<1>. DEFINE u == <<i>>
<1>1. u # <<>> /\ DOMAIN u = {1} /\ u[1] = i
  OBVIOUS
<1>2. ~(1 < 1)
  OBVIOUS
<1>3. SameGroup(i, i, keys)
  BY Zenon DEF SameGroup
<1>. HIDE DEF u
<1>4. IsClass(u, keys[i], T \cup {i}, keys)
  BY Zenon, <1>1, <1>2, <1>3 DEF IsClass
<1>5. QED
  BY Zenon, <1>4 DEF u

(* Classes that are apart stay so. *)
LEMMA ApartGrows ==
  ASSUME NEW d \in Nat, NEW I, NEW keys \in [I -> KeyRows(d)], NEW r \in Seq(I), r # <<>>,
         NEW i \in I, \A p \in DOMAIN r : SameGroup(r[p], i, keys), NEW s \in Seq(I)
  PROVE  /\ Apart(r, s, keys) => Apart(Append(r, i), s, keys)
         /\ Apart(s, r, keys) => Apart(s, Append(r, i), keys)
<1>. DEFINE u == Append(r, i)
<1>1. /\ \A p \in DOMAIN r : u[p] = r[p]
      /\ \A p \in DOMAIN u : p \in DOMAIN r \/ u[p] = i
      /\ 1 \in DOMAIN r
  <2>1. Longer(u, r, i, I) /\ 1 \in DOMAIN r
    BY Zenon, RowAppended, FirstOf
  <2>2. QED
    BY Zenon, <2>1 DEF Longer
<1>2. /\ \A p \in DOMAIN r : r[p] \in I
      /\ \A q \in DOMAIN s : s[q] \in I
  BY ZenonT(30), LenProperties, ElementOfSeq
<1>3. /\ \A a, b \in I : SameGroup(a, b, keys) => SameGroup(b, a, keys)
      /\ \A a, b, c \in I : SameGroup(a, b, keys) /\ SameGroup(b, c, keys) => SameGroup(a, c, keys)
  BY Zenon, GroupEquivalence
<1>. HIDE DEF u
<1>4. SameGroup(r[1], i, keys) /\ SameGroup(i, r[1], keys) /\ r[1] \in I
  BY Zenon, <1>1, <1>2, <1>3
<1>5. ASSUME Apart(r, s, keys), NEW p \in DOMAIN u, NEW q \in DOMAIN s
      PROVE  ~SameGroup(u[p], s[q], keys)
  <2>1. CASE p \in DOMAIN r
    BY Zenon, <1>1, <1>5, <2>1 DEF Apart
  <2>2. CASE u[p] = i
    <3>1. ~SameGroup(r[1], s[q], keys) /\ s[q] \in I
      BY Zenon, <1>1, <1>2, <1>5 DEF Apart
    <3>2. QED
      BY Zenon, <1>3, <1>4, <2>2, <3>1
  <2>3. QED
    BY Zenon, <1>1, <2>1, <2>2
<1>6. ASSUME Apart(s, r, keys), NEW p \in DOMAIN u, NEW q \in DOMAIN s
      PROVE  ~SameGroup(s[q], u[p], keys)
  <2>1. CASE p \in DOMAIN r
    BY Zenon, <1>1, <1>6, <2>1 DEF Apart
  <2>2. CASE u[p] = i
    <3>1. ~SameGroup(s[q], r[1], keys) /\ s[q] \in I
      BY Zenon, <1>1, <1>2, <1>6 DEF Apart
    <3>2. QED
      BY Zenon, <1>3, <1>4, <2>2, <3>1
  <2>3. QED
    BY Zenon, <1>1, <2>1, <2>2
<1>7. QED
  BY Zenon, <1>5, <1>6 DEF Apart, u

Groups(d, I) == [keys : KeyRows(d), row_indices : Seq(I)]

(* No group has the keys of row i, which begins one of its own. *)
LEMMA GroupAdded ==
  ASSUME NEW d \in Nat, NEW I, NEW keys \in [I -> KeyRows(d)], NEW T, T \subseteq I,
         NEW groups \in Seq(Groups(d, I)), ArePartition(groups, T, keys),
         NEW i \in I, i \notin T, \A t \in T : t < i,
         \A g \in DOMAIN groups : ~groupKeysEqual(groups[g].keys, keys[i])
  PROVE  ArePartition(Append(groups, [keys |-> keys[i], row_indices |-> <<i>>]), T \cup {i}, keys)
<1>. DEFINE new == [keys |-> keys[i], row_indices |-> <<i>>]
            u == Append(groups, new)
            D == DOMAIN groups
            r(g) == groups[g].row_indices
            z == <<i>>
<1>1. z \in Seq(I) /\ DOMAIN z = {1} /\ z[1] = i
  OBVIOUS
<1>2. new \in Groups(d, I) /\ new.keys = keys[i] /\ new.row_indices = z
  BY <1>1 DEF Groups
<1>. HIDE DEF new, z
<1>3. /\ u \in Seq(Groups(d, I)) /\ D \subseteq DOMAIN u
      /\ \A g \in D : u[g] = groups[g]
      /\ \E g \in DOMAIN u : u[g] = new
      /\ \A g \in DOMAIN u : g \in D \/ u[g] = new
      /\ \A g, h \in DOMAIN u : g < h => g \in D
  <2>1. Longer(u, groups, new, Groups(d, I))
    BY Zenon, <1>2, RowAppended
  <2>2. QED
    BY Zenon, <2>1 DEF Longer
<1>4. \A g \in D : r(g) \in Seq(I)
  <2>1. \A g \in D : groups[g] \in Groups(d, I)
    BY Zenon, LenProperties, ElementOfSeq
  <2>2. QED
    BY <2>1 DEF Groups
<1>5. /\ \A g \in D : IsClass(r(g), groups[g].keys, T, keys)
      /\ \A g, h \in D : g < h => r(g)[1] < r(h)[1] /\ Apart(r(g), r(h), keys)
      /\ \A t \in T : \E g \in D : \E p \in DOMAIN r(g) : r(g)[p] = t
  BY Zenon DEF ArePartition
<1>. HIDE DEF u, D, r
<1>6. \A g \in DOMAIN u : IsClass(u[g].row_indices, u[g].keys, T \cup {i}, keys)
  <2>1. IsClass(new.row_indices, new.keys, T \cup {i}, keys)
    BY Zenon, <1>2, NewClass DEF z
  <2>2. \A g \in D : IsClass(u[g].row_indices, u[g].keys, T \cup {i}, keys)
    BY Zenon, <1>3, <1>5, ClassKept DEF r
  <2>3. QED
    BY Zenon, <1>3, <2>1, <2>2
<1>7. ASSUME NEW g \in D
      PROVE  r(g)[1] < i /\ Apart(r(g), z, keys)
  <2>1. IsClass(r(g), groups[g].keys, T, keys) /\ r(g) \in Seq(I)
    BY Zenon, <1>4, <1>5
  <2>2. ~groupKeysEqual(groups[g].keys, keys[i])
    BY Zenon DEF D
  <2>3. \A p \in DOMAIN r(g) : ~SameGroup(r(g)[p], i, keys)
    <3>. DEFINE s == r(g)
                key == groups[g].keys
    <3>1. s \in Seq(I) /\ IsClass(s, key, T, keys)
      BY Zenon, <2>1
    <3>. HIDE DEF s, key
    <3>2. \A p \in DOMAIN s : groupKeysEqual(key, keys[i]) <=> SameGroup(s[p], i, keys)
      BY Zenon, <3>1, OfClass
    <3>3. QED
      BY Zenon, <2>2, <3>2 DEF s, key
  <2>4. r(g) # <<>> /\ \A p \in DOMAIN r(g) : r(g)[p] \in T
    BY Zenon, <2>1 DEF IsClass
  <2>5. 1 \in DOMAIN r(g)
    BY Zenon, <2>1, <2>4, FirstOf
  <2>6. QED
    BY Zenon, <1>1, <2>3, <2>4, <2>5 DEF Apart
<1>8. ASSUME NEW g \in DOMAIN u, NEW h \in DOMAIN u, g < h
      PROVE  /\ u[g].row_indices[1] < u[h].row_indices[1]
             /\ Apart(u[g].row_indices, u[h].row_indices, keys)
  <2>1. g \in D /\ u[g].row_indices = r(g)
    BY Zenon, <1>3, <1>8 DEF r
  <2>2. CASE h \in D
    <3>1. u[h].row_indices = r(h)
      BY Zenon, <1>3, <2>2 DEF r
    <3>2. QED
      BY Zenon, <1>5, <1>8, <2>1, <2>2, <3>1
  <2>3. CASE u[h] = new
    BY Zenon, <1>1, <1>2, <1>7, <2>1, <2>3
  <2>4. QED
    BY Zenon, <1>3, <2>2, <2>3
<1>9. ASSUME NEW t \in T \cup {i}
      PROVE  \E g \in DOMAIN u : \E p \in DOMAIN u[g].row_indices : u[g].row_indices[p] = t
  <2>1. CASE t \in T
    <3>1. PICK g \in D : \E p \in DOMAIN r(g) : r(g)[p] = t
      BY Zenon, <1>5, <2>1
    <3>2. g \in DOMAIN u /\ u[g].row_indices = r(g)
      BY Zenon, <1>3 DEF r
    <3>3. QED
      BY Zenon, <3>1, <3>2
  <2>2. CASE t = i
    <3>1. PICK g \in DOMAIN u : u[g] = new
      BY Zenon, <1>3
    <3>2. u[g].row_indices = z /\ 1 \in DOMAIN z /\ z[1] = t
      BY Zenon, <1>1, <1>2, <2>2, <3>1
    <3>3. QED
      BY Zenon, <3>2
  <2>3. QED
    BY Zenon, <2>1, <2>2
<1>10. ArePartition(u, T \cup {i}, keys)
  BY Zenon, <1>6, <1>8, <1>9 DEF ArePartition
<1>11. QED
  BY Zenon, <1>10 DEF u, new, z

(* Group c gets row i. *)
HasRow(u, groups, c, i, d, I) ==
  /\ u \in Seq(Groups(d, I)) /\ DOMAIN u = DOMAIN groups
  /\ \A g \in DOMAIN groups : g # c => u[g] = groups[g]
  /\ u[c].keys = groups[c].keys
  /\ u[c].row_indices = Append(groups[c].row_indices, i)

(* What a group and its neighbours are after a row is added. *)
LEMMA RowAdded ==
  ASSUME NEW d, NEW I, NEW groups \in Seq(Groups(d, I)), NEW c \in DOMAIN groups, NEW i \in I,
         NEW u, u = [groups EXCEPT ![c].row_indices = Append(@, i)]
  PROVE  HasRow(u, groups, c, i, d, I)
<1>. DEFINE new == [groups[c] EXCEPT !.row_indices = Append(@, i)]
            n == Len(groups)
<1>1. n \in Nat /\ DOMAIN groups = 1..n /\ groups \in [1..n -> Groups(d, I)]
  BY LenProperties
<1>2. groups[c] \in Groups(d, I)
  BY Zenon, <1>1
<1>3. groups[c].row_indices \in Seq(I)
  BY <1>2 DEF Groups
<1>4. Append(groups[c].row_indices, i) \in Seq(I)
  BY <1>3, AppendProperties
<1>5. new \in Groups(d, I) /\ new.keys = groups[c].keys /\ new.row_indices = Append(groups[c].row_indices, i)
  BY Zenon, <1>2, <1>4 DEF Groups
<1>. HIDE DEF new
<1>. DEFINE v == [groups EXCEPT ![c] = new]
<1>6. v \in [1..n -> Groups(d, I)] /\ v[c] = new /\ \A g \in 1..n : g # c => v[g] = groups[g]
  BY Zenon, <1>1, <1>5
<1>. HIDE DEF n
<1>7. v \in Seq(Groups(d, I)) /\ DOMAIN v = DOMAIN groups
  BY Zenon, <1>1, <1>6, ListLength
<1>. HIDE DEF v
<1>8. u = v
  BY Zenon DEF v, new
<1>9. QED
  BY Zenon, <1>1, <1>5, <1>6, <1>7, <1>8 DEF HasRow

(* A row added to the group of its keys leaves a partition. *)
LEMMA GroupGrows ==
  ASSUME NEW d \in Nat, NEW I, NEW keys \in [I -> KeyRows(d)], NEW T, T \subseteq I,
         NEW groups \in Seq(Groups(d, I)), ArePartition(groups, T, keys),
         NEW i \in I, i \notin T, \A t \in T : t < i,
         NEW c \in DOMAIN groups, groupKeysEqual(groups[c].keys, keys[i]),
         NEW u, HasRow(u, groups, c, i, d, I)
  PROVE  ArePartition(u, T \cup {i}, keys)
<1>. DEFINE D == DOMAIN groups
            r(g) == groups[g].row_indices
            s == r(c)
            key == groups[c].keys
            v == Append(s, i)
<1>1. \A g \in D : r(g) \in Seq(I)
  <2>1. \A g \in D : groups[g] \in Groups(d, I)
    BY Zenon, LenProperties, ElementOfSeq
  <2>2. QED
    BY <2>1 DEF Groups
<1>2. /\ \A g \in D : IsClass(r(g), groups[g].keys, T, keys)
      /\ \A g, h \in D : g < h => r(g)[1] < r(h)[1] /\ Apart(r(g), r(h), keys)
      /\ \A t \in T : \E g \in D : \E p \in DOMAIN r(g) : r(g)[p] = t
  BY Zenon DEF ArePartition
<1>3. \A g \in D : g # c => u[g].row_indices = r(g) /\ u[g].keys = groups[g].keys
  BY Zenon DEF HasRow
<1>4. u[c].row_indices = v /\ u[c].keys = key /\ DOMAIN u = D /\ groupKeysEqual(key, keys[i])
  BY Zenon DEF HasRow
<1>5. s = r(c) /\ s \in Seq(I) /\ IsClass(s, key, T, keys)
  BY Zenon, <1>1, <1>2
<1>. HIDE DEF D, r, s, key
<1>6. \A p \in DOMAIN s : SameGroup(s[p], i, keys)
  <2>1. \A p \in DOMAIN s : groupKeysEqual(key, keys[i]) <=> SameGroup(s[p], i, keys)
    BY Zenon, <1>5, OfClass
  <2>2. QED
    BY Zenon, <1>4, <2>1
<1>7. s # <<>>
  BY Zenon, <1>5 DEF IsClass
<1>8. Longer(v, s, i, I) /\ 1 \in DOMAIN s
  BY Zenon, <1>5, <1>7, RowAppended, FirstOf
<1>9. IsClass(v, key, T \cup {i}, keys)
  BY Zenon, <1>5, <1>6, ClassGrows
<1>. HIDE DEF v
<1>10. v[1] = s[1] /\ (\A p \in DOMAIN s : p \in DOMAIN v /\ v[p] = s[p]) /\ \E p \in DOMAIN v : v[p] = i
  BY Zenon, <1>8 DEF Longer
<1>11. \A g \in D : IsClass(u[g].row_indices, u[g].keys, T \cup {i}, keys)
  <2>1. SUFFICES ASSUME NEW g \in D PROVE IsClass(u[g].row_indices, u[g].keys, T \cup {i}, keys)
    BY Zenon
  <2>2. CASE g = c
    BY Zenon, <1>4, <1>9, <2>2
  <2>3. CASE g # c
    BY ZenonT(30), <1>2, <1>3, <2>3, ClassKept
  <2>4. QED
    BY Zenon, <2>2, <2>3
<1>12. \A g \in D : /\ Apart(s, r(g), keys) => Apart(v, r(g), keys)
                    /\ Apart(r(g), s, keys) => Apart(r(g), v, keys)
  <2>1. SUFFICES ASSUME NEW g \in D
                 PROVE  /\ Apart(s, r(g), keys) => Apart(v, r(g), keys)
                        /\ Apart(r(g), s, keys) => Apart(r(g), v, keys)
    BY Zenon
  <2>. DEFINE w == r(g)
  <2>2. w \in Seq(I)
    BY Zenon, <1>1
  <2>. HIDE DEF w
  <2>3. /\ Apart(s, w, keys) => Apart(v, w, keys)
        /\ Apart(w, s, keys) => Apart(w, v, keys)
    BY Zenon, <1>5, <1>6, <1>7, <2>2, ApartGrows DEF v
  <2>4. QED
    BY Zenon, <2>3 DEF w
<1>13. ASSUME NEW g \in D, NEW h \in D, g < h
       PROVE  /\ u[g].row_indices[1] < u[h].row_indices[1]
              /\ Apart(u[g].row_indices, u[h].row_indices, keys)
  <2>1. r(g)[1] < r(h)[1] /\ Apart(r(g), r(h), keys)
    BY Zenon, <1>2, <1>13
  <2>2. CASE g = c /\ h # c
    BY Zenon, <1>3, <1>4, <1>5, <1>10, <1>12, <2>1, <2>2
  <2>3. CASE g # c /\ h = c
    BY Zenon, <1>3, <1>4, <1>5, <1>10, <1>12, <2>1, <2>3
  <2>4. CASE g # c /\ h # c
    BY Zenon, <1>3, <2>1, <2>4
  <2>5. g # h
    <3>1. D \subseteq Nat
      <4>1. Len(groups) \in Nat /\ D = 1..Len(groups)
        BY Zenon, LenProperties DEF D
      <4>2. QED
        BY <4>1
    <3>2. QED
      BY <1>13, <3>1
  <2>6. QED
    BY Zenon, <2>2, <2>3, <2>4, <2>5
<1>14. ASSUME NEW t \in T \cup {i}
       PROVE  \E g \in D : \E p \in DOMAIN u[g].row_indices : u[g].row_indices[p] = t
  <2>1. c \in D
    BY Zenon DEF D
  <2>2. CASE t \in T
    <3>1. PICK g \in D : \E p \in DOMAIN r(g) : r(g)[p] = t
      BY Zenon, <1>2, <2>2
    <3>2. CASE g = c
      <4>1. PICK p \in DOMAIN s : s[p] = t
        BY Zenon, <1>5, <3>1, <3>2
      <4>2. p \in DOMAIN v /\ v[p] = t
        BY Zenon, <1>10, <4>1
      <4>3. QED
        BY Zenon, <1>4, <2>1, <4>2
    <3>3. CASE g # c
      BY Zenon, <1>3, <3>1, <3>3
    <3>4. QED
      BY Zenon, <3>2, <3>3
  <2>3. CASE t = i
    <3>1. PICK p \in DOMAIN v : v[p] = t
      BY Zenon, <1>10, <2>3
    <3>2. QED
      BY Zenon, <1>4, <2>1, <3>1
  <2>4. QED
    BY Zenon, <2>2, <2>3
<1>15. QED
  BY Zenon, <1>4, <1>11, <1>13, <1>14 DEF ArePartition

(* A row goes to the first group that has its keys, or begins one. *)
Adds(u, groups, i, key) ==
  \/ /\ \A g \in DOMAIN groups : ~groupKeysEqual(groups[g].keys, key)
     /\ u = Append(groups, [keys |-> key, row_indices |-> <<i>>])
  \/ \E c \in DOMAIN groups : /\ groupKeysEqual(groups[c].keys, key)
                             /\ u = [groups EXCEPT ![c].row_indices = Append(@, i)]

(* AddToGroup takes the first group that fits, or a new one. *)
LEMMA AddsToGroup ==
  ASSUME NEW d \in Nat, NEW I, NEW groups \in Seq(Groups(d, I)), NEW i, NEW key
  PROVE  Adds(AddToGroup(groups, i, key), groups, i, key)
<1>. DEFINE same == {g \in DOMAIN groups : groupKeysEqual(groups[g].keys, key)}
            c == CHOOSE g \in same : \A h \in same : g <= h
<1>1. CASE same = {}
  BY Zenon, <1>1 DEF AddToGroup, Adds
<1>2. CASE same # {}
  <2>1. AddToGroup(groups, i, key) = [groups EXCEPT ![c].row_indices = Append(@, i)]
    BY Zenon, <1>2 DEF AddToGroup
  <2>2. Len(groups) \in Nat /\ DOMAIN groups = 1..Len(groups)
    BY Zenon, LenProperties
  <2>3. same \subseteq Nat
    BY <2>2
  <2>4. \A g \in same : g \in DOMAIN groups /\ groupKeysEqual(groups[g].keys, key)
    BY Zenon
  <2>. HIDE DEF same
  <2>5. PICK x \in same : \A y \in same : ~(y < x)
    BY Zenon, <1>2, <2>3, LeastNat
  <2>6. \A y \in same : x <= y
    BY <2>3, <2>5
  <2>7. c \in same
    BY Zenon, <2>6
  <2>8. QED
    BY Zenon, <2>1, <2>4, <2>7 DEF Adds
<1>3. QED
  BY Zenon, <1>1, <1>2

(* It leads from groups to groups. *)
LEMMA AddCloses ==
  ASSUME NEW d \in Nat, NEW I, NEW groups \in Seq(Groups(d, I)), NEW i \in I, NEW key \in KeyRows(d)
  PROVE  AddToGroup(groups, i, key) \in Seq(Groups(d, I))
<1>. DEFINE new == [keys |-> key, row_indices |-> <<i>>]
            u == AddToGroup(groups, i, key)
<1>1. new \in Groups(d, I)
  BY DEF Groups
<1>2. Adds(u, groups, i, key)
  BY Zenon, AddsToGroup
<1>. HIDE DEF u
<1>3. CASE u = Append(groups, new)
  <2>1. Append(groups, new) \in Seq(Groups(d, I))
    BY Zenon, <1>1, AppendProperties
  <2>2. QED
    BY Zenon, <1>3, <2>1 DEF u
<1>4. ASSUME NEW c \in DOMAIN groups, u = [groups EXCEPT ![c].row_indices = Append(@, i)]
      PROVE  u \in Seq(Groups(d, I))
  <2>1. HasRow(u, groups, c, i, d, I)
    BY Zenon, <1>4, RowAdded
  <2>2. QED
    BY Zenon, <2>1 DEF HasRow
<1>5. QED
  BY Zenon, <1>2, <1>3, <1>4 DEF Adds, u

(* One turn leaves a partition of one row more. *)
LEMMA GroupTurn ==
  ASSUME NEW d \in Nat, NEW I, NEW keys \in [I -> KeyRows(d)], NEW T, T \subseteq I,
         NEW groups \in Seq(Groups(d, I)), ArePartition(groups, T, keys),
         NEW i \in I, i \notin T, \A t \in T : t < i
  PROVE  ArePartition(AddToGroup(groups, i, keys[i]), T \cup {i}, keys)
<1>. DEFINE u == AddToGroup(groups, i, keys[i])
<1>1. Adds(u, groups, i, keys[i])
  BY Zenon, AddsToGroup
<1>. HIDE DEF u
<1>2. ASSUME \A g \in DOMAIN groups : ~groupKeysEqual(groups[g].keys, keys[i]),
             u = Append(groups, [keys |-> keys[i], row_indices |-> <<i>>])
      PROVE  ArePartition(u, T \cup {i}, keys)
  <2>1. ArePartition(Append(groups, [keys |-> keys[i], row_indices |-> <<i>>]), T \cup {i}, keys)
    BY Zenon, <1>2, GroupAdded
  <2>2. QED
    BY Zenon, <1>2, <2>1
<1>3. ASSUME NEW c \in DOMAIN groups, groupKeysEqual(groups[c].keys, keys[i]),
             u = [groups EXCEPT ![c].row_indices = Append(@, i)]
      PROVE  ArePartition(u, T \cup {i}, keys)
  <2>1. HasRow(u, groups, c, i, d, I)
    BY Zenon, <1>3, RowAdded
  <2>2. groupKeysEqual(groups[c].keys, keys[i])
    BY Zenon, <1>3
  <2>3. QED
    BY Zenon, <2>1, <2>2, GroupGrows
<1>4. QED
  BY Zenon, <1>1, <1>2, <1>3 DEF Adds, u

IsGrouping(f, n, indices, keys) ==
  f = [k \in 0..n |-> IF k = 0 THEN <<>> ELSE AddToGroup(f[k - 1], indices[k], keys[indices[k]])]

GroupsTo(x, n, indices, keys) == \E f : IsGrouping(f, n, indices, keys) /\ x = f[n]

(* buildGroups is that loop. *)
LEMMA GroupTurns ==
  ASSUME NEW d \in Nat, NEW I, NEW n \in Nat, NEW indices \in [1..n -> I], NEW rows, NEW group_by,
         group_by # <<>>, NEW keys \in [I -> KeyRows(d)],
         \A i \in I : keys[i] = [k \in DOMAIN group_by |-> rows[i][group_by[k]]]
  PROVE  GroupsTo(buildGroups(rows, indices, group_by), n, indices, keys)
<1>. DEFINE S == Seq(Groups(d, I))
            step == [x \in (1..n) \X S |-> AddToGroup(x[2], indices[x[1]], keys[indices[x[1]]])]
            Keys(i) == [k \in DOMAIN group_by |-> rows[i][group_by[k]]]
            G(g) == [k \in 0..n |-> IF k = 0 THEN <<>>
                                    ELSE AddToGroup(g[k - 1], indices[k], Keys(indices[k]))]
<1>1. <<>> \in S
  BY EmptySeq
<1>2. \A k \in 1..n : indices[k] \in I /\ keys[indices[k]] \in KeyRows(d)
  BY Zenon
<1>3. \A k \in 1..n, x \in S : AddToGroup(x, indices[k], keys[indices[k]]) \in S
  BY Zenon, <1>2, AddCloses
<1>. HIDE DEF S
<1>4. step \in [(1..n) \X S -> S]
  BY <1>3
<1>5. \A k \in 1..n, x \in S : step[<<k, x>>] = AddToGroup(x, indices[k], keys[indices[k]])
  OBVIOUS
<1>. HIDE DEF step
<1>6. PICK f \in [0..n -> S] : IsLoop(f, n, <<>>, step)
  BY Zenon, <1>1, <1>4, LoopExists
<1>7. \A k \in 0..n : k # 0 => k \in 1..n /\ k - 1 \in 0..n
  OBVIOUS
<1>8. \A k \in 0..n : (IF k = 0 THEN <<>> ELSE step[<<k, f[k - 1]>>])
                        = IF k = 0 THEN <<>> ELSE AddToGroup(f[k - 1], indices[k], keys[indices[k]])
  BY Zenon, <1>5, <1>7
<1>9. IsGrouping(f, n, indices, keys)
  BY Zenon, <1>6, <1>8 DEF IsLoop, IsGrouping
<1>10. \A k \in 1..n : Keys(indices[k]) = keys[indices[k]]
  BY Zenon, <1>2
<1>11. Len(indices) = n
  BY Zenon, ListLength
<1>12. buildGroups(rows, indices, group_by) = (CHOOSE g : g = G(g))[n]
  BY Zenon, <1>11 DEF buildGroups
<1>. HIDE DEF Keys
<1>13. \A g : G(g) = [k \in 0..n |-> IF k = 0 THEN <<>>
                                     ELSE AddToGroup(g[k - 1], indices[k], keys[indices[k]])]
  BY Zenon, <1>7, <1>10
<1>14. \A g : (g = G(g)) <=> IsGrouping(g, n, indices, keys)
  BY Zenon, <1>13 DEF IsGrouping
<1>. HIDE DEF G
<1>. DEFINE h == CHOOSE g : g = G(g)
<1>15. IsGrouping(h, n, indices, keys)
  BY Zenon, <1>9, <1>14
<1>16. QED
  BY Zenon, <1>12, <1>15 DEF GroupsTo

(* After k rows, the groups are those of the first k. *)
LEMMA GroupingParts ==
  ASSUME NEW d \in Nat, NEW I, I \subseteq Nat, NEW n \in Nat, NEW indices \in [1..n -> I],
         \A p, q \in 1..n : p < q => indices[p] < indices[q],
         NEW keys \in [I -> KeyRows(d)], NEW f, IsGrouping(f, n, indices, keys)
  PROVE  ArePartition(f[n], {indices[p] : p \in 1..n}, keys)
<1>. DEFINE T(k) == {indices[p] : p \in 1..k}
            Good(k) == f[k] \in Seq(Groups(d, I)) /\ ArePartition(f[k], T(k), keys)
            P == {k \in 0..n : Good(k)}
<1>1. \A k \in 0..n : f[k] = IF k = 0 THEN <<>> ELSE AddToGroup(f[k - 1], indices[k], keys[indices[k]])
  BY Zenon DEF IsGrouping
<1>2. 0 \in 0..n /\ n \in 0..n /\ \A k \in 1..n : k \in 0..n /\ k # 0
  OBVIOUS
<1>3. 0 \in P
  <2>1. f[0] = <<>>
    BY Zenon, <1>1, <1>2
  <2>2. <<>> \in Seq(Groups(d, I)) /\ DOMAIN <<>> = {} /\ T(0) = {}
    BY EmptySeq
  <2>3. ArePartition(<<>>, T(0), keys)
    BY Zenon, <2>2 DEF ArePartition
  <2>4. QED
    BY Zenon, <1>2, <2>1, <2>2, <2>3
<1>4. ASSUME NEW k \in 1..n, k - 1 \in P
      PROVE  k \in P
  <2>. DEFINE x == f[k - 1]
              i == indices[k]
              U == T(k - 1)
  <2>1. x \in Seq(Groups(d, I)) /\ ArePartition(x, U, keys)
    BY Zenon, <1>4
  <2>2. f[k] = AddToGroup(x, i, keys[i])
    BY Zenon, <1>1, <1>2
  <2>3. /\ \A p \in 1..(k - 1) : p \in 1..n /\ p < k /\ p \in 1..k
        /\ \A p \in 1..k : p \in 1..(k - 1) \/ p = k
        /\ k \in 1..k
    OBVIOUS
  <2>4. U \subseteq I /\ i \in I /\ \A t \in U : t < i
    BY ZenonT(30), <2>3
  <2>5. T(k) = U \cup {i}
    BY Zenon, <2>3
  <2>6. keys[i] \in KeyRows(d)
    BY Zenon, <2>4
  <2>. HIDE DEF x, U, i
  <2>7. i \notin U
    <3>1. i \in Nat
      BY Zenon, <2>4
    <3>2. ~(i < i)
      BY <3>1
    <3>3. QED
      BY Zenon, <2>4, <3>2
  <2>8. ArePartition(AddToGroup(x, i, keys[i]), U \cup {i}, keys)
    BY Zenon, <2>1, <2>4, <2>7, GroupTurn
  <2>9. AddToGroup(x, i, keys[i]) \in Seq(Groups(d, I))
    BY Zenon, <2>1, <2>4, <2>6, AddCloses
  <2>10. Good(k)
    BY Zenon, <2>2, <2>5, <2>8, <2>9
  <2>11. QED
    BY Zenon, <1>2, <2>10
<1>5. \A k \in 0..n : k \in P
  <2>. HIDE DEF P
  <2>1. QED
    BY Zenon, <1>3, <1>4, EveryTurn
<1>6. QED
  BY Zenon, <1>2, <1>5

(***************************************************************************)
(* buildGroups on any rows and any columns to group them by: of the rows   *)
(* that WHERE has accepted, each is in exactly one group, that of all the  *)
(* rows with its keys; groups are in the order of their first rows.        *)
(***************************************************************************)
THEOREM GroupsArePartition ==
  ASSUME NEW w \in Nat, NEW rows \in Seq([1..w -> Values]), NEW group_by \in Seq(1..w), group_by # <<>>,
         NEW n \in Nat, NEW indices \in [1..n -> DOMAIN rows],
         \A p, q \in 1..n : p < q => indices[p] < indices[q]
  PROVE  ArePartition(buildGroups(rows, indices, group_by), {indices[p] : p \in 1..n},
                      OrderKeys(rows, group_by))
<1>. DEFINE I == DOMAIN rows
            d == Len(group_by)
            keys == OrderKeys(rows, group_by)
            x == buildGroups(rows, indices, group_by)
<1>1. I = 1..Len(rows) /\ Len(rows) \in Nat /\ d \in Nat
  BY Zenon, LenProperties
<1>2. keys \in [I -> KeyRows(d)]
  BY Zenon, <1>1, SelectKeys
<1>3. \A i \in I : keys[i] = [k \in DOMAIN group_by |-> rows[i][group_by[k]]]
  BY Zenon DEF OrderKeys
<1>4. I \subseteq Nat
  BY <1>1
<1>5. indices \in [1..n -> I]
  BY Zenon
<1>. HIDE DEF I, d, keys
<1>6. GroupsTo(x, n, indices, keys)
  BY Zenon, <1>1, <1>2, <1>3, <1>5, GroupTurns
<1>. HIDE DEF x
<1>7. PICK f : IsGrouping(f, n, indices, keys) /\ x = f[n]
  BY Zenon, <1>6 DEF GroupsTo
<1>8. ArePartition(f[n], {indices[p] : p \in 1..n}, keys)
  BY ZenonT(30), <1>1, <1>2, <1>4, <1>5, <1>7, GroupingParts
<1>9. QED
  BY Zenon, <1>7, <1>8 DEF x, keys

(* GroupsPartition for every row set, not only those that the run enumerates. *)
THEOREM EveryGroupsPartition ==
  ASSUME input.of = "group" =>
           \E w \in Nat : input.rows \in Seq([1..w -> Values]) /\ input.group_by \in Seq(1..w)
  PROVE  GroupsPartition
<1>. DEFINE rows == input.rows
            group_by == input.group_by
            n == Len(rows)
            all == [i \in 1..n |-> i]
<1>1. SUFFICES ASSUME input.of = "group", group_by # <<>>
               PROVE  ArePartition(buildGroups(rows, [i \in DOMAIN rows |-> i], group_by),
                                   DOMAIN rows, OrderKeys(rows, group_by))
  BY Zenon DEF GroupsPartition
<1>2. PICK w \in Nat : rows \in Seq([1..w -> Values]) /\ group_by \in Seq(1..w)
  BY Zenon, <1>1
<1>. HIDE DEF rows, group_by
<1>3. n \in Nat /\ DOMAIN rows = 1..n
  BY Zenon, <1>2, LenProperties
<1>. HIDE DEF n
<1>4. /\ all \in [1..n -> 1..n]
      /\ \A p, q \in 1..n : p < q => all[p] < all[q]
      /\ \A p \in 1..n : all[p] = p
  BY Zenon, <1>3, AllNumbers
<1>5. {all[p] : p \in 1..n} = DOMAIN rows /\ all = [i \in DOMAIN rows |-> i]
  BY Zenon, <1>3, <1>4
<1>. HIDE DEF all
<1>6. all \in [1..n -> DOMAIN rows]
  BY Zenon, <1>3, <1>4
<1>7. ArePartition(buildGroups(rows, all, group_by), {all[p] : p \in 1..n}, OrderKeys(rows, group_by))
  BY Zenon, <1>1, <1>2, <1>3, <1>4, <1>6, GroupsArePartition
<1>8. QED
  BY Zenon, <1>5, <1>7
=============================================================================
