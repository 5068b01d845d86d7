---------------------------- MODULE OrderProofs ----------------------------
(***************************************************************************)
(* ORDER BY and LIMIT, and the search for the nearest vectors, keep their  *)
(* promises for every row set, every list of keys and every limit.  The    *)
(* keys of rows are ordered, as far as they compare; one turn of the       *)
(* insertion sort keeps its beginning in that order, or meets two rows     *)
(* that do not compare; and the sort is so many turns.                     *)
(***************************************************************************)
EXTENDS QueryProofs

(* One value comes after another, in a direction. *)
Above(l, r, direction) == IF direction = "asc" THEN Num(l) > Num(r) ELSE Num(l) < Num(r)

(* A comparison decides when the values do not tie. *)
LEMMA Decisive ==
  ASSUME NEW l \in Values, NEW r \in Values
  PROVE  (IsError(compareKeys(l, r)) \/ compareKeys(l, r)[2] # 0) <=> ~Ties(l, r)
<1>1. Num(l) \in Int /\ Num(r) \in Int
  BY Zenon, ValueTags
<1>2. CASE Comparable(l, r)
  <2>1. compareKeys(l, r) = Integer(Num(l) - Num(r))
    BY Zenon, <1>2, KeyCompares
  <2>2. ~IsError(compareKeys(l, r)) /\ compareKeys(l, r)[2] = Num(l) - Num(r)
    BY Zenon, <2>1, Tagged
  <2>3. Num(l) - Num(r) = 0 <=> Num(l) = Num(r)
    BY <1>1
  <2>4. QED
    BY Zenon, <1>2, <2>2, <2>3 DEF Ties
<1>3. CASE ~Comparable(l, r)
  <2>1. compareKeys(l, r) = Error("TypeMismatch")
    BY Zenon, <1>3, KeyCompares
  <2>2. QED
    BY Zenon, <1>3, <2>1, Tagged DEF Ties
<1>4. QED
  BY Zenon, <1>2, <1>3

-----------------------------------------------------------------------------
(* A direction for each key. *)
DirectionLists(d) == [1..d -> {"asc", "desc"}]

(* Rows whose keys all tie stay where they are. *)
LEMMA AllTie ==
  ASSUME NEW d \in Nat, NEW l \in KeyRows(d), NEW r \in KeyRows(d),
         NEW directions \in DirectionLists(d), \A k \in 1..d : Ties(l[k], r[k])
  PROVE  rowComesAfter(l, r, directions) = Boolean(FALSE)
<1>. DEFINE c == [k \in DOMAIN directions |-> compareKeys(l[k], r[k])]
            decisive == {k \in DOMAIN directions : IsError(c[k]) \/ c[k][2] # 0}
<1>1. DOMAIN directions = 1..d /\ \A k \in 1..d : l[k] \in Values /\ r[k] \in Values
  BY Zenon DEF KeyRows, DirectionLists
<1>2. decisive = {}
  BY Zenon, <1>1, Decisive
<1>3. QED
  BY Zenon, <1>2 DEF rowComesAfter

(* The first keys that do not tie decide. *)
LEMMA DecidedAt ==
  ASSUME NEW d \in Nat, NEW l \in KeyRows(d), NEW r \in KeyRows(d),
         NEW directions \in DirectionLists(d), NEW k \in 1..d,
         \A m \in 1..(k - 1) : Ties(l[m], r[m]), ~Ties(l[k], r[k])
  PROVE  rowComesAfter(l, r, directions) =
           IF Comparable(l[k], r[k]) THEN Boolean(Above(l[k], r[k], directions[k]))
                                     ELSE Error("TypeMismatch")
<1>. DEFINE c == [m \in DOMAIN directions |-> compareKeys(l[m], r[m])]
            decisive == {m \in DOMAIN directions : IsError(c[m]) \/ c[m][2] # 0}
            first == CHOOSE m \in decisive : \A j \in decisive : m <= j
<1>1. DOMAIN directions = 1..d /\ \A m \in 1..d : l[m] \in Values /\ r[m] \in Values
  BY Zenon DEF KeyRows, DirectionLists
<1>2. decisive = {m \in 1..d : ~Ties(l[m], r[m])}
  <2>1. \A m \in 1..d : (IsError(c[m]) \/ c[m][2] # 0) <=> ~Ties(l[m], r[m])
    BY Zenon, <1>1, Decisive
  <2>. HIDE DEF c
  <2>2. QED
    BY Zenon, <1>1, <2>1
<1>3. k \in decisive /\ \A j \in decisive : k <= j
  <2>1. k \in decisive
    BY Zenon, <1>2
  <2>2. \A j \in decisive : j \in 1..d /\ j \notin 1..(k - 1)
    BY Zenon, <1>2
  <2>. HIDE DEF decisive
  <2>3. QED
    BY <2>1, <2>2
<1>4. first \in decisive /\ \A j \in decisive : first <= j
  BY Zenon, <1>3
<1>5. first = k
  <2>1. decisive \subseteq 1..d
    BY Zenon, <1>2
  <2>. HIDE DEF decisive, first
  <2>2. QED
    BY <1>3, <1>4, <2>1
<1>6. rowComesAfter(l, r, directions) =
        OrError(c[k], Boolean(IF directions[k] = "asc" THEN c[k][2] > 0 ELSE c[k][2] < 0))
  <2>1. rowComesAfter(l, r, directions) =
          IF decisive = {} THEN Boolean(FALSE)
          ELSE OrError(c[first], Boolean(IF directions[first] = "asc" THEN c[first][2] > 0
                                                                      ELSE c[first][2] < 0))
    BY Zenon DEF rowComesAfter
  <2>. HIDE DEF decisive, first, c
  <2>2. QED
    BY Zenon, <1>3, <1>5, <2>1
<1>7. c[k] = compareKeys(l[k], r[k])
  BY Zenon, <1>1
<1>8. l[k] \in Values /\ r[k] \in Values
  BY Zenon, <1>1
<1>. HIDE DEF c
<1>9. CASE Comparable(l[k], r[k])
  <2>1. c[k] = Integer(Num(l[k]) - Num(r[k]))
    BY Zenon, <1>7, <1>8, <1>9, KeyCompares
  <2>2. ~IsError(c[k]) /\ c[k][2] = Num(l[k]) - Num(r[k])
    BY ZenonT(30), <2>1, Tagged
  <2>3. Num(l[k]) \in Int /\ Num(r[k]) \in Int
    BY Zenon, <1>8, ValueTags
  <2>4. (c[k][2] > 0 <=> Num(l[k]) > Num(r[k])) /\ (c[k][2] < 0 <=> Num(l[k]) < Num(r[k]))
    BY <2>2, <2>3
  <2>5. (IF directions[k] = "asc" THEN c[k][2] > 0 ELSE c[k][2] < 0)
           <=> Above(l[k], r[k], directions[k])
    BY Zenon, <2>4 DEF Above
  <2>6. QED
    BY <1>6, <1>9, <2>2, <2>5 DEF OrError, Boolean, Above
<1>10. CASE ~Comparable(l[k], r[k])
  <2>1. c[k] = Error("TypeMismatch")
    BY Zenon, <1>7, <1>8, <1>10, KeyCompares
  <2>2. QED
    BY ZenonT(30), <1>6, <1>10, <2>1, Tagged DEF OrError
<1>11. QED
  BY Zenon, <1>9, <1>10

(* Keys that do not all tie have a first that does not. *)
LEMMA FirstIn ==
  ASSUME NEW d \in Nat, NEW T, T \subseteq 1..d, T # {}
  PROVE  \E k \in T : \A m \in 1..(k - 1) : m \notin T
<1>1. T \subseteq Nat
  OBVIOUS
<1>2. PICK k \in T : \A m \in T : ~(m < k)
  BY Zenon, <1>1, LeastNat
<1>3. \A m \in 1..(k - 1) : m < k
  BY <1>1, <1>2
<1>4. QED
  BY Zenon, <1>2, <1>3

(* Keys that do not all tie have a first that does not. *)
LEMMA FirstDifference ==
  ASSUME NEW d \in Nat, NEW l \in KeyRows(d), NEW r \in KeyRows(d),
         ~\A k \in 1..d : Ties(l[k], r[k])
  PROVE  \E k \in 1..d : ~Ties(l[k], r[k]) /\ \A m \in 1..(k - 1) : Ties(l[m], r[m])
<1>. DEFINE T == {k \in 1..d : ~Ties(l[k], r[k])}
<1>1. T \subseteq 1..d /\ T # {}
  BY Zenon
<1>2. PICK k \in T : \A m \in 1..(k - 1) : m \notin T
  <2>. HIDE DEF T
  <2>1. QED
    BY Zenon, <1>1, FirstIn
<1>3. \A m \in 1..(k - 1) : m \in 1..d
  BY <1>2
<1>4. QED
  BY Zenon, <1>2, <1>3

(* Which of two rows comes after the other, seen from both. *)
LEMMA AfterBoth ==
  ASSUME NEW d \in Nat, NEW l \in KeyRows(d), NEW r \in KeyRows(d),
         NEW directions \in DirectionLists(d)
  PROVE  LET a == rowComesAfter(l, r, directions)
             b == rowComesAfter(r, l, directions)
         IN  \/ a = Error("TypeMismatch") /\ b = Error("TypeMismatch")
             \/ a = Boolean(TRUE) /\ b = Boolean(FALSE)
             \/ a = Boolean(FALSE) /\ b = Boolean(TRUE)
             \/ a = Boolean(FALSE) /\ b = Boolean(FALSE)
<1>. DEFINE a == rowComesAfter(l, r, directions)
            b == rowComesAfter(r, l, directions)
<1>1. \A k : (Ties(l[k], r[k]) <=> Ties(r[k], l[k])) /\ (Comparable(l[k], r[k]) <=> Comparable(r[k], l[k]))
  BY Zenon DEF Ties, Comparable
<1>2. CASE \A k \in 1..d : Ties(l[k], r[k])
  <2>1. a = Boolean(FALSE)
    BY Zenon, <1>2, AllTie
  <2>2. \A k \in 1..d : Ties(r[k], l[k])
    BY Zenon, <1>1, <1>2
  <2>3. b = Boolean(FALSE)
    BY Zenon, <2>2, AllTie
  <2>4. QED
    BY Zenon, <2>1, <2>3
<1>3. CASE ~\A k \in 1..d : Ties(l[k], r[k])
  <2>1. PICK k \in 1..d : ~Ties(l[k], r[k]) /\ \A m \in 1..(k - 1) : Ties(l[m], r[m])
    BY Zenon, <1>3, FirstDifference
  <2>2. ~Ties(r[k], l[k]) /\ \A m \in 1..(k - 1) : Ties(r[m], l[m])
    BY Zenon, <1>1, <2>1
  <2>3. a = IF Comparable(l[k], r[k]) THEN Boolean(Above(l[k], r[k], directions[k]))
                                      ELSE Error("TypeMismatch")
    BY Zenon, <2>1, DecidedAt
  <2>4. b = IF Comparable(r[k], l[k]) THEN Boolean(Above(r[k], l[k], directions[k]))
                                      ELSE Error("TypeMismatch")
    BY Zenon, <2>2, DecidedAt
  <2>5. l[k] \in Values /\ r[k] \in Values
    BY Zenon DEF KeyRows
  <2>6. Num(l[k]) \in Int /\ Num(r[k]) \in Int
    BY Zenon, <2>5, ValueTags
  <2>. HIDE DEF a, b
  <2>7. CASE Comparable(l[k], r[k])
    <3>1. Num(l[k]) # Num(r[k])
      BY Zenon, <2>1, <2>7 DEF Ties
    <3>2. \/ Above(l[k], r[k], directions[k]) = TRUE /\ Above(r[k], l[k], directions[k]) = FALSE
          \/ Above(l[k], r[k], directions[k]) = FALSE /\ Above(r[k], l[k], directions[k]) = TRUE
      BY <2>6, <3>1 DEF Above
    <3>3. a = Boolean(Above(l[k], r[k], directions[k])) /\ b = Boolean(Above(r[k], l[k], directions[k]))
      BY Zenon, <1>1, <2>3, <2>4, <2>7
    <3>4. QED
      BY Zenon, <3>2, <3>3 DEF a, b
  <2>8. CASE ~Comparable(l[k], r[k])
    BY Zenon, <1>1, <2>3, <2>4, <2>8 DEF a, b
  <2>9. QED
    BY Zenon, <2>7, <2>8
<1>4. QED
  BY Zenon, <1>2, <1>3

(* What does not come after, in one column. *)
LEMMA NotAbove ==
  ASSUME NEW d \in Nat, NEW l \in KeyRows(d), NEW r \in KeyRows(d),
         NEW directions \in DirectionLists(d), NEW k \in 1..d,
         \A m \in 1..(k - 1) : Ties(l[m], r[m]),
         rowComesAfter(l, r, directions) = Boolean(FALSE)
  PROVE  /\ Comparable(l[k], r[k])
         /\ Num(l[k]) # Num(r[k]) => ~Above(l[k], r[k], directions[k])
<1>1. CASE Ties(l[k], r[k])
  BY Zenon, <1>1 DEF Ties
<1>2. CASE ~Ties(l[k], r[k])
  <2>1. Boolean(FALSE) =
          IF Comparable(l[k], r[k]) THEN Boolean(Above(l[k], r[k], directions[k]))
                                    ELSE Error("TypeMismatch")
    BY Zenon, <1>2, DecidedAt
  <2>2. Comparable(l[k], r[k])
    BY Zenon, <2>1, Answers
  <2>3. Above(l[k], r[k], directions[k]) = TRUE \/ Above(l[k], r[k], directions[k]) = FALSE
    <3>1. Num(l[k]) \in Int /\ Num(r[k]) \in Int
      BY Zenon, ValueTags DEF KeyRows
    <3>2. QED
      BY <3>1 DEF Above
  <2>4. ~Above(l[k], r[k], directions[k])
    BY Zenon, <2>1, <2>2, <2>3, Answers
  <2>5. QED
    BY Zenon, <2>2, <2>4
<1>3. QED
  BY Zenon, <1>1, <1>2

(***************************************************************************)
(* A row that does not come after a second, which does not come after a    *)
(* third, compares with the third and does not come after it.              *)
(***************************************************************************)
LEMMA AfterTransitive ==
  ASSUME NEW d \in Nat, NEW a \in KeyRows(d), NEW b \in KeyRows(d), NEW c \in KeyRows(d),
         NEW directions \in DirectionLists(d),
         rowComesAfter(a, b, directions) = Boolean(FALSE),
         rowComesAfter(b, c, directions) = Boolean(FALSE)
  PROVE  rowComesAfter(a, c, directions) = Boolean(FALSE)
<1>. DEFINE T == {k \in 1..d : ~(Ties(a[k], b[k]) /\ Ties(b[k], c[k]))}
<1>1. \A k : Ties(a[k], b[k]) /\ Ties(b[k], c[k]) => Ties(a[k], c[k])
  BY Zenon DEF Ties, Comparable
<1>2. CASE T = {}
  <2>1. \A k \in 1..d : Ties(a[k], c[k])
    BY Zenon, <1>1, <1>2
  <2>2. QED
    BY Zenon, <2>1, AllTie
<1>3. CASE T # {}
  <2>1. PICK k \in T : \A m \in 1..(k - 1) : m \notin T
    <3>1. T \subseteq 1..d
      BY Zenon
    <3>. HIDE DEF T
    <3>2. QED
      BY Zenon, <1>3, <3>1, FirstIn
  <2>2. k \in 1..d /\ \A m \in 1..(k - 1) : m \in 1..d
    BY <2>1
  <2>3. \A m \in 1..(k - 1) : Ties(a[m], b[m]) /\ Ties(b[m], c[m])
    BY Zenon, <2>1, <2>2
  <2>4. /\ Comparable(a[k], b[k])
        /\ Num(a[k]) # Num(b[k]) => ~Above(a[k], b[k], directions[k])
    BY Zenon, <2>2, <2>3, NotAbove
  <2>5. /\ Comparable(b[k], c[k])
        /\ Num(b[k]) # Num(c[k]) => ~Above(b[k], c[k], directions[k])
    BY Zenon, <2>2, <2>3, NotAbove
  <2>6. Comparable(a[k], c[k])
    BY Zenon, <2>4, <2>5 DEF Comparable
  <2>7. Num(a[k]) # Num(b[k]) \/ Num(b[k]) # Num(c[k])
    BY Zenon, <2>1, <2>4, <2>5 DEF Ties
  <2>8. Num(a[k]) \in Int /\ Num(b[k]) \in Int /\ Num(c[k]) \in Int
    BY Zenon, <2>2, ValueTags DEF KeyRows
  <2>9. Num(a[k]) # Num(c[k]) /\ Above(a[k], c[k], directions[k]) = FALSE
    BY <2>4, <2>5, <2>7, <2>8 DEF Above
  <2>10. ~Ties(a[k], c[k]) /\ \A m \in 1..(k - 1) : Ties(a[m], c[m])
    BY Zenon, <1>1, <2>3, <2>9 DEF Ties
  <2>11. rowComesAfter(a, c, directions) =
           IF Comparable(a[k], c[k]) THEN Boolean(Above(a[k], c[k], directions[k]))
                                     ELSE Error("TypeMismatch")
    BY Zenon, <2>2, <2>10, DecidedAt
  <2>12. QED
    BY Zenon, <2>6, <2>9, <2>11
<1>4. QED
  BY Zenon, <1>2, <1>3

-----------------------------------------------------------------------------
(***************************************************************************)
(* The items of I are ordered as far as they compare.                      *)
(***************************************************************************)
Clash(i, j, keys, directions) ==
  rowComesAfter(keys[i], keys[j], directions) = Error("TypeMismatch")

Follows(i, j, keys, directions) == rowComesAfter(keys[i], keys[j], directions) = Boolean(TRUE)

Stays(i, j, keys, directions) == rowComesAfter(keys[i], keys[j], directions) = Boolean(FALSE)

(* The sort leaves i before j: j comes after it, or neither and i is the smaller. *)
Leads(i, j, keys, directions) ==
  \/ Follows(j, i, keys, directions)
  \/ Stays(j, i, keys, directions) /\ Stays(i, j, keys, directions) /\ i < j

AnyClash(S, keys, directions) == \E i, j \in S : i # j /\ Clash(i, j, keys, directions)

Ordered(I, keys, directions) ==
  /\ \A i, j \in I : \/ Clash(i, j, keys, directions) /\ Clash(j, i, keys, directions)
                     \/ Follows(i, j, keys, directions) /\ Stays(j, i, keys, directions)
                     \/ Stays(i, j, keys, directions) /\ Follows(j, i, keys, directions)
                     \/ Stays(i, j, keys, directions) /\ Stays(j, i, keys, directions)
  /\ \A i, j, k \in I : Stays(i, j, keys, directions) /\ Stays(j, k, keys, directions)
                          => Stays(i, k, keys, directions)

(* Keys of rows are ordered in this sense. *)
LEMMA KeysOrdered ==
  ASSUME NEW I, NEW d \in Nat, NEW keys \in [I -> KeyRows(d)], NEW directions \in DirectionLists(d)
  PROVE  Ordered(I, keys, directions)
<1>1. \A i \in I : keys[i] \in KeyRows(d)
  OBVIOUS
<1>2. \A i, j \in I : \/ Clash(i, j, keys, directions) /\ Clash(j, i, keys, directions)
                      \/ Follows(i, j, keys, directions) /\ Stays(j, i, keys, directions)
                      \/ Stays(i, j, keys, directions) /\ Follows(j, i, keys, directions)
                      \/ Stays(i, j, keys, directions) /\ Stays(j, i, keys, directions)
  BY Zenon, <1>1, AfterBoth DEF Clash, Follows, Stays
<1>3. \A i, j, k \in I : Stays(i, j, keys, directions) /\ Stays(j, k, keys, directions)
                           => Stays(i, k, keys, directions)
  BY ZenonT(30), <1>1, AfterTransitive DEF Stays
<1>4. QED
  BY Zenon, <1>2, <1>3 DEF Ordered

(* What is known of two items from one comparison of them. *)
LEMMA Comparisons ==
  ASSUME NEW I, NEW keys, NEW directions, Ordered(I, keys, directions),
         NEW i \in I, NEW j \in I
  PROVE  LET a == rowComesAfter(keys[i], keys[j], directions)
         IN  /\ IsError(a) <=> Clash(i, j, keys, directions)
             /\ ~IsError(a) /\ ~a[2] => Stays(i, j, keys, directions)
             /\ ~IsError(a) /\ a[2] => Follows(i, j, keys, directions)
             /\ Clash(i, j, keys, directions) => a = Error("TypeMismatch")
             /\ Stays(i, j, keys, directions) => ~Follows(i, j, keys, directions)
             /\ Stays(i, j, keys, directions) => ~Clash(i, j, keys, directions)
             /\ Follows(i, j, keys, directions) => ~Clash(i, j, keys, directions)
<1>. DEFINE a == rowComesAfter(keys[i], keys[j], directions)
<1>1. a = Error("TypeMismatch") \/ a = Boolean(TRUE) \/ a = Boolean(FALSE)
  BY Zenon DEF Ordered, Clash, Follows, Stays
<1>. HIDE DEF a
<1>2. /\ IsError(a) <=> a = Error("TypeMismatch")
      /\ ~IsError(a) /\ ~a[2] => a = Boolean(FALSE)
      /\ ~IsError(a) /\ a[2] => a = Boolean(TRUE)
      /\ ~(a = Boolean(FALSE) /\ a = Boolean(TRUE))
      /\ ~(a = Boolean(FALSE) /\ a = Error("TypeMismatch"))
      /\ ~(a = Boolean(TRUE) /\ a = Error("TypeMismatch"))
  BY Zenon, <1>1, Answers, Tagged
<1>3. QED
  BY Zenon, <1>2 DEF a, Clash, Follows, Stays

(* Items stand in one order, and compare. *)
LEMMA LeadsCompare ==
  ASSUME NEW I, NEW keys, NEW directions, Ordered(I, keys, directions),
         NEW i \in I, NEW j \in I, Leads(i, j, keys, directions)
  PROVE  /\ Stays(i, j, keys, directions)
         /\ ~Clash(i, j, keys, directions) /\ ~Clash(j, i, keys, directions)
<1>1. Follows(j, i, keys, directions) \/ (Stays(j, i, keys, directions) /\ Stays(i, j, keys, directions))
  BY Zenon DEF Leads
<1>2. \/ Clash(i, j, keys, directions) /\ Clash(j, i, keys, directions)
      \/ Follows(i, j, keys, directions) /\ Stays(j, i, keys, directions)
      \/ Stays(i, j, keys, directions) /\ Follows(j, i, keys, directions)
      \/ Stays(i, j, keys, directions) /\ Stays(j, i, keys, directions)
  BY Zenon DEF Ordered
<1>3. /\ Stays(i, j, keys, directions) => ~Clash(i, j, keys, directions) /\ ~Follows(i, j, keys, directions)
      /\ Stays(j, i, keys, directions) => ~Clash(j, i, keys, directions) /\ ~Follows(j, i, keys, directions)
      /\ Follows(j, i, keys, directions) => ~Clash(j, i, keys, directions)
  BY Zenon, Comparisons
<1>4. QED
  BY Zenon, <1>1, <1>2, <1>3

(* An item that stays before a later one leads it. *)
LEMMA StaysLeads ==
  ASSUME NEW I, NEW keys, NEW directions, Ordered(I, keys, directions),
         NEW i \in I, NEW j \in I, i < j, Stays(i, j, keys, directions)
  PROVE  Leads(i, j, keys, directions)
<1>1. \/ Clash(i, j, keys, directions) /\ Clash(j, i, keys, directions)
      \/ Follows(i, j, keys, directions) /\ Stays(j, i, keys, directions)
      \/ Stays(i, j, keys, directions) /\ Follows(j, i, keys, directions)
      \/ Stays(i, j, keys, directions) /\ Stays(j, i, keys, directions)
  BY Zenon DEF Ordered
<1>2. ~Clash(i, j, keys, directions) /\ ~Follows(i, j, keys, directions)
  BY Zenon, Comparisons
<1>3. QED
  BY Zenon, <1>1, <1>2 DEF Leads

(***************************************************************************)
(* rowComesAfter is the lexicographic order: the first keys that differ    *)
(* decide, each in its own direction, and an error says that these do not  *)
(* compare.                                                                *)
(***************************************************************************)
LEMMA KeyOrder ==
  ASSUME NEW d \in Nat, NEW l \in KeyRows(d), NEW r \in KeyRows(d),
         NEW directions \in DirectionLists(d)
  PROVE  LET a == rowComesAfter(l, r, directions)
         IN  /\ a = Boolean(TRUE) <=> ComesFirst(r, l, directions)
             /\ a = Error("TypeMismatch")
                  <=> \E k \in 1..d : DifferAt(k, l, r) /\ ~Compares(l[k], r[k])
             /\ a = Boolean(FALSE) /\ ~ComesFirst(l, r, directions) <=> SameKeys(l, r)
<1>. DEFINE a == rowComesAfter(l, r, directions)
            Up(x, y, k) == IF directions[k] = "asc" THEN Less(x[k], y[k]) ELSE Less(y[k], x[k])
<1>1. /\ DOMAIN directions = 1..d /\ DOMAIN l = 1..d
      /\ \A k \in 1..d : l[k] \in Values /\ r[k] \in Values
  BY Zenon DEF DirectionLists, KeyRows
<1>2. \A k \in 1..d : Ties(l[k], r[k]) <=> Same(l[k], r[k])
  BY Zenon, <1>1, TiesSame
<1>3. \A k \in 1..d : DifferAt(k, r, l) <=> DifferAt(k, l, r)
  BY Zenon DEF DifferAt, Same
<1>4. SameKeys(l, r) <=> \A k \in 1..d : Same(l[k], r[k])
  BY Zenon, <1>1 DEF SameKeys
<1>5. /\ ComesFirst(l, r, directions) <=> \E k \in 1..d : DifferAt(k, l, r) /\ Up(l, r, k)
      /\ ComesFirst(r, l, directions) <=> \E k \in 1..d : DifferAt(k, l, r) /\ Up(r, l, k)
  BY Zenon, <1>1, <1>3 DEF ComesFirst
<1>. HIDE DEF a, Up
<1>6. CASE SameKeys(l, r)
  <2>1. a = Boolean(FALSE)
    BY Zenon, <1>2, <1>4, <1>6, AllTie DEF a
  <2>2. \A k \in 1..d : ~DifferAt(k, l, r)
    BY Zenon, <1>4, <1>6 DEF DifferAt
  <2>3. QED
    BY Zenon, <1>5, <1>6, <2>1, <2>2, Answers DEF a
<1>7. CASE ~SameKeys(l, r)
  <2>1. PICK k \in 1..d : ~Ties(l[k], r[k]) /\ \A m \in 1..(k - 1) : Ties(l[m], r[m])
    BY Zenon, <1>2, <1>4, <1>7, FirstDifference
  <2>2. \A m \in 1..(k - 1) : m \in 1..d
    OBVIOUS
  <2>3. DifferAt(k, l, r)
    BY Zenon, <1>2, <2>1, <2>2 DEF DifferAt
  <2>4. ASSUME NEW m \in 1..d, DifferAt(m, l, r)
        PROVE  m = k
    <3>1. m \notin 1..(k - 1) /\ k \notin 1..(m - 1)
      BY Zenon, <2>3, <2>4 DEF DifferAt
    <3>2. QED
      BY <3>1
  <2>5. /\ ComesFirst(l, r, directions) <=> Up(l, r, k)
        /\ ComesFirst(r, l, directions) <=> Up(r, l, k)
    BY Zenon, <1>5, <2>3, <2>4
  <2>6. (\E m \in 1..d : DifferAt(m, l, r) /\ ~Compares(l[m], r[m])) <=> ~Comparable(l[k], r[k])
    BY Zenon, <1>1, <2>3, <2>4, ComparableCompares
  <2>7. a = IF Comparable(l[k], r[k]) THEN Boolean(Above(l[k], r[k], directions[k]))
                                      ELSE Error("TypeMismatch")
    BY Zenon, <2>1, DecidedAt DEF a
  <2>8. CASE Comparable(l[k], r[k])
    <3>1. Num(l[k]) \in Int /\ Num(r[k]) \in Int /\ Num(l[k]) # Num(r[k])
      BY Zenon, <1>1, <2>1, <2>8, ValueTags DEF Ties
    <3>2. /\ Less(l[k], r[k]) <=> Num(l[k]) < Num(r[k])
          /\ Less(r[k], l[k]) <=> Num(r[k]) < Num(l[k])
      BY Zenon, <1>1, <2>8, LessNumber DEF Comparable
    <3>3. /\ Above(l[k], r[k], directions[k]) \in BOOLEAN
          /\ Above(l[k], r[k], directions[k]) <=> Up(r, l, k)
          /\ Up(r, l, k) \/ Up(l, r, k)
      <4>1. /\ Num(l[k]) < Num(r[k]) \/ Num(r[k]) < Num(l[k])
            /\ (Num(l[k]) > Num(r[k])) \in BOOLEAN /\ (Num(l[k]) < Num(r[k])) \in BOOLEAN
            /\ Num(l[k]) > Num(r[k]) <=> Num(r[k]) < Num(l[k])
        BY <3>1
      <4>2. CASE directions[k] = "asc"
        BY Zenon, <3>2, <4>1, <4>2 DEF Above, Up
      <4>3. CASE directions[k] # "asc"
        BY Zenon, <3>2, <4>1, <4>3 DEF Above, Up
      <4>4. QED
        BY Zenon, <4>2, <4>3
    <3>4. QED
      BY Zenon, <1>7, <2>5, <2>6, <2>7, <2>8, <3>3, Answers DEF a
  <2>9. CASE ~Comparable(l[k], r[k])
    <3>1. ~Less(l[k], r[k]) /\ ~Less(r[k], l[k])
      BY Zenon, <1>1, <2>9, LessNumber DEF Comparable
    <3>2. ~Up(l, r, k) /\ ~Up(r, l, k)
      BY Zenon, <3>1 DEF Up
    <3>3. QED
      BY Zenon, <1>7, <2>5, <2>6, <2>7, <2>9, <3>2, Answers DEF a
  <2>10. QED
    BY Zenon, <2>8, <2>9
<1>8. QED
  BY Zenon, <1>6, <1>7

(* What leads precedes, and what clashes does not compare. *)
LEMMA LeadsPrecedes ==
  ASSUME NEW I, NEW d \in Nat, NEW keys \in [I -> KeyRows(d)], NEW directions \in DirectionLists(d)
  PROVE  /\ \A i, j \in I : Leads(i, j, keys, directions) => Precedes(i, j, keys, directions)
         /\ \A S \in SUBSET I : AnyClash(S, keys, directions) <=> Incomparable(S, keys)
<1>1. \A i \in I : keys[i] \in KeyRows(d) /\ DOMAIN keys[i] = 1..d
  BY Zenon DEF KeyRows
<1>2. \A i, j \in I : /\ Follows(i, j, keys, directions) <=> ComesFirst(keys[j], keys[i], directions)
                      /\ Stays(i, j, keys, directions) /\ ~ComesFirst(keys[i], keys[j], directions)
                           <=> SameKeys(keys[i], keys[j])
  BY Zenon, <1>1, KeyOrder DEF Follows, Stays
<1>3. \A i, j \in I : Clash(i, j, keys, directions)
        <=> \E k \in DOMAIN keys[i] :
              DifferAt(k, keys[i], keys[j]) /\ ~Compares(keys[i][k], keys[j][k])
  <2>1. SUFFICES ASSUME NEW i \in I, NEW j \in I
                 PROVE  Clash(i, j, keys, directions)
                          <=> \E k \in DOMAIN keys[i] :
                                DifferAt(k, keys[i], keys[j]) /\ ~Compares(keys[i][k], keys[j][k])
    BY Zenon
  <2>2. keys[i] \in KeyRows(d) /\ keys[j] \in KeyRows(d) /\ DOMAIN keys[i] = 1..d
    BY ZenonT(30), <1>1
  <2>3. QED
    BY Zenon, <2>2, KeyOrder DEF Clash
<1>4. \A i, j \in I : Stays(i, j, keys, directions) => ~Follows(i, j, keys, directions)
  BY Zenon, Answers DEF Stays, Follows
<1>5. \A i, j \in I : Leads(i, j, keys, directions) => Precedes(i, j, keys, directions)
  BY Zenon, <1>2, <1>4 DEF Leads, Precedes
<1>6. \A S \in SUBSET I : AnyClash(S, keys, directions) <=> Incomparable(S, keys)
  BY ZenonT(30), <1>3 DEF AnyClash, Incomparable
<1>7. QED
  BY Zenon, <1>5, <1>6

-----------------------------------------------------------------------------
(* The inner loop stops at the last of the places that stop it. *)
LEMMA LastStop ==
  ASSUME NEW m \in Nat, NEW stops, stops \subseteq 1..m
  PROVE  /\ StopsAt(stops) \in stops \cup {0}
         /\ \A k \in stops : k <= StopsAt(stops)
<1>. DEFINE T == {k \in 0..m : \A j \in stops : j <= k}
<1>1. m \in T
  OBVIOUS
<1>2. PICK x \in T : \A y \in T : ~(y < x)
  <2>1. T \subseteq Nat /\ T # {}
    BY <1>1
  <2>. HIDE DEF T
  <2>2. QED
    BY Zenon, <2>1, LeastNat
<1>3. x \in stops \cup {0}
  <2>1. SUFFICES ASSUME x \notin stops, x # 0
                 PROVE  FALSE
    BY Zenon
  <2>2. x - 1 \in 0..m /\ x - 1 < x
    BY <1>2, <2>1
  <2>3. \A j \in stops : j <= x - 1
    BY <1>2, <2>1
  <2>4. QED
    BY Zenon, <1>2, <2>2, <2>3
<1>4. \A k \in stops : k <= x
  BY Zenon, <1>2
<1>5. QED
  BY Zenon, <1>3, <1>4 DEF StopsAt

(* The first j items of t stand in order. *)
InOrder(t, j, keys, directions) ==
  \A p, q \in 1..j : p < q => Leads(t[p], t[q], keys, directions)

(* The first j items of u are those of t; the others are in their places. *)
Shuffled(u, t, j, n) ==
  /\ \A p \in 1..j : (\E q \in 1..j : u[p] = t[q]) /\ (\E q \in 1..j : t[p] = u[q])
  /\ \A p \in (j + 1)..n : u[p] = t[p]

(* The item at j of t is at p of u, and those between have moved up. *)
Moved(u, t, j, p, n, I) ==
  /\ u \in [1..n -> I] /\ Shuffled(u, t, j, n)
  /\ \A k \in 1..(p - 1) : u[k] = t[k]
  /\ u[p] = t[j]
  /\ \A k \in (p + 1)..j : u[k] = t[k - 1]

(* Moving an item down shuffles those up to it. *)
LEMMA MovedShuffles ==
  ASSUME NEW n \in Nat, NEW I, NEW t \in [1..n -> I], NEW j \in 1..n, NEW p \in 1..j
  PROVE  Moved(MovedTo(t, j, p), t, j, p, n, I)
<1>. DEFINE u == MovedTo(t, j, p)
<1>1. u = [k \in 1..n |-> IF k = p THEN t[j] ELSE IF k \in (p + 1)..j THEN t[k - 1] ELSE t[k]]
  BY DEF MovedTo
<1>. HIDE DEF u
<1>2. \A k \in 1..n : t[k] \in I
  OBVIOUS
<1>3. /\ j \in 1..n /\ p \in 1..n
      /\ \A k \in (p + 1)..j : k \in 1..n /\ k - 1 \in 1..j /\ k - 1 \in 1..n /\ k # p
      /\ \A k \in 1..(p - 1) : k \in 1..n /\ k \in 1..j /\ k # p /\ k \notin (p + 1)..j
      /\ \A k \in (j + 1)..n : k \in 1..n /\ k # p /\ k \notin (p + 1)..j
      /\ \A k \in 1..j : k \in 1..(p - 1) \/ k = p \/ k \in (p + 1)..j
      /\ \A k \in 1..j : k \in 1..(p - 1) \/ (k + 1 \in (p + 1)..j /\ k + 1 \in 1..j /\ (k + 1) - 1 = k) \/ k = j
  OBVIOUS
<1>4. u \in [1..n -> I]
  <2>1. \A k \in 1..n : (IF k = p THEN t[j] ELSE IF k \in (p + 1)..j THEN t[k - 1] ELSE t[k]) \in I
    BY Zenon, <1>2, <1>3
  <2>2. QED
    BY Zenon, <1>1, <2>1
<1>5. u[p] = t[j]
  BY Zenon, <1>1, <1>3
<1>6. \A k \in (p + 1)..j : u[k] = t[k - 1]
  BY Zenon, <1>1, <1>3
<1>7. \A k \in 1..(p - 1) : u[k] = t[k]
  BY Zenon, <1>1, <1>3
<1>8. \A k \in (j + 1)..n : u[k] = t[k]
  BY Zenon, <1>1, <1>3
<1>9. ASSUME NEW k \in 1..j
      PROVE  \E q \in 1..j : u[k] = t[q]
  <2>1. CASE k \in 1..(p - 1)
    BY Zenon, <2>1, <1>7
  <2>2. CASE k = p
    <3>1. j \in 1..j
      OBVIOUS
    <3>2. QED
      BY Zenon, <2>2, <3>1, <1>5
  <2>3. CASE k \in (p + 1)..j
    BY Zenon, <2>3, <1>3, <1>6
  <2>4. QED
    BY Zenon, <1>3, <2>1, <2>2, <2>3
<1>10. ASSUME NEW k \in 1..j
       PROVE  \E q \in 1..j : t[k] = u[q]
  <2>1. CASE k \in 1..(p - 1)
    BY Zenon, <2>1, <1>7
  <2>2. CASE k = j
    BY Zenon, <2>2, <1>5
  <2>3. CASE k + 1 \in (p + 1)..j /\ k + 1 \in 1..j /\ (k + 1) - 1 = k
    <3>1. u[k + 1] = t[(k + 1) - 1]
      BY Zenon, <2>3, <1>6
    <3>2. QED
      BY Zenon, <2>3, <3>1
  <2>4. QED
    BY Zenon, <1>3, <2>1, <2>2, <2>3
<1>11. QED
  BY Zenon, <1>4, <1>5, <1>6, <1>7, <1>8, <1>9, <1>10 DEF Moved, Shuffled, u

(***************************************************************************)
(* One turn of the insertion sort: the item at j goes to its place among   *)
(* those before it, or it meets one that it does not compare with.  It     *)
(* does not stop short of such an item.                                    *)
(***************************************************************************)
LEMMA SinkOrders ==
  ASSUME NEW I, NEW keys, NEW directions, Ordered(I, keys, directions),
         NEW n \in Nat, NEW t \in [1..n -> I], NEW j \in 1..n,
         InOrder(t, j - 1, keys, directions),
         \A k \in 1..(j - 1) : t[k] < t[j]
  PROVE  LET s == Sink(t, j, keys, directions)
         IN  \/ /\ s = Bad(Error("TypeMismatch"))
                /\ \E k \in 1..(j - 1) : Clash(t[k], t[j], keys, directions)
             \/ \E u \in [1..n -> I] :
                  s = Ok(u) /\ Shuffled(u, t, j, n) /\ InOrder(u, j, keys, directions)
<1>. DEFINE c == t[j]
            after == [k \in 1..(j - 1) |-> rowComesAfter(keys[t[k]], keys[t[j]], directions)]
            stops == {k \in 1..(j - 1) : IsError(after[k]) \/ ~after[k][2]}
            last == StopsAt(stops)
            P(x, y) == Leads(x, y, keys, directions)
<1>1. /\ c \in I /\ j - 1 \in Nat
      /\ \A k \in 1..(j - 1) : t[k] \in I /\ k \in 1..n
  OBVIOUS
<1>2. \A k \in 1..(j - 1) : after[k] = rowComesAfter(keys[t[k]], keys[c], directions)
  BY Zenon
<1>3. stops \subseteq 1..(j - 1)
  BY Zenon
<1>4. Sink(t, j, keys, directions) =
        IF last # 0 /\ IsError(after[last]) THEN Bad(after[last]) ELSE Ok(MovedTo(t, j, last + 1))
  BY Zenon DEF Sink
<1>5. \A k \in 1..(j - 1) : /\ IsError(after[k]) <=> Clash(t[k], c, keys, directions)
                            /\ Clash(t[k], c, keys, directions) => after[k] = Error("TypeMismatch")
                            /\ k \notin stops => Follows(t[k], c, keys, directions)
                            /\ k \in stops => \/ IsError(after[k])
                                              \/ Stays(t[k], c, keys, directions)
  <2>1. SUFFICES ASSUME NEW k \in 1..(j - 1)
                 PROVE  /\ IsError(after[k]) <=> Clash(t[k], c, keys, directions)
                        /\ Clash(t[k], c, keys, directions) => after[k] = Error("TypeMismatch")
                        /\ k \notin stops => Follows(t[k], c, keys, directions)
                        /\ k \in stops => \/ IsError(after[k])
                                          \/ Stays(t[k], c, keys, directions)
    BY Zenon
  <2>2. k \in stops <=> IsError(after[k]) \/ ~after[k][2]
    BY Zenon
  <2>3. t[k] \in I /\ c \in I /\ after[k] = rowComesAfter(keys[t[k]], keys[c], directions)
    BY Zenon, <1>1, <1>2
  <2>. DEFINE a == rowComesAfter(keys[t[k]], keys[c], directions)
  <2>. HIDE DEF after, stops, c
  <2>4. t[k] \in I /\ c \in I
    BY Zenon, <2>3
  <2>5. /\ IsError(a) <=> Clash(t[k], c, keys, directions)
        /\ ~IsError(a) /\ ~a[2] => Stays(t[k], c, keys, directions)
        /\ ~IsError(a) /\ a[2] => Follows(t[k], c, keys, directions)
        /\ Clash(t[k], c, keys, directions) => a = Error("TypeMismatch")
    BY Zenon, <2>4, Comparisons
  <2>6. after[k] = a
    BY Zenon, <2>3
  <2>. HIDE DEF a
  <2>7. QED
    BY Zenon, <2>2, <2>5, <2>6
<1>. HIDE DEF after, stops
<1>6. last \in stops \cup {0} /\ \A k \in stops : k <= last
  BY Zenon, <1>1, <1>3, LastStop
<1>. HIDE DEF last
<1>7. CASE last # 0 /\ IsError(after[last])
  <2>1. last \in 1..(j - 1)
    BY Zenon, <1>3, <1>6, <1>7
  <2>2. Clash(t[last], c, keys, directions) /\ after[last] = Error("TypeMismatch")
    BY Zenon, <1>5, <1>7, <2>1
  <2>3. QED
    BY Zenon, <1>4, <1>7, <2>1, <2>2
<1>8. CASE ~(last # 0 /\ IsError(after[last]))
  <2>. DEFINE p == last + 1
              u == MovedTo(t, j, p)
  <2>1. p \in 1..j /\ last = p - 1 /\ last \in 0..(j - 1)
    BY <1>3, <1>6
  <2>2. ASSUME NEW k \in 1..(p - 1)
        PROVE  P(t[k], c)
    <3>1. last \in stops /\ last \in 1..(j - 1) /\ last # 0
      BY <1>3, <1>6, <2>1
    <3>2. Stays(t[last], c, keys, directions)
      BY Zenon, <1>5, <1>8, <3>1
    <3>3. k \in 1..(j - 1) /\ (k < last \/ k = last)
      BY <2>1
    <3>4. Stays(t[k], c, keys, directions)
      <4>1. CASE k = last
        BY Zenon, <3>2, <4>1
      <4>2. CASE k < last
        <5>1. Leads(t[k], t[last], keys, directions)
          BY Zenon, <3>1, <3>3, <4>2 DEF InOrder
        <5>2. t[k] \in I /\ t[last] \in I
          BY Zenon, <1>1, <3>1, <3>3
        <5>3. Stays(t[k], t[last], keys, directions)
          BY Zenon, <5>1, <5>2, LeadsCompare
        <5>4. QED
          BY Zenon, <1>1, <3>2, <5>2, <5>3 DEF Ordered
      <4>3. QED
        BY Zenon, <3>3, <4>1, <4>2
    <3>5. QED
      BY Zenon, <1>1, <3>3, <3>4, StaysLeads
  <2>3. ASSUME NEW k \in p..(j - 1)
        PROVE  P(c, t[k])
    <3>1. k \in 1..(j - 1) /\ ~(k <= last)
      BY <2>1
    <3>2. Follows(t[k], c, keys, directions)
      BY Zenon, <1>5, <1>6, <3>1
    <3>3. QED
      BY Zenon, <3>2 DEF Leads
  <2>4. \A k, m \in 1..(j - 1) : k < m => P(t[k], t[m])
    BY Zenon DEF InOrder
  <2>5. /\ u \in [1..n -> I] /\ Shuffled(u, t, j, n)
        /\ \A k \in 1..(p - 1) : u[k] = t[k]
        /\ u[p] = c
        /\ \A k \in (p + 1)..j : u[k] = t[k - 1]
    <3>1. p \in 1..j
      BY Zenon, <2>1
    <3>. HIDE DEF p
    <3>2. Moved(u, t, j, p, n, I)
      BY Zenon, <3>1, MovedShuffles
    <3>3. QED
      BY Zenon, <3>2 DEF Moved
  <2>. HIDE DEF P, u, p, c
  <2>6. \A k, m \in 1..j : k < m => P(u[k], u[m])
    BY <2>1, <2>2, <2>3, <2>4, <2>5
  <2>7. InOrder(u, j, keys, directions)
    BY Zenon, <2>6 DEF InOrder, P
  <2>8. Sink(t, j, keys, directions) = Ok(u)
    BY Zenon, <1>4, <1>8 DEF u, p
  <2>9. QED
    BY Zenon, <2>5, <2>7, <2>8
<1>9. QED
  BY Zenon, <1>7, <1>8

-----------------------------------------------------------------------------
(* The states of the sort: the items in some order, or an error. *)
SortStates(n, I) == {Ok(t) : t \in [1..n -> I]} \cup {Bad(Error("TypeMismatch"))}

(* A turn leads from one to another. *)
LEMMA SinkCloses ==
  ASSUME NEW I, NEW keys, NEW directions, Ordered(I, keys, directions),
         NEW n \in Nat, NEW t \in [1..n -> I], NEW j \in 1..n
  PROVE  Sink(t, j, keys, directions) \in SortStates(n, I)
<1>. DEFINE after == [k \in 1..(j - 1) |-> rowComesAfter(keys[t[k]], keys[t[j]], directions)]
            stops == {k \in 1..(j - 1) : IsError(after[k]) \/ ~after[k][2]}
            last == StopsAt(stops)
<1>1. /\ t[j] \in I /\ j - 1 \in Nat
      /\ \A k \in 1..(j - 1) : t[k] \in I /\ k \in 1..n
  OBVIOUS
<1>2. \A k \in 1..(j - 1) : after[k] = rowComesAfter(keys[t[k]], keys[t[j]], directions)
  BY Zenon
<1>3. stops \subseteq 1..(j - 1)
  BY Zenon
<1>4. Sink(t, j, keys, directions) =
        IF last # 0 /\ IsError(after[last]) THEN Bad(after[last]) ELSE Ok(MovedTo(t, j, last + 1))
  BY Zenon DEF Sink
<1>. HIDE DEF after, stops
<1>5. last \in stops \cup {0} /\ \A k \in stops : k <= last
  BY Zenon, <1>1, <1>3, LastStop
<1>. HIDE DEF last
<1>6. CASE last # 0 /\ IsError(after[last])
  <2>1. last \in 1..(j - 1)
    BY Zenon, <1>3, <1>5, <1>6
  <2>2. t[last] \in I /\ after[last] = rowComesAfter(keys[t[last]], keys[t[j]], directions)
    BY Zenon, <1>1, <1>2, <2>1
  <2>3. after[last] = Error("TypeMismatch")
    <3>. DEFINE a == rowComesAfter(keys[t[last]], keys[t[j]], directions)
    <3>1. t[last] \in I /\ t[j] \in I
      BY Zenon, <1>1, <2>2
    <3>2. /\ IsError(a) <=> Clash(t[last], t[j], keys, directions)
          /\ Clash(t[last], t[j], keys, directions) => a = Error("TypeMismatch")
      BY Zenon, <3>1, Comparisons
    <3>. HIDE DEF a
    <3>3. after[last] = a
      BY Zenon, <2>2 DEF a
    <3>4. QED
      BY Zenon, <1>6, <3>2, <3>3
  <2>4. QED
    BY Zenon, <1>4, <1>6, <2>3 DEF SortStates
<1>7. CASE ~(last # 0 /\ IsError(after[last]))
  <2>. DEFINE p == last + 1
  <2>1. p \in 1..j
    BY <1>3, <1>5
  <2>2. Sink(t, j, keys, directions) = Ok(MovedTo(t, j, p))
    BY Zenon, <1>4, <1>7
  <2>. HIDE DEF p
  <2>3. Moved(MovedTo(t, j, p), t, j, p, n, I)
    BY Zenon, <2>1, MovedShuffles
  <2>4. MovedTo(t, j, p) \in [1..n -> I]
    BY Zenon, <2>3 DEF Moved
  <2>5. QED
    BY Zenon, <2>2, <2>4 DEF SortStates
<1>8. QED
  BY Zenon, <1>6, <1>7

(* f[k] is the state after turn k. *)
IsSorting(f, n, s, keys, directions) ==
  f = [k \in 0..n |-> IF k = 0 THEN Ok(s)
                      ELSE Unless(f[k - 1], Sink(f[k - 1].items, k, keys, directions))]

(* The sort is n turns. *)
LEMMA SortTurns ==
  ASSUME NEW I, NEW keys, NEW directions, Ordered(I, keys, directions),
         NEW n \in Nat, NEW s \in [1..n -> I]
  PROVE  \E f : IsSorting(f, n, s, keys, directions) /\ sortIndices(s, keys, directions) = f[n]
<1>. DEFINE S == SortStates(n, I)
            Next(k, x) == Unless(x, Sink(x.items, k, keys, directions))
            step == [x \in (1..n) \X S |-> Next(x[1], x[2])]
<1>1. \A k \in 1..n, x \in S : Next(k, x) \in S
  <2>1. SUFFICES ASSUME NEW k \in 1..n, NEW x \in S
                 PROVE  Next(k, x) \in S
    BY Zenon
  <2>2. CASE x = Bad(Error("TypeMismatch"))
    BY Zenon, <2>2, ResultFields
  <2>3. ASSUME NEW t \in [1..n -> I], x = Ok(t)
        PROVE  Next(k, x) \in S
    <3>1. Next(k, x) = Sink(t, k, keys, directions)
      BY Zenon, <2>3, ResultFields
    <3>2. QED
      BY Zenon, <3>1, SinkCloses
  <2>4. QED
    BY Zenon, <2>2, <2>3 DEF SortStates
<1>2. Ok(s) \in S
  BY Zenon DEF SortStates
<1>. HIDE DEF S, Next
<1>3. step \in [(1..n) \X S -> S]
  BY <1>1
<1>4. \A k \in 1..n, x \in S : step[<<k, x>>] = Next(k, x)
  OBVIOUS
<1>. HIDE DEF step
<1>5. PICK f \in [0..n -> S] : IsLoop(f, n, Ok(s), step)
  BY Zenon, <1>2, <1>3, LoopExists
<1>6. \A k \in 0..n : k # 0 => k \in 1..n /\ k - 1 \in 0..n
  OBVIOUS
<1>7. \A k \in 0..n : (IF k = 0 THEN Ok(s) ELSE step[<<k, f[k - 1]>>])
                        = IF k = 0 THEN Ok(s) ELSE Next(k, f[k - 1])
  BY Zenon, <1>4, <1>6
<1>8. f = [k \in 0..n |-> IF k = 0 THEN Ok(s) ELSE Next(k, f[k - 1])]
  BY Zenon, <1>5, <1>7 DEF IsLoop
<1>9. IsSorting(f, n, s, keys, directions)
  BY Zenon, <1>8 DEF IsSorting, Next
<1>10. Len(s) = n
  BY Zenon, ListLength
<1>11. QED
  BY Zenon, <1>9, <1>10 DEF sortIndices, IsSorting

(* After turn k the first k items are in order, or two of them have clashed. *)
SortedSoFar(x, k, n, I, s, keys, directions) ==
  \/ /\ x = Bad(Error("TypeMismatch"))
     /\ \E p, q \in 1..k : p # q /\ Clash(s[p], s[q], keys, directions)
  \/ \E t \in [1..n -> I] :
       x = Ok(t) /\ Shuffled(t, s, k, n) /\ InOrder(t, k, keys, directions)

(* Two shuffles, the second of one item more, are one. *)
LEMMA ShuffledTwice ==
  ASSUME NEW n \in Nat, NEW j \in 1..n, NEW s, NEW t, NEW u,
         Shuffled(t, s, j - 1, n), Shuffled(u, t, j, n)
  PROVE  Shuffled(u, s, j, n)
<1>1. /\ \A p \in 1..(j - 1) : p \in 1..j
      /\ \A p \in 1..j : p \in 1..(j - 1) \/ p = j
      /\ \A p \in (j + 1)..n : p \in ((j - 1) + 1)..n
      /\ j \in ((j - 1) + 1)..n /\ j \in 1..j
  OBVIOUS
<1>2. t[j] = s[j] /\ \A p \in (j + 1)..n : t[p] = s[p]
  BY Zenon, <1>1 DEF Shuffled
<1>3. \A p \in 1..j : (\E q \in 1..j : t[p] = s[q]) /\ (\E q \in 1..j : s[p] = t[q])
  <2>1. SUFFICES ASSUME NEW p \in 1..j
                 PROVE  (\E q \in 1..j : t[p] = s[q]) /\ (\E q \in 1..j : s[p] = t[q])
    BY Zenon
  <2>2. CASE p = j
    BY Zenon, <1>1, <1>2, <2>2
  <2>3. CASE p \in 1..(j - 1)
    <3>1. (\E q \in 1..(j - 1) : t[p] = s[q]) /\ (\E q \in 1..(j - 1) : s[p] = t[q])
      BY Zenon, <2>3 DEF Shuffled
    <3>2. QED
      BY Zenon, <1>1, <3>1
  <2>4. QED
    BY Zenon, <1>1, <2>2, <2>3
<1>4. \A p \in 1..j : (\E q \in 1..j : u[p] = t[q]) /\ (\E q \in 1..j : t[p] = u[q])
  BY Zenon DEF Shuffled
<1>5. \A p \in 1..j : \E q \in 1..j : u[p] = s[q]
  BY <1>3, <1>4
<1>6. \A p \in 1..j : \E q \in 1..j : s[p] = u[q]
  BY <1>3, <1>4
<1>7. \A p \in (j + 1)..n : u[p] = s[p]
  BY Zenon, <1>2 DEF Shuffled
<1>8. QED
  BY Zenon, <1>5, <1>6, <1>7 DEF Shuffled

(* Every turn keeps it so. *)
LEMMA SortTurn ==
  ASSUME NEW I, NEW keys, NEW directions, Ordered(I, keys, directions),
         NEW n \in Nat, NEW s \in [1..n -> I], \A p, q \in 1..n : p < q => s[p] < s[q],
         NEW k \in 1..n, NEW x, SortedSoFar(x, k - 1, n, I, s, keys, directions)
  PROVE  SortedSoFar(Unless(x, Sink(x.items, k, keys, directions)), k, n, I, s, keys, directions)
<1>. DEFINE y == Unless(x, Sink(x.items, k, keys, directions))
<1>1. /\ \A p \in 1..(k - 1) : p \in 1..k /\ p \in 1..n /\ p < k /\ p # k
      /\ k \in 1..k /\ k \in ((k - 1) + 1)..n
  OBVIOUS
<1>2. CASE /\ x = Bad(Error("TypeMismatch"))
           /\ \E p, q \in 1..(k - 1) : p # q /\ Clash(s[p], s[q], keys, directions)
  <2>1. y = Bad(Error("TypeMismatch"))
    BY Zenon, <1>2, ResultFields
  <2>2. \E p, q \in 1..k : p # q /\ Clash(s[p], s[q], keys, directions)
    BY Zenon, <1>1, <1>2
  <2>3. QED
    BY Zenon, <2>1, <2>2 DEF SortedSoFar
<1>3. ASSUME NEW t \in [1..n -> I],
             x = Ok(t), Shuffled(t, s, k - 1, n), InOrder(t, k - 1, keys, directions)
      PROVE  SortedSoFar(y, k, n, I, s, keys, directions)
  <2>1. y = Sink(t, k, keys, directions)
    BY Zenon, <1>3, ResultFields
  <2>. HIDE DEF y
  <2>2. t[k] = s[k]
    BY Zenon, <1>1, <1>3 DEF Shuffled
  <2>3. \A p \in 1..(k - 1) : \E q \in 1..(k - 1) : t[p] = s[q]
    BY Zenon, <1>3 DEF Shuffled
  <2>4. \A p \in 1..(k - 1) : t[p] < t[k]
    <3>1. SUFFICES ASSUME NEW p \in 1..(k - 1)
                   PROVE  t[p] < t[k]
      BY Zenon
    <3>2. PICK q \in 1..(k - 1) : t[p] = s[q]
      BY Zenon, <2>3
    <3>3. s[q] < s[k]
      BY Zenon, <1>1
    <3>4. QED
      BY Zenon, <2>2, <3>2, <3>3
  <2>. DEFINE Clashes == \E p \in 1..(k - 1) : Clash(t[p], t[k], keys, directions)
              z == Sink(t, k, keys, directions)
  <2>5. \/ z = Bad(Error("TypeMismatch")) /\ Clashes
        \/ \E u \in [1..n -> I] : z = Ok(u) /\ Shuffled(u, t, k, n) /\ InOrder(u, k, keys, directions)
    BY Zenon, <1>3, <2>4, SinkOrders
  <2>. HIDE DEF z
  <2>6. y = z
    BY Zenon, <2>1 DEF z
  <2>7. CASE z = Bad(Error("TypeMismatch")) /\ Clashes
    <3>1. PICK p \in 1..(k - 1) : Clash(t[p], t[k], keys, directions)
      BY Zenon, <2>7
    <3>2. PICK q \in 1..(k - 1) : t[p] = s[q]
      BY Zenon, <2>3
    <3>3. Clash(s[q], s[k], keys, directions) /\ q \in 1..k /\ k \in 1..k /\ q # k
      BY Zenon, <1>1, <2>2, <3>1, <3>2
    <3>4. QED
      BY Zenon, <2>6, <2>7, <3>3 DEF SortedSoFar
  <2>8. ASSUME NEW u \in [1..n -> I],
               z = Ok(u), Shuffled(u, t, k, n), InOrder(u, k, keys, directions)
        PROVE  SortedSoFar(y, k, n, I, s, keys, directions)
    <3>1. Shuffled(u, s, k, n)
      BY Zenon, <1>3, <2>8, ShuffledTwice
    <3>2. QED
      BY Zenon, <2>6, <2>8, <3>1 DEF SortedSoFar
  <2>9. QED
    BY Zenon, <2>5, <2>7, <2>8
<1>4. QED
  BY Zenon, <1>2, <1>3 DEF SortedSoFar

(***************************************************************************)
(* The sort puts the items in order, or it fails because some two of them  *)
(* do not compare.                                                         *)
(***************************************************************************)
LEMMA SortOrders ==
  ASSUME NEW I, NEW keys, NEW directions, Ordered(I, keys, directions),
         NEW n \in Nat, NEW s \in [1..n -> I], \A p, q \in 1..n : p < q => s[p] < s[q]
  PROVE  SortedSoFar(sortIndices(s, keys, directions), n, n, I, s, keys, directions)
<1>1. PICK f : IsSorting(f, n, s, keys, directions) /\ sortIndices(s, keys, directions) = f[n]
  BY SortTurns
<1>2. \A k \in 0..n : f[k] = IF k = 0 THEN Ok(s)
                             ELSE Unless(f[k - 1], Sink(f[k - 1].items, k, keys, directions))
  BY Zenon, <1>1 DEF IsSorting
<1>. DEFINE P == {k \in 0..n : SortedSoFar(f[k], k, n, I, s, keys, directions)}
<1>3. 0 \in 0..n /\ n \in 0..n /\ \A k \in 1..n : k \in 0..n /\ k # 0
  OBVIOUS
<1>4. 0 \in P
  <2>1. f[0] = Ok(s)
    BY Zenon, <1>2, <1>3
  <2>2. Shuffled(s, s, 0, n)
    BY DEF Shuffled
  <2>3. InOrder(s, 0, keys, directions)
    BY DEF InOrder
  <2>4. SortedSoFar(f[0], 0, n, I, s, keys, directions)
    BY Zenon, <2>1, <2>2, <2>3 DEF SortedSoFar
  <2>5. QED
    BY Zenon, <1>3, <2>4
<1>5. ASSUME NEW k \in 1..n, k - 1 \in P
      PROVE  k \in P
  <2>1. SortedSoFar(f[k - 1], k - 1, n, I, s, keys, directions)
    BY Zenon, <1>5
  <2>2. f[k] = Unless(f[k - 1], Sink(f[k - 1].items, k, keys, directions))
    BY Zenon, <1>2, <1>3
  <2>. DEFINE x == f[k - 1]
  <2>. HIDE DEF x
  <2>3. SortedSoFar(x, k - 1, n, I, s, keys, directions)
    BY Zenon, <2>1 DEF x
  <2>4. SortedSoFar(Unless(x, Sink(x.items, k, keys, directions)), k, n, I, s, keys, directions)
    BY Zenon, <2>3, SortTurn
  <2>5. QED
    BY Zenon, <1>3, <2>2, <2>4 DEF x
<1>6. \A k \in 0..n : k \in P
  <2>. HIDE DEF P
  <2>1. QED
    BY Zenon, <1>4, <1>5, EveryTurn
<1>7. QED
  BY Zenon, <1>1, <1>3, <1>6

-----------------------------------------------------------------------------
(* LIMIT takes the first of the items that are in order. *)
LEMMA LimitedLists ==
  ASSUME NEW n \in Nat, NEW I, NEW t \in [1..n -> I], NEW keys, NEW directions,
         InOrder(t, n, keys, directions), NEW limit \in Nat,
         \A i, j \in I : Leads(i, j, keys, directions) => Precedes(i, j, keys, directions),
         NEW S, \A p \in 1..n : t[p] \in S, \A i \in S : \E p \in 1..n : t[p] = i
  PROVE  ListsFirst(Limited(t, limit), S, limit, keys, directions)
<1>. DEFINE m == IF limit < n THEN limit ELSE n
            s == SubSeq(t, 1, m)
            P(i, j) == Precedes(i, j, keys, directions)
<1>1. t \in Seq(I) /\ Len(t) = n
  BY Zenon, ListLength
<1>2. m \in 0..n /\ m <= limit /\ (m = n \/ m = limit)
  OBVIOUS
<1>3. Limited(t, limit) = s
  BY Zenon, <1>1 DEF Limited
<1>. HIDE DEF m
<1>4. Len(s) = m /\ \A p \in 1..m : s[p] = t[p]
  BY <1>1, <1>2, SubSeqProperties
<1>. HIDE DEF s
<1>5. \A p, q \in 1..n : p < q => P(t[p], t[q])
  BY Zenon DEF InOrder
<1>. HIDE DEF P
<1>6. \A p \in 1..m : p \in 1..n /\ s[p] = t[p]
  BY <1>2, <1>4
<1>7. \A p \in 1..m : s[p] \in S
  BY Zenon, <1>6
<1>8. \A p, q \in 1..m : p < q => P(s[p], s[q])
  BY Zenon, <1>5, <1>6
<1>9. ASSUME NEW i \in S
      PROVE  (\E p \in 1..m : s[p] = i) \/ (m = limit /\ \A p \in 1..m : P(s[p], i))
  <2>1. PICK q \in 1..n : t[q] = i
    BY Zenon
  <2>2. CASE q \in 1..m
    BY Zenon, <1>6, <2>1, <2>2
  <2>3. CASE q \notin 1..m
    <3>1. m = limit /\ \A p \in 1..m : p < q
      BY <1>2, <2>3
    <3>2. \A p \in 1..m : P(t[p], t[q])
      BY Zenon, <1>5, <1>6, <3>1
    <3>3. QED
      BY Zenon, <1>6, <2>1, <3>1, <3>2
  <2>4. QED
    BY Zenon, <2>2, <2>3
<1>10. ListsFirst(s, S, limit, keys, directions)
  BY Zenon, <1>2, <1>4, <1>7, <1>8, <1>9 DEF ListsFirst, P
<1>11. QED
  BY Zenon, <1>3, <1>10

-----------------------------------------------------------------------------
(* Items in order compare with each other. *)
LEMMA InOrderCompares ==
  ASSUME NEW I, NEW keys, NEW directions, Ordered(I, keys, directions),
         NEW n \in Nat, NEW t \in [1..n -> I], InOrder(t, n, keys, directions),
         NEW p \in 1..n, NEW q \in 1..n, p # q
  PROVE  ~Clash(t[p], t[q], keys, directions)
<1>1. t[p] \in I /\ t[q] \in I
  OBVIOUS
<1>2. p < q \/ q < p
  OBVIOUS
<1>3. CASE p < q
  <2>1. Leads(t[p], t[q], keys, directions)
    BY Zenon, <1>3 DEF InOrder
  <2>2. QED
    BY Zenon, <1>1, <2>1, LeadsCompare
<1>4. CASE q < p
  <2>1. Leads(t[q], t[p], keys, directions)
    BY Zenon, <1>4 DEF InOrder
  <2>2. QED
    BY Zenon, <1>1, <2>1, LeadsCompare
<1>5. QED
  BY Zenon, <1>2, <1>3, <1>4

(* r is an error because two items of S do not compare, or all of S in order. *)
SortedOrNot(r, S, n, keys, directions) ==
  \/ r = Bad(Error("TypeMismatch")) /\ AnyClash(S, keys, directions)
  \/ /\ ~AnyClash(S, keys, directions)
     /\ \E m \in Nat : \E t \in [1..m -> 1..n] :
          /\ r = Ok(t) /\ InOrder(t, m, keys, directions)
          /\ \A p \in 1..m : t[p] \in S
          /\ \A i \in S : \E p \in 1..m : t[p] = i

(***************************************************************************)
(* Sorting what WHERE has selected: an error exactly when two of the rows  *)
(* do not compare, and otherwise all of them in order.                     *)
(***************************************************************************)
LEMMA SelectedSorted ==
  ASSUME NEW n \in Nat, NEW tests \in [1..n -> Tests], NEW s, Passed(s, n, n, tests),
         NEW keys, NEW directions, Ordered(1..n, keys, directions),
         NEW S, S = {i \in 1..n : tests[i] = Boolean(TRUE)}
  PROVE  SortedOrNot(sortIndices(s, keys, directions), S, n, keys, directions)
<1>. DEFINE r == sortIndices(s, keys, directions)
            m == Len(s)
            I == 1..n
<1>1. m \in Nat /\ s \in [1..m -> I]
  BY LenProperties DEF Passed
<1>2. \A p, q \in 1..m : p < q => s[p] < s[q]
  BY Zenon DEF Passed
<1>3. \A p \in 1..m : s[p] \in S
  BY Zenon DEF Passed
<1>4. \A i \in S : \E p \in 1..m : s[p] = i
  BY Zenon DEF Passed
<1>5. S \subseteq 1..n
  BY Zenon
<1>6. AnyClash(S, keys, directions) <=> \E i, j \in S : i # j /\ Clash(i, j, keys, directions)
  BY Zenon DEF AnyClash
<1>. HIDE DEF m
<1>7. SortedSoFar(r, m, m, I, s, keys, directions)
  <2>. HIDE DEF I
  <2>1. Ordered(I, keys, directions)
    BY Zenon DEF I
  <2>2. QED
    BY Zenon, <1>1, <1>2, <2>1, SortOrders
<1>. HIDE DEF r
<1>8. CASE /\ r = Bad(Error("TypeMismatch"))
           /\ \E p, q \in 1..m : p # q /\ Clash(s[p], s[q], keys, directions)
  <2>1. PICK p, q \in 1..m : p # q /\ Clash(s[p], s[q], keys, directions)
    BY Zenon, <1>8
  <2>2. s[p] # s[q]
    <3>1. p < q \/ q < p
      BY <1>1, <2>1
    <3>2. s[p] \in 1..n /\ s[q] \in 1..n
      BY <1>1
    <3>3. s[p] < s[q] \/ s[q] < s[p]
      BY Zenon, <1>2, <3>1
    <3>4. QED
      BY <3>2, <3>3
  <2>3. AnyClash(S, keys, directions)
    BY Zenon, <1>3, <1>6, <2>1, <2>2
  <2>4. QED
    BY Zenon, <1>8, <2>3 DEF r, SortedOrNot
<1>9. ASSUME NEW t \in [1..m -> I],
             r = Ok(t), Shuffled(t, s, m, m), InOrder(t, m, keys, directions)
      PROVE  /\ ~AnyClash(S, keys, directions)
             /\ \A p \in 1..m : t[p] \in S
             /\ \A i \in S : \E p \in 1..m : t[p] = i
  <2>1. \A p \in 1..m : (\E q \in 1..m : t[p] = s[q]) /\ (\E q \in 1..m : s[p] = t[q])
    BY Zenon, <1>9 DEF Shuffled
  <2>2. \A p \in 1..m : t[p] \in S
    BY Zenon, <1>3, <2>1
  <2>3. ASSUME NEW i \in S
        PROVE  \E p \in 1..m : t[p] = i
    <3>1. PICK q \in 1..m : s[q] = i
      BY Zenon, <1>4
    <3>2. PICK p \in 1..m : s[q] = t[p]
      BY Zenon, <2>1
    <3>3. QED
      BY Zenon, <3>1, <3>2
  <2>4. ASSUME NEW i \in S, NEW j \in S, i # j, Clash(i, j, keys, directions)
        PROVE  FALSE
    <3>1. PICK p \in 1..m : t[p] = i
      BY Zenon, <2>3
    <3>2. PICK q \in 1..m : t[q] = j
      BY Zenon, <2>3
    <3>3. p # q /\ Clash(t[p], t[q], keys, directions)
      BY Zenon, <2>4, <3>1, <3>2
    <3>. HIDE DEF I
    <3>4. Ordered(I, keys, directions)
      BY Zenon DEF I
    <3>5. QED
      BY Zenon, <1>1, <1>9, <3>3, <3>4, InOrderCompares
  <2>5. QED
    BY Zenon, <1>6, <2>2, <2>3, <2>4
<1>10. QED
  <2>1. (\E t \in [1..m -> I] :
           r = Ok(t) /\ Shuffled(t, s, m, m) /\ InOrder(t, m, keys, directions))
        => /\ ~AnyClash(S, keys, directions)
           /\ \E t \in [1..m -> I] :
                /\ r = Ok(t) /\ InOrder(t, m, keys, directions)
                /\ \A p \in 1..m : t[p] \in S
                /\ \A i \in S : \E p \in 1..m : t[p] = i
    BY Zenon, <1>9
  <2>2. QED
    BY Zenon, <1>1, <1>7, <1>8, <2>1 DEF SortedSoFar, SortedOrNot, r

(***************************************************************************)
(* A query that the parser and the resolver let through: rows of one       *)
(* width, columns that there are, and a direction for every key.           *)
(***************************************************************************)
IsSelect(rows, where, order_by, directions, limit) ==
  \E w \in Nat : /\ rows \in Seq([1..w -> Values])
                 /\ where \in {<<>>} \cup ((1..w) \X Int)
                 /\ order_by \in Seq(1..w)
                 /\ directions \in DirectionLists(Len(order_by))
                 /\ limit \in Nat

(***************************************************************************)
(* SELECT returns the first LIMIT of the rows that WHERE accepts, in the   *)
(* order of the keys and in table order among equals, and fails exactly    *)
(* when WHERE fails on a row or two accepted rows do not compare: the      *)
(* insertion sort never stops before it meets such a pair.                 *)
(***************************************************************************)
THEOREM SelectOrders ==
  ASSUME NEW rows, NEW where, NEW order_by, NEW directions, NEW limit,
         IsSelect(rows, where, order_by, directions, limit)
  PROVE  SelectAgrees(rows, where, order_by, directions, limit)
<1>1. PICK w \in Nat : /\ rows \in Seq([1..w -> Values])
                       /\ where \in {<<>>} \cup ((1..w) \X Int)
                       /\ order_by \in Seq(1..w)
                       /\ directions \in DirectionLists(Len(order_by))
                       /\ limit \in Nat
  BY Zenon DEF IsSelect
<1>. DEFINE n == Len(rows)
            tests == [i \in DOMAIN rows |-> matchesWhere(rows[i], where)]
            S == {i \in DOMAIN rows : Accepts(rows[i], where)}
            keys == OrderKeys(rows, order_by)
            filtered == Matching(tests)
            sorted == Unless(filtered, sortIndices(filtered.items, keys, directions))
            result == executeSelect(rows, where, order_by, directions, limit)
            Fails == \E i \in DOMAIN rows : Refuses(rows[i], where)
<1>2. n \in Nat /\ DOMAIN rows = 1..n /\ \A i \in 1..n : rows[i] \in [1..w -> Values]
  BY <1>1, LenProperties, ElementOfSeq
<1>3. tests \in [1..n -> Tests]
  <2>1. \A i \in 1..n : matchesWhere(rows[i], where) \in Tests
    BY Zenon, <1>1, <1>2, WhereAnswers
  <2>2. QED
    BY Zenon, <1>2, <2>1
<1>4. /\ Ordered(1..n, keys, directions)
      /\ \A i, j \in 1..n : Leads(i, j, keys, directions) => Precedes(i, j, keys, directions)
      /\ \A T \in SUBSET (1..n) : AnyClash(T, keys, directions) <=> Incomparable(T, keys)
  <2>1. keys \in [1..n -> KeyRows(Len(order_by))] /\ Len(order_by) \in Nat
    BY Zenon, <1>1, SelectKeys, LenProperties
  <2>. HIDE DEF keys, n
  <2>2. QED
    BY Zenon, <1>1, <2>1, KeysOrdered, LeadsPrecedes
<1>5. result = Unless(sorted, Ok(Limited(sorted.items, limit)))
  BY Zenon DEF executeSelect
<1>6. SelectAgrees(rows, where, order_by, directions, limit) <=>
        IF Fails \/ Incomparable(S, keys)
          THEN result.error = "TypeMismatch"
          ELSE result.error = "" /\ ListsFirst(result.items, S, limit, keys, directions)
  BY Zenon DEF SelectAgrees
<1>7. \A i \in 1..n : /\ tests[i] = Boolean(TRUE) <=> Accepts(rows[i], where)
                      /\ tests[i] = Error("TypeMismatch") <=> Refuses(rows[i], where)
  BY Zenon, <1>1, <1>2, WhereAnswers
<1>8. /\ Fails <=> \E i \in 1..n : tests[i] = Error("TypeMismatch")
      /\ S = {i \in 1..n : tests[i] = Boolean(TRUE)}
      /\ AnyClash(S, keys, directions) <=> Incomparable(S, keys)
  <2>1. Fails <=> \E i \in 1..n : tests[i] = Error("TypeMismatch")
    BY Zenon, <1>2, <1>7
  <2>2. S = {i \in 1..n : tests[i] = Boolean(TRUE)}
    BY Zenon, <1>2, <1>7
  <2>3. S \in SUBSET (1..n)
    BY Zenon, <1>2
  <2>. HIDE DEF S, Fails
  <2>4. QED
    BY Zenon, <1>4, <2>1, <2>2, <2>3
<1>9. PassedSoFar(filtered, n, n, tests)
  <2>. HIDE DEF tests, n
  <2>1. QED
    BY Zenon, <1>2, <1>3, MatchingFinds
<1>. HIDE DEF tests, n, keys, filtered, result, Fails
<1>10. CASE filtered = Bad(Error("TypeMismatch")) /\ \E p \in 1..n : tests[p] = Error("TypeMismatch")
  <2>1. sorted = Bad(Error("TypeMismatch"))
    BY Zenon, <1>10, ResultFields
  <2>2. result = Bad(Error("TypeMismatch"))
    BY Zenon, <1>5, <2>1, ResultFields
  <2>3. result.error = "TypeMismatch" /\ Fails
    BY Zenon, <1>8, <1>10, <2>2, ResultFields
  <2>4. QED
    BY Zenon, <1>6, <2>3
<1>11. ASSUME \A p \in 1..n : tests[p] # Error("TypeMismatch"),
              NEW s, filtered = Ok(s), Passed(s, n, n, tests)
       PROVE  SelectAgrees(rows, where, order_by, directions, limit)
  <2>. DEFINE r == sortIndices(s, keys, directions)
  <2>1. sorted = r /\ ~Fails
    BY Zenon, <1>8, <1>11, ResultFields
  <2>. HIDE DEF S
  <2>2. SortedOrNot(r, S, n, keys, directions)
    BY Zenon, <1>2, <1>3, <1>4, <1>8, <1>11, SelectedSorted
  <2>. HIDE DEF r, sorted
  <2>3. CASE r = Bad(Error("TypeMismatch")) /\ AnyClash(S, keys, directions)
    <3>1. result = Bad(Error("TypeMismatch"))
      BY Zenon, <1>5, <2>1, <2>3, ResultFields
    <3>2. QED
      BY Zenon, <1>6, <1>8, <2>3, <3>1, ResultFields
  <2>4. ASSUME ~AnyClash(S, keys, directions), NEW m \in Nat, NEW t \in [1..m -> 1..n],
               r = Ok(t), InOrder(t, m, keys, directions), \A p \in 1..m : t[p] \in S,
               \A i \in S : \E p \in 1..m : t[p] = i
        PROVE  SelectAgrees(rows, where, order_by, directions, limit)
    <3>1. result = Ok(Limited(t, limit))
      BY ZenonT(30), <1>5, <2>1, <2>4, ResultFields
    <3>2. ListsFirst(Limited(t, limit), S, limit, keys, directions)
      BY Zenon, <1>1, <1>4, <2>4, LimitedLists
    <3>3. result.error = "" /\ result.items = Limited(t, limit)
      BY Zenon, <3>1, ResultFields
    <3>4. QED
      BY Zenon, <1>6, <1>8, <2>1, <2>4, <3>2, <3>3
  <2>5. QED
    BY Zenon, <2>2, <2>3, <2>4 DEF SortedOrNot
<1>12. QED
  BY Zenon, <1>9, <1>10, <1>11 DEF PassedSoFar

(* The law the run checks of its small row sets, of every query. *)
THEOREM EverySelectOrdered ==
  ASSUME input.of = "select" =>
           IsSelect(input.rows, input.where, input.order_by, input.directions, input.limit)
  PROVE  SelectIsOrdered
BY Zenon, SelectOrders DEF SelectIsOrdered

-----------------------------------------------------------------------------
(* Candidates for the search, with their distances. *)
Candidates == Seq([key : Int, distance : Int])

(* The keys that candidates are sorted by. *)
LEMMA DistanceKeyRows ==
  ASSUME NEW candidates \in Candidates
  PROVE  LET n == Len(candidates)
             keys == DistanceKeys(candidates)
         IN  /\ n \in Nat /\ DOMAIN candidates = 1..n
             /\ \A k \in 1..n : candidates[k].distance \in Int /\ candidates[k].key \in Int
             /\ keys = [k \in 1..n |-> <<Integer(candidates[k].distance), Integer(candidates[k].key)>>]
             /\ keys \in [1..n -> KeyRows(2)]
<1>. DEFINE keys == DistanceKeys(candidates)
            n == Len(candidates)
<1>1. n \in Nat /\ DOMAIN candidates = 1..n /\ \A k \in 1..n : candidates[k] \in [key : Int, distance : Int]
  BY Zenon, LenProperties, ElementOfSeq DEF Candidates
<1>2. \A k \in 1..n : candidates[k].distance \in Int /\ candidates[k].key \in Int
  BY <1>1
<1>3. \A x \in Int : Integer(x) \in Values
  BY DEF Values
<1>4. keys = [k \in 1..n |-> <<Integer(candidates[k].distance), Integer(candidates[k].key)>>]
  BY Zenon, <1>1 DEF DistanceKeys
<1>5. \A u, v \in Values : <<u, v>> \in KeyRows(2)
  BY DEF KeyRows
<1>6. keys \in [1..n -> KeyRows(2)]
  <2>1. \A k \in 1..n : <<Integer(candidates[k].distance), Integer(candidates[k].key)>> \in KeyRows(2)
    BY Zenon, <1>2, <1>3, <1>5
  <2>2. QED
    BY Zenon, <1>4, <2>1
<1>7. QED
  BY Zenon, <1>1, <1>2, <1>4, <1>6

(* resultComesAfter: by distance, and then by key. *)
Farther(a, b) == a.distance > b.distance \/ (a.distance = b.distance /\ a.key > b.key)

(* resultComesAfter compares the distances and then the keys. *)
LEMMA ResultComesAfter ==
  ASSUME NEW candidates \in Candidates, NEW i \in 1..Len(candidates), NEW j \in 1..Len(candidates)
  PROVE  LET keys == DistanceKeys(candidates)
             after == rowComesAfter(keys[i], keys[j], <<"asc", "asc">>)
         IN  \/ after = Boolean(TRUE) /\ Farther(candidates[i], candidates[j])
             \/ after = Boolean(FALSE) /\ ~Farther(candidates[i], candidates[j])
<1>. DEFINE keys == DistanceKeys(candidates)
            n == Len(candidates)
            a == candidates[i]
            b == candidates[j]
            directions == <<"asc", "asc">>
            l == keys[i]
            r == keys[j]
            after == rowComesAfter(l, r, directions)
<1>2. \A k \in 1..n : candidates[k].distance \in Int /\ candidates[k].key \in Int
  BY Zenon, DistanceKeyRows
<1>3. \A x \in Int : Num(Integer(x)) = x
  BY DEF Num, Integer
<1>4. keys = [k \in 1..n |-> <<Integer(candidates[k].distance), Integer(candidates[k].key)>>]
  BY Zenon, DistanceKeyRows
<1>6. keys \in [1..n -> KeyRows(2)]
  BY Zenon, DistanceKeyRows
<1>7. directions \in DirectionLists(2) /\ directions[1] = "asc" /\ directions[2] = "asc"
  BY DEF DirectionLists
<1>8. /\ l = <<Integer(a.distance), Integer(a.key)>> /\ r = <<Integer(b.distance), Integer(b.key)>>
      /\ l \in KeyRows(2) /\ r \in KeyRows(2)
  BY Zenon, <1>4, <1>6
<1>9. /\ a.distance \in Int /\ a.key \in Int /\ b.distance \in Int /\ b.key \in Int
  BY Zenon, <1>2
<1>. HIDE DEF keys, l, r, a, b, directions
<1>10. /\ l[1] = Integer(a.distance) /\ l[2] = Integer(a.key)
       /\ r[1] = Integer(b.distance) /\ r[2] = Integer(b.key)
  <2>1. \A u, v : <<u, v>>[1] = u /\ <<u, v>>[2] = v
    OBVIOUS
  <2>2. QED
    BY Zenon, <1>8, <2>1
<1>11. /\ Comparable(l[1], r[1]) /\ Comparable(l[2], r[2])
       /\ Num(l[1]) = a.distance /\ Num(l[2]) = a.key
       /\ Num(r[1]) = b.distance /\ Num(r[2]) = b.key
  <2>1. \A x, y \in Int : Comparable(Integer(x), Integer(y))
    BY DEF Comparable, Integer
  <2>2. QED
    BY Zenon, <1>3, <1>9, <1>10, <2>1
<1>12. /\ Ties(l[1], r[1]) <=> a.distance = b.distance
       /\ Ties(l[2], r[2]) <=> a.key = b.key
  BY Zenon, <1>11 DEF Ties
<1>13. /\ 2 \in Nat /\ 1 \in 1..2 /\ 2 \in 1..2 /\ \A k \in 1..2 : k = 1 \/ k = 2
       /\ \A k \in 1..(1 - 1) : FALSE
       /\ \A k \in 1..(2 - 1) : k = 1
  OBVIOUS
<1>14. CASE a.distance # b.distance
  <2>1. \A k \in 1..(1 - 1) : Ties(l[k], r[k])
    BY Zenon, <1>13
  <2>2. after = Boolean(Above(l[1], r[1], directions[1]))
    BY Zenon, <1>7, <1>8, <1>11, <1>12, <1>13, <1>14, <2>1, DecidedAt
  <2>3. \/ Above(l[1], r[1], directions[1]) = TRUE /\ Farther(a, b)
        \/ Above(l[1], r[1], directions[1]) = FALSE /\ ~Farther(a, b)
    BY <1>7, <1>9, <1>11, <1>14 DEF Above, Farther
  <2>4. QED
    BY Zenon, <2>2, <2>3 DEF keys, l, r, a, b, directions
<1>15. CASE a.distance = b.distance /\ a.key # b.key
  <2>1. \A k \in 1..(2 - 1) : Ties(l[k], r[k])
    BY Zenon, <1>12, <1>13, <1>15
  <2>2. after = Boolean(Above(l[2], r[2], directions[2]))
    BY ZenonT(30), <1>7, <1>8, <1>11, <1>12, <1>13, <1>15, <2>1, DecidedAt
  <2>3. \/ Above(l[2], r[2], directions[2]) = TRUE /\ Farther(a, b)
        \/ Above(l[2], r[2], directions[2]) = FALSE /\ ~Farther(a, b)
    BY <1>7, <1>9, <1>11, <1>15 DEF Above, Farther
  <2>4. QED
    BY Zenon, <2>2, <2>3 DEF keys, l, r, a, b, directions
<1>16. CASE a.distance = b.distance /\ a.key = b.key
  <2>1. \A k \in 1..2 : Ties(l[k], r[k])
    BY Zenon, <1>12, <1>13, <1>16
  <2>2. after = Boolean(FALSE)
    BY Zenon, <1>7, <1>8, <1>13, <2>1, AllTie
  <2>3. ~Farther(a, b)
    BY <1>9, <1>16 DEF Farther
  <2>4. QED
    BY Zenon, <2>2, <2>3 DEF keys, l, r, a, b, directions
<1>17. QED
  BY Zenon, <1>14, <1>15, <1>16

(* The order of the sort is the order of the search. *)
LEMMA LeadsIsNearer ==
  ASSUME NEW candidates \in Candidates, NEW i \in 1..Len(candidates), NEW j \in 1..Len(candidates),
         Leads(i, j, DistanceKeys(candidates), <<"asc", "asc">>)
  PROVE  Nearer(i, j, candidates)
<1>. DEFINE keys == DistanceKeys(candidates)
            directions == <<"asc", "asc">>
            a == candidates[i]
            b == candidates[j]
            x == rowComesAfter(keys[i], keys[j], directions)
            y == rowComesAfter(keys[j], keys[i], directions)
<1>1. (x = Boolean(TRUE) /\ Farther(a, b)) \/ (x = Boolean(FALSE) /\ ~Farther(a, b))
  BY Zenon, ResultComesAfter
<1>2. (y = Boolean(TRUE) /\ Farther(b, a)) \/ (y = Boolean(FALSE) /\ ~Farther(b, a))
  BY Zenon, ResultComesAfter
<1>3. y = Boolean(TRUE) \/ (y = Boolean(FALSE) /\ x = Boolean(FALSE) /\ i < j)
  BY Zenon DEF Leads, Follows, Stays
<1>4. a.distance \in Int /\ a.key \in Int /\ b.distance \in Int /\ b.key \in Int
  BY Zenon, DistanceKeyRows
<1>. HIDE DEF x, y, a, b
<1>5. Farther(b, a) \/ (~Farther(a, b) /\ ~Farther(b, a) /\ i < j)
  BY Zenon, <1>1, <1>2, <1>3, Answers
<1>6. \/ a.distance < b.distance
      \/ a.distance = b.distance /\ a.key < b.key
      \/ a.distance = b.distance /\ a.key = b.key /\ i < j
  BY <1>4, <1>5 DEF Farther
<1>7. QED
  BY Zenon, <1>6 DEF Nearer, a, b

(***************************************************************************)
(* sortResults puts all the candidates in order: their distances and keys  *)
(* always compare.                                                         *)
(***************************************************************************)
LEMMA ResultsSorted ==
  ASSUME NEW candidates \in Candidates
  PROVE  LET n == Len(candidates)
         IN  \E t \in [1..n -> 1..n] :
               /\ sortResults(candidates) = Ok(t)
               /\ InOrder(t, n, DistanceKeys(candidates), <<"asc", "asc">>)
               /\ \A i \in 1..n : \E p \in 1..n : t[p] = i
<1>. DEFINE n == Len(candidates)
            keys == DistanceKeys(candidates)
            directions == <<"asc", "asc">>
            all == [i \in 1..n |-> i]
            I == 1..n
            r == sortIndices(all, keys, directions)
<1>1. n \in Nat /\ DOMAIN candidates = 1..n /\ keys \in [1..n -> KeyRows(2)]
  BY Zenon, DistanceKeyRows
<1>2. directions \in DirectionLists(2) /\ 2 \in Nat
  BY DEF DirectionLists
<1>3. \A i, j \in 1..n : ~Clash(i, j, keys, directions)
  <2>1. SUFFICES ASSUME NEW i \in 1..n, NEW j \in 1..n
                 PROVE  ~Clash(i, j, keys, directions)
    BY Zenon
  <2>2. \/ rowComesAfter(keys[i], keys[j], directions) = Boolean(TRUE)
        \/ rowComesAfter(keys[i], keys[j], directions) = Boolean(FALSE)
    BY Zenon, ResultComesAfter
  <2>3. QED
    BY Zenon, <2>2, Answers DEF Clash
<1>4. sortResults(candidates) = r
  BY Zenon, <1>1 DEF sortResults
<1>. HIDE DEF keys, directions, n
<1>5. Ordered(I, keys, directions)
  BY Zenon, <1>1, <1>2, KeysOrdered
<1>6. /\ all \in [1..n -> I]
      /\ \A p, q \in 1..n : p < q => all[p] < all[q]
      /\ \A p \in 1..n : all[p] = p
  BY Zenon, <1>1, AllNumbers
<1>. HIDE DEF all, I
<1>7. SortedSoFar(r, n, n, I, all, keys, directions)
  BY Zenon, <1>1, <1>5, <1>6, SortOrders
<1>. HIDE DEF r
<1>8. ~\E p, q \in 1..n : p # q /\ Clash(all[p], all[q], keys, directions)
  BY Zenon, <1>3, <1>6
<1>9. PICK t \in [1..n -> I] :
        r = Ok(t) /\ Shuffled(t, all, n, n) /\ InOrder(t, n, keys, directions)
  BY Zenon, <1>7, <1>8 DEF SortedSoFar
<1>10. \A i \in 1..n : \E p \in 1..n : t[p] = i
  <2>1. \A i \in 1..n : \E p \in 1..n : all[i] = t[p]
    BY Zenon, <1>9 DEF Shuffled
  <2>2. QED
    BY Zenon, <1>6, <2>1
<1>11. QED
  BY Zenon, <1>4, <1>9, <1>10 DEF n, keys, directions, I

(* Cutting a list at the limit. *)
LEMMA LimitedIs ==
  ASSUME NEW n \in Nat, NEW I, NEW t \in [1..n -> I], NEW limit \in Nat
  PROVE  \E m \in 0..n : /\ m <= limit /\ (m < limit => m = n)
                         /\ DOMAIN Limited(t, limit) = 1..m
                         /\ \A p \in 1..m : p \in 1..n /\ Limited(t, limit)[p] = t[p]
<1>. DEFINE m == IF limit < n THEN limit ELSE n
            s == SubSeq(t, 1, m)
<1>1. t \in Seq(I) /\ Len(t) = n
  BY Zenon, ListLength
<1>2. m \in 0..n /\ m <= limit /\ (m < limit => m = n)
  OBVIOUS
<1>3. Limited(t, limit) = s
  BY Zenon, <1>1 DEF Limited
<1>. HIDE DEF m
<1>4. s \in Seq(I) /\ Len(s) = m /\ \A p \in 1..m : s[p] = t[p]
  BY <1>1, <1>2, SubSeqProperties
<1>5. DOMAIN s = 1..m
  BY <1>4
<1>6. \A p \in 1..m : p \in 1..n
  BY <1>2
<1>. HIDE DEF s
<1>7. QED
  BY Zenon, <1>2, <1>3, <1>4, <1>5, <1>6

(* What the limit cuts off comes after what it keeps. *)
LEMMA BeyondCut ==
  ASSUME NEW n \in Nat, NEW m \in 0..n, NEW q \in 1..n, q \notin 1..m
  PROVE  \A p \in 1..m : p < q
OBVIOUS

(***************************************************************************)
(* topK on any candidates and any limit: the answer is a list of distinct  *)
(* candidates, nearest first, the smaller key first at the same distance   *)
(* and the first to come first at the same distance and key. It is shorter *)
(* than the limit only when it holds them all, and every candidate left    *)
(* out comes after all that are in it.                                     *)
(***************************************************************************)
THEOREM TopKNearest ==
  ASSUME NEW candidates \in Candidates, NEW limit \in Nat
  PROVE  TopKAgrees(candidates, limit)
<1>. DEFINE n == Len(candidates)
            keys == DistanceKeys(candidates)
            directions == <<"asc", "asc">>
            N(i, j) == Nearer(i, j, candidates)
<1>1. n \in Nat /\ DOMAIN candidates = 1..n
  BY Zenon, DistanceKeyRows
<1>2. PICK t \in [1..n -> 1..n] :
        /\ sortResults(candidates) = Ok(t)
        /\ InOrder(t, n, keys, directions)
        /\ \A i \in 1..n : \E p \in 1..n : t[p] = i
  BY Zenon, ResultsSorted
<1>3. \A p, q \in 1..n : p < q => N(t[p], t[q])
  <2>1. SUFFICES ASSUME NEW p \in 1..n, NEW q \in 1..n, p < q PROVE N(t[p], t[q])
    BY Zenon
  <2>2. t[p] \in 1..n /\ t[q] \in 1..n
    OBVIOUS
  <2>3. Leads(t[p], t[q], keys, directions)
    BY Zenon, <1>2, <2>1 DEF InOrder
  <2>4. QED
    BY Zenon, <2>2, <2>3, LeadsIsNearer
<1>4. PICK m \in 0..n :
        /\ m <= limit /\ (m < limit => m = n)
        /\ DOMAIN Limited(t, limit) = 1..m
        /\ \A p \in 1..m : p \in 1..n /\ Limited(t, limit)[p] = t[p]
  BY Zenon, <1>1, LimitedIs
<1>. DEFINE s == [p \in 1..m |-> t[p]]
<1>5. s \in [1..m -> DOMAIN candidates] /\ \A p \in 1..m : p \in 1..n /\ s[p] = t[p]
  BY Zenon, <1>1, <1>4
<1>6. topK(candidates, limit) = [k \in 1..m |-> candidates[s[k]]]
  <2>1. sortResults(candidates).items = t
    BY Zenon, <1>2, ResultFields
  <2>2. topK(candidates, limit) = [k \in 1..m |-> candidates[Limited(t, limit)[k]]]
    BY Zenon, <1>4, <2>1 DEF topK
  <2>3. \A k \in 1..m : candidates[Limited(t, limit)[k]] = candidates[s[k]]
    BY Zenon, <1>4, <1>5
  <2>4. QED
    BY Zenon, <2>2, <2>3
<1>. HIDE DEF s, N
<1>7. \A p, q \in 1..m : p < q => N(s[p], s[q])
  BY Zenon, <1>3, <1>5
<1>8. ASSUME NEW i \in DOMAIN candidates, \A p \in 1..m : s[p] # i
      PROVE  \A p \in 1..m : N(s[p], i)
  <2>1. PICK q \in 1..n : t[q] = i
    BY Zenon, <1>1, <1>2, <1>8
  <2>2. q \notin 1..m
    BY Zenon, <1>5, <1>8, <2>1
  <2>3. \A p \in 1..m : p < q
    BY Zenon, <1>1, <2>2, BeyondCut
  <2>4. QED
    BY Zenon, <1>3, <1>5, <2>1, <2>3
<1>9. QED
  BY Zenon, <1>4, <1>5, <1>6, <1>7, <1>8 DEF TopKAgrees, N

(* NearestFirst for every search, not only those that the run enumerates. *)
THEOREM EveryTopKNearest ==
  ASSUME input.of = "topK" => input.candidates \in Candidates /\ input.limit \in Nat
  PROVE  NearestFirst
BY Zenon, TopKNearest DEF NearestFirst

=============================================================================
