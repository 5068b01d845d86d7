----------------------------- MODULE DdlProofs ------------------------------
(* Theorems about TableDef and Ddl. *)
EXTENDS Ddl, TLAPS

-----------------------------------------------------------------------------
(* Lists of things that have a name. *)

NamesIn(list) == {list[k].name : k \in DOMAIN list}

Unique(list) == \A j, k \in DOMAIN list : list[j].name = list[k].name => j = k

(* A list of members of S is one of members of a larger set. *)
LEMMA WiderList ==
  ASSUME NEW S, NEW T, S \subseteq T, NEW list \in Seq(S)
  PROVE  list \in Seq(T)
OBVIOUS

(* Two lists, one after the other. *)
LEMMA Joined ==
  ASSUME NEW S, NEW a \in Seq(S), NEW b \in Seq(S)
  PROVE  /\ a \o b \in Seq(S)
         /\ Len(a \o b) = Len(a) + Len(b)
         /\ \A k \in 1..(Len(a) + Len(b)) :
              (a \o b)[k] = IF k <= Len(a) THEN a[k] ELSE b[k - Len(a)]
OBVIOUS

(* A list without its i-th element. *)
LEMMA RemoveProperties ==
  ASSUME NEW S, NEW s \in Seq(S), NEW i \in DOMAIN s
  PROVE  /\ orderedRemove(s, i) \in Seq(S)
         /\ Len(orderedRemove(s, i)) = Len(s) - 1
         /\ \A k \in 1..(Len(s) - 1) :
              orderedRemove(s, i)[k] = IF k < i THEN s[k] ELSE s[k + 1]
<1>. DEFINE a == SubSeq(s, 1, i - 1)
            b == SubSeq(s, i + 1, Len(s))
<1>1. i \in 1..Len(s)
  OBVIOUS
<1>2. /\ a \in Seq(S)
      /\ Len(a) = i - 1
      /\ \A k \in 1..(i - 1) : a[k] = s[k]
  BY <1>1
<1>3. /\ b \in Seq(S)
      /\ Len(b) = Len(s) - i
      /\ \A k \in 1..(Len(s) - i) : b[k] = s[i + k]
  BY <1>1
<1>. DEFINE c == a \o b
<1>4. orderedRemove(s, i) = c
  BY DEF orderedRemove
<1>. HIDE DEF a, b
<1>5. /\ c \in Seq(S)
      /\ Len(c) = Len(a) + Len(b)
      /\ \A k \in 1..(Len(a) + Len(b)) : c[k] = IF k <= Len(a) THEN a[k] ELSE b[k - Len(a)]
  BY Zenon, <1>2, <1>3, Joined
<1>. HIDE DEF c
<1>6. ASSUME NEW k \in 1..(Len(s) - 1)
      PROVE  c[k] = IF k < i THEN s[k] ELSE s[k + 1]
  <2>1. CASE k < i
    <3>1. k \in 1..(i - 1) /\ k \in 1..(Len(a) + Len(b)) /\ k <= Len(a)
      BY <1>1, <1>2, <1>3, <2>1
    <3>. QED
      BY <1>2, <1>5, <2>1, <3>1
  <2>2. CASE ~(k < i)
    <3>1. Len(a) = i - 1 /\ Len(b) = Len(s) - i /\ i \in Nat /\ k \in Nat /\ Len(s) \in Nat
      BY <1>1, <1>2, <1>3
    <3>2. ~(k <= Len(a)) /\ k \in 1..(Len(a) + Len(b))
      BY <2>2, <3>1
    <3>3. k - Len(a) \in 1..(Len(s) - i)
      BY <2>2, <3>1
    <3>4. i + (k - Len(a)) = k + 1
      BY <3>1
    <3>. QED
      BY Zenon, <1>3, <1>5, <2>2, <3>2, <3>3, <3>4
  <2>. QED
    BY <2>1, <2>2
<1>7. Len(c) = Len(s) - 1
  BY <1>1, <1>2, <1>3, <1>5
<1>. QED
  BY Zenon, <1>4, <1>5, <1>6, <1>7

(* findTableIndex gives the place of the name, which is one when names are unique. *)
LEMMA FindIndex ==
  ASSUME NEW S, NEW list \in Seq(S), NEW n
  PROVE  /\ n \in NamesIn(list) => /\ findTableIndex(list, n) \in DOMAIN list
                                   /\ list[findTableIndex(list, n)].name = n
         /\ n \notin NamesIn(list) => findTableIndex(list, n) = 0
BY DEF findTableIndex, NamesIn

(* A name that is looked up is found where it is. *)
LEMMA FoundIndex ==
  ASSUME NEW S, NEW list \in Seq(S), Unique(list), NEW k \in DOMAIN list
  PROVE  findTableIndex(list, list[k].name) = k
BY FindIndex DEF Unique, NamesIn

(* A list without the element of one name. *)
LEMMA RemoveName ==
  ASSUME NEW S, NEW list \in Seq(S), Unique(list), NEW n \in NamesIn(list),
         NEW r, r = orderedRemove(list, findTableIndex(list, n))
  PROVE  /\ r \in Seq(S)
         /\ \A k \in DOMAIN r : \E j \in DOMAIN list : r[k] = list[j] /\ list[j].name # n
         /\ NamesIn(r) = NamesIn(list) \ {n}
         /\ Unique(r)
<1>. DEFINE i == findTableIndex(list, n)
            to(k) == IF k < i THEN k ELSE k + 1
<1>1. i \in DOMAIN list /\ list[i].name = n
  BY FindIndex
<1>. HIDE DEF i
<1>2. r \in Seq(S) /\ Len(r) = Len(list) - 1
  BY <1>1, RemoveProperties DEF i
<1>3. ASSUME NEW k \in DOMAIN r
      PROVE  to(k) \in DOMAIN list /\ to(k) # i /\ r[k] = list[to(k)]
  <2>1. k \in 1..(Len(list) - 1) /\ i \in 1..Len(list)
    BY <1>1, <1>2
  <2>2. r[k] = IF k < i THEN list[k] ELSE list[k + 1]
    BY Zenon, <1>1, <2>1, RemoveProperties DEF i
  <2>. QED
    BY <2>1, <2>2
<1>4. \A k \in DOMAIN r : list[to(k)].name # n
  BY <1>1, <1>3 DEF Unique
<1>5. \A j, k \in DOMAIN r : to(j) = to(k) => j = k
  BY <1>1, <1>2
<1>6. ASSUME NEW j \in DOMAIN list, list[j].name # n
      PROVE  \E k \in DOMAIN r : r[k] = list[j]
  <2>. DEFINE k == IF j < i THEN j ELSE j - 1
  <2>1. k \in DOMAIN r /\ to(k) = j
    BY <1>1, <1>2, <1>6
  <2>. QED
    BY <1>3, <2>1
<1>7. Unique(r)
  BY <1>3, <1>5 DEF Unique
<1>. HIDE DEF to
<1>8. NamesIn(r) = NamesIn(list) \ {n}
  BY <1>3, <1>4, <1>6 DEF NamesIn
<1>. QED
  BY <1>2, <1>3, <1>4, <1>7, <1>8

-----------------------------------------------------------------------------
(* Definitions of tables. *)

(* The column of a definition: its attributes, and that it has the name it had. *)
LEMMA ColumnDefFields ==
  ASSUME NEW c \in ColumnSpecs, NEW indexes
  PROVE  /\ ColumnDef(c, indexes) \in ColumnSpecs
         /\ ColumnDef(c, indexes).name = c.name
         /\ ColumnDef(c, indexes).nullable
              = (effectiveNullable(c) /\ ~InPrimary(c, indexes))
         /\ ColumnDef(c, indexes).primary_key = (c.primary_key \/ InPrimary(c, indexes))
         /\ ColumnDef(c, indexes).auto_increment = c.auto_increment
BY Zenon DEF ColumnDef, ColumnSpecs, effectiveNullable, InPrimary

(* What an index definition holds. *)
LEMMA IndexDefFields ==
  ASSUME NEW x \in IndexSpecs(Identifiers \cup {NoName}), x.columns # <<>>
  PROVE  /\ IndexDef(x) \in IndexSpecs(Identifiers)
         /\ IndexDef(x).name # NoName
         /\ IndexDef(x).columns = x.columns
         /\ IndexDef(x).primary = x.primary
<1>1. x.columns \in Seq(Identifiers) /\ x.name \in Identifiers \cup {NoName} /\ x.primary \in BOOLEAN
  BY DEF IndexSpecs
<1>2. x.columns[1] \in Identifiers
  BY <1>1
<1>. DEFINE name == IF x.name # NoName THEN x.name
                    ELSE IF x.primary THEN "PRIMARY" ELSE x.columns[1]
<1>3. name \in Identifiers /\ name # NoName
  <2>1. CASE x.name # NoName
    BY <1>1, <2>1
  <2>2. CASE x.name = NoName /\ x.primary
    BY <2>2, NullsAssumption
  <2>3. CASE x.name = NoName /\ ~x.primary
    BY <1>2, <2>3, NullsAssumption
  <2>. QED
    BY <2>1, <2>2, <2>3
<1>4. IndexDef(x) = [x EXCEPT !.name = name]
  BY DEF IndexDef
<1>. HIDE DEF name
<1>. QED
  BY <1>3, <1>4 DEF IndexSpecs

(* An index that has a name keeps it. *)
LEMMA NamedIndex ==
  ASSUME NEW x \in IndexSpecs(Identifiers)
  PROVE  IndexDef(x) = x
BY NullsAssumption DEF IndexDef, IndexSpecs

(* A column that has been through ColumnDef comes out as it is. *)
LEMMA ColumnDefTwice ==
  ASSUME NEW c \in ColumnSpecs, NEW indexes, NEW named,
         InPrimary(c, indexes) <=> InPrimary(ColumnDef(c, indexes), named)
  PROVE  ColumnDef(ColumnDef(c, indexes), named) = ColumnDef(c, indexes)
<1>. DEFINE d == ColumnDef(c, indexes)
<1>1. d \in ColumnSpecs /\ ColumnDef(d, named) \in ColumnSpecs
  BY ColumnDefFields
<1>2. d.nullable = (effectiveNullable(c) /\ ~InPrimary(c, indexes))
  BY ColumnDefFields
<1>3. d.primary_key = (c.primary_key \/ InPrimary(c, indexes))
  BY ColumnDefFields
<1>4. d.auto_increment = c.auto_increment
  BY ColumnDefFields
<1>5. (effectiveNullable(d) /\ ~InPrimary(d, named)) = d.nullable
  BY <1>2, <1>3, <1>4, Zenon DEF effectiveNullable
<1>6. (d.primary_key \/ InPrimary(d, named)) = d.primary_key
  BY <1>3, Zenon
<1>. HIDE DEF d
<1>7. ColumnDef(d, named) = [d EXCEPT !.nullable = d.nullable, !.primary_key = d.primary_key]
  BY <1>5, <1>6, Zenon DEF ColumnDef
<1>8. [d EXCEPT !.nullable = d.nullable, !.primary_key = d.primary_key] = d
  BY Zenon, <1>1 DEF ColumnSpecs
<1>. QED
  BY <1>7, <1>8 DEF d

(* TableDef.init gives a definition, or an error. *)
LEMMA InitType ==
  ASSUME NEW spec \in TableSpecs, init(spec) # Rejected
  PROVE  /\ init(spec) \in Definitions
         /\ init(spec).columns = [k \in DOMAIN spec.columns |->
                                    ColumnDef(spec.columns[k], spec.indexes)]
         /\ init(spec).indexes = [k \in DOMAIN spec.indexes |-> IndexDef(spec.indexes[k])]
         /\ \A k \in DOMAIN spec.indexes : spec.indexes[k].columns # <<>>
<1>. DEFINE cs == [k \in DOMAIN spec.columns |-> ColumnDef(spec.columns[k], spec.indexes)]
            xs == [k \in DOMAIN spec.indexes |-> IndexDef(spec.indexes[k])]
<1>1. init(spec) = [columns |-> cs, indexes |-> xs]
  BY DEF init
<1>2. \A k \in DOMAIN spec.indexes : spec.indexes[k].columns # <<>>
  BY DEF init
<1>3. /\ spec.columns \in Seq(ColumnSpecs)
      /\ spec.indexes \in Seq(IndexSpecs(Identifiers \cup {NoName}))
  BY DEF TableSpecs
<1>4. cs \in Seq(ColumnSpecs)
  <2>1. \A k \in DOMAIN spec.columns : ColumnDef(spec.columns[k], spec.indexes) \in ColumnSpecs
    BY <1>3, ColumnDefFields
  <2>. QED
    BY <1>3, <2>1
<1>5. xs \in Seq(IndexSpecs(Identifiers))
  <2>1. ASSUME NEW k \in DOMAIN spec.indexes
        PROVE  IndexDef(spec.indexes[k]) \in IndexSpecs(Identifiers)
    <3>1. spec.indexes[k] \in IndexSpecs(Identifiers \cup {NoName})
      BY <1>3
    <3>. QED
      BY Zenon, <1>2, <3>1, IndexDefFields
  <2>. QED
    BY <1>3, <2>1
<1>. HIDE DEF cs, xs
<1>6. init(spec).columns = cs /\ init(spec).indexes = xs
  BY <1>1
<1>7. [columns |-> cs, indexes |-> xs] \in Definitions
  BY <1>4, <1>5 DEF Definitions
<1>. QED
  BY <1>1, <1>2, <1>6, <1>7 DEF cs, xs

(* A definition is a specification whose indexes all have names. *)
LEMMA DefinitionsAreSpecs == Definitions \subseteq TableSpecs
<1>1. IndexSpecs(Identifiers) \subseteq IndexSpecs(Identifiers \cup {NoName})
  BY DEF IndexSpecs
<1>2. Seq(IndexSpecs(Identifiers))
        \subseteq Seq(IndexSpecs(Identifiers \cup {NoName}))
  BY Zenon, <1>1, WiderList
<1>. QED
  BY Zenon, <1>2 DEF Definitions, TableSpecs

(***************************************************************************)
(* TableDef.init of a definition that it has made itself (cloneTableDef,   *)
(* decodeTable, initFromSnapshot) either fails or changes nothing: copies  *)
(* of a table never differ from it.                                        *)
(***************************************************************************)
THEOREM InitTwice ==
  ASSUME NEW spec \in TableSpecs, init(spec) # Rejected,
         init(init(spec)) # Rejected
  PROVE  init(init(spec)) = init(spec)
<1>. DEFINE d == init(spec)
<1>1. d \in Definitions /\ d \in TableSpecs
  BY Zenon, InitType, DefinitionsAreSpecs
<1>2. /\ spec.columns \in Seq(ColumnSpecs)
      /\ spec.indexes \in Seq(IndexSpecs(Identifiers \cup {NoName}))
      /\ d.columns \in Seq(ColumnSpecs)
      /\ d.indexes \in Seq(IndexSpecs(Identifiers))
  BY <1>1 DEF TableSpecs, Definitions
<1>3. /\ d.columns = [k \in DOMAIN spec.columns |-> ColumnDef(spec.columns[k], spec.indexes)]
      /\ d.indexes = [k \in DOMAIN spec.indexes |-> IndexDef(spec.indexes[k])]
      /\ \A k \in DOMAIN spec.indexes : spec.indexes[k].columns # <<>>
  BY InitType
<1>4. /\ init(d) = [columns |-> init(d).columns, indexes |-> init(d).indexes]
      /\ d = [columns |-> d.columns, indexes |-> d.indexes]
      /\ init(d).columns = [k \in DOMAIN d.columns |-> ColumnDef(d.columns[k], d.indexes)]
      /\ init(d).indexes = [k \in DOMAIN d.indexes |-> IndexDef(d.indexes[k])]
  BY <1>1, InitType DEF Definitions
<1>. HIDE DEF d
<1>5. ASSUME NEW k \in DOMAIN d.indexes
      PROVE  /\ d.indexes[k].columns = spec.indexes[k].columns
             /\ d.indexes[k].primary = spec.indexes[k].primary
  <2>1. /\ spec.indexes[k] \in IndexSpecs(Identifiers \cup {NoName})
        /\ spec.indexes[k].columns # <<>>
        /\ d.indexes[k] = IndexDef(spec.indexes[k])
    BY <1>2, <1>3
  <2>. QED
    BY Zenon, <2>1, IndexDefFields
<1>6. ASSUME NEW k \in DOMAIN d.columns
      PROVE  ColumnDef(d.columns[k], d.indexes) = d.columns[k]
  <2>1. spec.columns[k] \in ColumnSpecs /\ d.columns[k] = ColumnDef(spec.columns[k], spec.indexes)
    BY <1>2, <1>3
  <2>2. d.columns[k].name = spec.columns[k].name
    BY <2>1, ColumnDefFields
  <2>3. DOMAIN d.indexes = DOMAIN spec.indexes
    BY <1>3
  <2>4. InPrimary(spec.columns[k], spec.indexes) <=> InPrimary(d.columns[k], d.indexes)
    BY <1>5, <2>2, <2>3, Zenon DEF InPrimary
  <2>. QED
    BY <2>1, <2>4, ColumnDefTwice
<1>7. \A k \in DOMAIN d.indexes : IndexDef(d.indexes[k]) = d.indexes[k]
  BY <1>2, NamedIndex
<1>8. init(d).columns = d.columns
  BY <1>2, <1>4, <1>6
<1>9. init(d).indexes = d.indexes
  BY <1>2, <1>4, <1>7
<1>. QED
  BY <1>4, <1>8, <1>9 DEF d

-----------------------------------------------------------------------------
(* The catalog, the stores and the registries. *)

Entries == [name : Names, def : Definitions]

States == [name : Names, rows : SUBSET Names, table : Nat]

SavedTables == [name : Names, def : Definitions, rows : SUBSET Names]

(* The states of tables stand for the definitions, and point to them. *)
Matching(defs, states) ==
  /\ defs \in Seq(Entries) /\ Unique(defs)
  /\ states \in Seq(States) /\ Unique(states)
  /\ NamesIn(states) = NamesIn(defs)
  /\ \A k \in DOMAIN states : /\ states[k].table \in DOMAIN defs
                              /\ defs[states[k].table].name = states[k].name

(* Tables, views and procedures do not share names. *)
Apart(ts, vs, ps) == vs \cap ts = {} /\ ps \cap (ts \cup vs) = {}

(***************************************************************************)
(* The inductive invariant of the catalog.  The file is part of it: what   *)
(* it holds becomes the catalog when it is opened.                         *)
(***************************************************************************)
CatalogInv ==
  /\ TypeOK
  /\ Matching(db_catalog.tables, tables)
  /\ views = db_catalog.views
  /\ DOMAIN procedures = db_catalog.procedures
  /\ Apart(NamesIn(tables), views, DOMAIN procedures)
  /\ Unique(saved.tables)
  /\ Apart(NamesIn(saved.tables), saved.views, saved.procedures)

(* The invariant is strong enough. *)
LEMMA CatalogInvImplies == CatalogInv => CatalogAgrees
BY Zenon DEF CatalogInv, CatalogAgrees, Matching, Apart, Unique, NamesIn, TableNames, NameOf

(* A list with one more element. *)
LEMMA AppendName ==
  ASSUME NEW S, NEW list \in Seq(S), NEW x \in S
  PROVE  /\ Append(list, x) \in Seq(S)
         /\ Len(Append(list, x)) = Len(list) + 1
         /\ NamesIn(Append(list, x)) = NamesIn(list) \cup {x.name}
         /\ Unique(list) /\ x.name \notin NamesIn(list) => Unique(Append(list, x))
<1>. DEFINE r == Append(list, x)
<1>1. /\ r \in Seq(S) /\ Len(r) = Len(list) + 1
      /\ \A k \in 1..Len(list) : r[k] = list[k]
      /\ r[Len(list) + 1] = x
  OBVIOUS
<1>2. DOMAIN r = DOMAIN list \cup {Len(list) + 1} /\ DOMAIN list = 1..Len(list)
  BY <1>1
<1>. HIDE DEF r
<1>3. NamesIn(r) = NamesIn(list) \cup {x.name}
  BY <1>1, <1>2 DEF NamesIn
<1>4. Unique(list) /\ x.name \notin NamesIn(list) => Unique(r)
  BY <1>1, <1>2 DEF Unique, NamesIn
<1>. QED
  BY <1>1, <1>3, <1>4 DEF r

(* refreshTablePointers, when every state has a definition. *)
LEMMA Refreshed ==
  ASSUME NEW defs \in Seq(Entries), Unique(defs),
         NEW states \in Seq(States), Unique(states),
         NamesIn(states) = NamesIn(defs)
  PROVE  /\ Matching(defs, refreshTablePointers(states, defs))
         /\ NamesIn(refreshTablePointers(states, defs)) = NamesIn(states)
         /\ DOMAIN refreshTablePointers(states, defs) = DOMAIN states
         /\ \A k \in DOMAIN states :
              /\ refreshTablePointers(states, defs)[k].name = states[k].name
              /\ refreshTablePointers(states, defs)[k].rows = states[k].rows
<1>. DEFINE r == refreshTablePointers(states, defs)
<1>1. ASSUME NEW k \in DOMAIN states
      PROVE  /\ r[k] \in States
             /\ r[k].name = states[k].name
             /\ r[k].rows = states[k].rows
             /\ r[k].table \in DOMAIN defs
             /\ defs[r[k].table].name = states[k].name
  <2>. DEFINE i == findTableIndex(defs, states[k].name)
  <2>1. states[k] \in States /\ states[k].name \in NamesIn(defs)
    <3>1. states[k].name \in NamesIn(states)
      BY Zenon DEF NamesIn
    <3>. QED
      BY <3>1
  <2>2. i \in DOMAIN defs /\ defs[i].name = states[k].name /\ i \in Nat
    BY <2>1, FindIndex
  <2>3. r[k] = [states[k] EXCEPT !.table = i]
    BY DEF refreshTablePointers
  <2>. HIDE DEF i, r
  <2>. QED
    BY Zenon, <2>1, <2>2, <2>3 DEF States
<1>2. DOMAIN r = DOMAIN states /\ r \in Seq(States)
  <2>1. r = [k \in DOMAIN states |-> r[k]]
    BY DEF refreshTablePointers
  <2>. HIDE DEF r
  <2>. QED
    BY <1>1, <2>1
<1>. HIDE DEF r
<1>3. Unique(r)
  BY <1>1, <1>2 DEF Unique
<1>4. NamesIn(r) = NamesIn(states)
  <2>1. \A k \in DOMAIN states : r[k].name = states[k].name
    BY <1>1
  <2>. QED
    BY <1>2, <2>1, Zenon DEF NamesIn
<1>. QED
  BY <1>1, <1>2, <1>3, <1>4 DEF r, Matching

(* An empty database has an empty catalog. *)
LEMMA InitCatalogInv == Init => CatalogInv
<1>. SUFFICES ASSUME Init PROVE CatalogInv
  OBVIOUS
<1>1. /\ db_catalog.tables = <<>> /\ tables = <<>> /\ saved.tables = <<>>
      /\ db_catalog.views = {} /\ views = {} /\ saved.views = {}
      /\ db_catalog.procedures = {} /\ DOMAIN procedures = {} /\ saved.procedures = {}
  BY DEF Init, NoTransactions
<1>2. TypeOK
  <2>1. \A s \in Sessions : transactions[s] = NoTransactions /\ DOMAIN NoTransactions = {}
    BY DEF Init, NoTransactions
  <2>2. NoTransactions \in [{} -> Pointers] /\ NoTransactions \in [{} -> Nat]
    BY DEF NoTransactions
  <2>3. /\ DOMAIN procedures \subseteq Names
        /\ procedures \in [DOMAIN procedures -> Nat]
    BY <2>1, <2>2 DEF Init
  <2>4. /\ DOMAIN transactions = Sessions
        /\ \A s \in Sessions : /\ DOMAIN transactions[s] \subseteq Names
                               /\ transactions[s] \in [DOMAIN transactions[s] -> Pointers]
    BY <2>1, <2>2 DEF Init
  <2>5. /\ db_catalog \in [tables : Seq(Entries), views : SUBSET Names, procedures : SUBSET Names]
        /\ saved \in [tables : Seq(SavedTables), views : SUBSET Names, procedures : SUBSET Names]
    BY DEF Init
  <2>6. tables \in Seq(States) /\ views \in SUBSET Names /\ active \in [Sessions -> BOOLEAN]
    BY DEF Init
  <2>7. wild \in BOOLEAN /\ loud \in BOOLEAN
    BY Zenon DEF Init
  <2>. QED
    BY <2>3, <2>4, <2>5, <2>6, <2>7, Zenon DEF TypeOK, Entries, SavedTables, States
<1>3. Matching(<<>>, <<>>) /\ Unique(<<>>) /\ NamesIn(<<>>) = {}
  BY DEF Matching, Unique, NamesIn
<1>. QED
  BY <1>1, <1>2, <1>3 DEF CatalogInv, Apart

(* A name that is used is that of a table, a view or a procedure. *)
LEMMA NameUsedWhere ==
  ASSUME CatalogInv, NEW n, ~NameUsed(n)
  PROVE  n \notin NamesIn(tables) \cup views \cup DOMAIN procedures
<1>1. n \notin NamesIn(db_catalog.tables)
  <2>1. db_catalog.tables \in Seq(Entries) /\ DOMAIN db_catalog.tables \subseteq Nat \ {0}
    BY DEF CatalogInv, Matching
  <2>. QED
    BY <2>1, FindIndex DEF NameUsed
<1>. QED
  BY <1>1 DEF CatalogInv, Matching, NameUsed

(* What a change of the lists has to show. *)
LEMMA ListsChange ==
  ASSUME CatalogInv,
         db_catalog' = [db_catalog EXCEPT !.tables = db_catalog'.tables],
         Matching(db_catalog'.tables, tables'),
         Apart(NamesIn(tables'), views, DOMAIN procedures),
         ListChanges,
         DOMAIN transactions' = Sessions,
         \A s \in Sessions : /\ DOMAIN transactions'[s] \subseteq Names
                             /\ transactions'[s] \in [DOMAIN transactions'[s] -> Pointers],
         UNCHANGED <<views, procedures, active, saved, wild>>
  PROVE  CatalogInv'
<1>1. /\ db_catalog'.views = db_catalog.views
      /\ db_catalog'.procedures = db_catalog.procedures
      /\ db_catalog' \in [tables : Seq(Entries), views : SUBSET Names, procedures : SUBSET Names]
  BY Zenon DEF CatalogInv, TypeOK, Matching, Entries
<1>2. loud' \in BOOLEAN
  BY DEF ListChanges
<1>3. TypeOK'
  BY <1>1, <1>2 DEF CatalogInv, TypeOK, Matching, Entries, States
<1>. QED
  BY <1>1, <1>3 DEF CatalogInv

(* CREATE TABLE keeps the catalog in step. *)
LEMMA CreateTableCatalog ==
  ASSUME CatalogInv, NEW n \in Names, NEW stmt \in Statements, createTable(n, stmt)
  PROVE  CatalogInv'
<1>. DEFINE e    == [name |-> n, def |-> init(TableSpec(stmt))]
            defs == Append(db_catalog.tables, e)
            x    == [name |-> n, rows |-> {}, table |-> Len(defs)]
            states == Append(tables, x)
<1>1. n \notin NamesIn(tables) \cup views \cup DOMAIN procedures
  BY NameUsedWhere DEF createTable
<1>2. e \in Entries
  BY Zenon, InitType, StatementsAssumption DEF createTable, Entries
<1>3. defs \in Seq(Entries) /\ Len(defs) \in Nat
  BY <1>2 DEF CatalogInv, Matching
<1>4. x \in States
  BY <1>3 DEF States
<1>5. /\ db_catalog' = [db_catalog EXCEPT !.tables = defs]
      /\ tables' = refreshTablePointers(states, defs)
  BY DEF createTable
<1>. HIDE DEF e, x
<1>6. /\ NamesIn(defs) = NamesIn(db_catalog.tables) \cup {n}
      /\ Unique(defs)
  BY <1>1, <1>2, AppendName DEF CatalogInv, Matching, e
<1>7. /\ NamesIn(states) = NamesIn(tables) \cup {n}
      /\ Unique(states) /\ states \in Seq(States)
  BY <1>1, <1>4, AppendName DEF CatalogInv, Matching, x
<1>. HIDE DEF defs, states
<1>8. /\ Matching(defs, tables')
      /\ NamesIn(tables') = NamesIn(tables) \cup {n}
  <2>1. NamesIn(tables) = NamesIn(db_catalog.tables)
    BY DEF CatalogInv, Matching
  <2>2. NamesIn(states) = NamesIn(defs)
    BY <1>3, <1>5, <1>6, <1>7, <2>1
  <2>3. /\ Matching(defs, refreshTablePointers(states, defs))
        /\ NamesIn(refreshTablePointers(states, defs)) = NamesIn(states)
    BY Zenon, <1>3, <1>5, <1>6, <1>7, <2>2, Refreshed
  <2>. QED
    BY Zenon, <1>3, <1>5, <1>6, <1>7, <2>3
<1>9. db_catalog'.tables = defs
  BY <1>5 DEF CatalogInv, TypeOK
<1>10. /\ DOMAIN transactions' = Sessions
       /\ \A s \in Sessions :
            /\ DOMAIN transactions'[s] \subseteq Names
            /\ transactions'[s] \in [DOMAIN transactions'[s] -> Pointers]
  <2>1. CASE transactions' = transactions
    BY <2>1 DEF CatalogInv, TypeOK
  <2>2. CASE transactions' = [s \in Sessions |->
          [t \in DOMAIN transactions[s] |-> [transactions[s][t] EXCEPT !.moved = TRUE]]]
    <3>1. \A s \in Sessions : \A t \in DOMAIN transactions[s] :
            [transactions[s][t] EXCEPT !.moved = TRUE] \in Pointers
      <4>1. \A p \in Pointers : [p EXCEPT !.moved = TRUE] \in Pointers
        BY Zenon DEF Pointers
      <4>2. \A s \in Sessions : \A t \in DOMAIN transactions[s] : transactions[s][t] \in Pointers
        BY DEF CatalogInv, TypeOK
      <4>. QED
        BY <4>1, <4>2
    <3>2. \A s \in Sessions : DOMAIN transactions'[s] = DOMAIN transactions[s]
      BY <2>2
    <3>3. \A s \in Sessions : DOMAIN transactions[s] \subseteq Names
      BY DEF CatalogInv, TypeOK
    <3>. QED
      BY Zenon, <2>2, <3>1, <3>2, <3>3
  <2>. QED
    BY <2>1, <2>2 DEF createTable
<1>11. Apart(NamesIn(tables'), views, DOMAIN procedures)
  BY <1>1, <1>8 DEF CatalogInv, Apart
<1>. QED
  BY Zenon, <1>5, <1>8, <1>9, <1>10, <1>11, ListsChange DEF createTable

(* DROP TABLE keeps the catalog in step. *)
LEMMA DropTableCatalog ==
  ASSUME CatalogInv, NEW n \in Names, dropTable(n)
  PROVE  CatalogInv'
<1>. DEFINE defs   == orderedRemove(db_catalog.tables, findTableIndex(db_catalog.tables, n))
            states == orderedRemove(tables, findTableIndex(tables, n))
<1>1. n \in NamesIn(tables) /\ n \in NamesIn(db_catalog.tables)
  BY Zenon DEF dropTable, TableNames, NameOf, NamesIn, CatalogInv, Matching
<1>2. /\ db_catalog' = [db_catalog EXCEPT !.tables = defs]
      /\ tables' = refreshTablePointers(states, defs)
  BY DEF dropTable
<1>3. defs \in Seq(Entries) /\ Unique(defs) /\ NamesIn(defs) = NamesIn(db_catalog.tables) \ {n}
  BY <1>1, RemoveName DEF CatalogInv, Matching
<1>4. states \in Seq(States) /\ Unique(states) /\ NamesIn(states) = NamesIn(tables) \ {n}
  BY <1>1, RemoveName DEF CatalogInv, Matching
<1>. HIDE DEF defs, states
<1>5. Matching(defs, tables') /\ NamesIn(tables') = NamesIn(tables) \ {n}
  <2>1. NamesIn(tables) = NamesIn(db_catalog.tables)
    BY DEF CatalogInv, Matching
  <2>2. NamesIn(states) = NamesIn(defs)
    BY <1>2, <1>3, <1>4, <2>1
  <2>3. /\ Matching(defs, refreshTablePointers(states, defs))
        /\ NamesIn(refreshTablePointers(states, defs)) = NamesIn(states)
    BY Zenon, <1>2, <1>3, <1>4, <2>2, Refreshed
  <2>. QED
    BY Zenon, <1>2, <1>3, <1>4, <2>3
<1>6. db_catalog'.tables = defs
  BY <1>2 DEF CatalogInv, TypeOK
<1>7. Apart(NamesIn(tables'), views, DOMAIN procedures)
  BY <1>5 DEF CatalogInv, Apart
<1>8. /\ DOMAIN transactions' = Sessions
      /\ \A s \in Sessions :
           /\ DOMAIN transactions'[s] \subseteq Names
           /\ transactions'[s] \in [DOMAIN transactions'[s] -> Pointers]
  BY DEF dropTable, CatalogInv, TypeOK
<1>. QED
  BY <1>2, <1>5, <1>6, <1>7, <1>8, ListsChange DEF dropTable

(* CREATE VIEW keeps the catalog in step. *)
LEMMA CreateViewCatalog ==
  ASSUME CatalogInv, NEW n \in Names, NEW supported \in BOOLEAN, createView(n, supported)
  PROVE  CatalogInv'
<1>1. n \notin NamesIn(tables) \cup views \cup DOMAIN procedures
  BY NameUsedWhere DEF createView
<1>2. CASE supported /\ n \notin views
  <2>1. /\ db_catalog' = [db_catalog EXCEPT !.views = @ \cup {n}]
        /\ views' = views \cup {n}
    BY <1>2 DEF createView
  <2>2. /\ db_catalog'.tables = db_catalog.tables
        /\ db_catalog'.views = db_catalog.views \cup {n}
        /\ db_catalog'.procedures = db_catalog.procedures
        /\ db_catalog' \in [tables : Seq(Entries), views : SUBSET Names, procedures : SUBSET Names]
    BY Zenon, <2>1 DEF CatalogInv, TypeOK, Entries
  <2>3. TypeOK'
    BY Zenon, <2>1, <2>2 DEF createView, CatalogInv, TypeOK, Entries
  <2>4. Apart(NamesIn(tables), views', DOMAIN procedures)
    BY <1>1, <2>1 DEF CatalogInv, Apart
  <2>. QED
    BY <2>1, <2>2, <2>3, <2>4 DEF createView, CatalogInv
<1>3. CASE ~(supported /\ n \notin views)
  BY <1>3 DEF createView, CatalogInv, TypeOK
<1>. QED
  BY <1>2, <1>3

(* DROP VIEW keeps the catalog in step. *)
LEMMA DropViewCatalog ==
  ASSUME CatalogInv, NEW n \in Names, dropView(n)
  PROVE  CatalogInv'
<1>1. /\ db_catalog' = [db_catalog EXCEPT !.views = @ \ {n}]
      /\ views' = views \ {n}
  BY DEF dropView
<1>2. /\ db_catalog'.tables = db_catalog.tables
      /\ db_catalog'.views = db_catalog.views \ {n}
      /\ db_catalog'.procedures = db_catalog.procedures
      /\ db_catalog' \in [tables : Seq(Entries), views : SUBSET Names, procedures : SUBSET Names]
  BY Zenon, <1>1 DEF CatalogInv, TypeOK, Entries
<1>3. TypeOK'
  BY Zenon, <1>1, <1>2 DEF dropView, CatalogInv, TypeOK, Entries
<1>4. Apart(NamesIn(tables), views', DOMAIN procedures)
  BY <1>1 DEF CatalogInv, Apart
<1>. QED
  BY <1>1, <1>2, <1>3, <1>4 DEF dropView, CatalogInv

(* CREATE PROCEDURE keeps the catalog in step. *)
LEMMA CreateProcedureCatalog ==
  ASSUME CatalogInv, NEW n \in Names, NEW params \in Params, NEW supported \in BOOLEAN,
         createProcedure(n, params, supported)
  PROVE  CatalogInv'
<1>1. n \notin NamesIn(tables) \cup views \cup DOMAIN procedures
  BY NameUsedWhere DEF createProcedure
<1>2. CASE supported /\ n \notin DOMAIN procedures
  <2>1. /\ db_catalog' = [db_catalog EXCEPT !.procedures = @ \cup {n}]
        /\ procedures' = [p \in DOMAIN procedures \cup {n} |->
                            IF p = n THEN params ELSE procedures[p]]
    BY <1>2 DEF createProcedure
  <2>2. /\ db_catalog'.tables = db_catalog.tables
        /\ db_catalog'.views = db_catalog.views
        /\ db_catalog'.procedures = db_catalog.procedures \cup {n}
        /\ db_catalog' \in [tables : Seq(Entries), views : SUBSET Names, procedures : SUBSET Names]
    BY Zenon, <2>1 DEF CatalogInv, TypeOK, Entries
  <2>3. /\ DOMAIN procedures' = DOMAIN procedures \cup {n}
        /\ procedures' \in [DOMAIN procedures' -> Nat]
    BY <2>1, StatementsAssumption DEF CatalogInv, TypeOK
  <2>4. TypeOK'
    BY <2>2, <2>3 DEF createProcedure, CatalogInv, TypeOK, Entries
  <2>5. Apart(NamesIn(tables), views, DOMAIN procedures')
    BY <1>1, <2>3 DEF CatalogInv, Apart
  <2>. QED
    BY <2>2, <2>3, <2>4, <2>5 DEF createProcedure, CatalogInv
<1>3. CASE ~(supported /\ n \notin DOMAIN procedures)
  BY <1>3 DEF createProcedure, CatalogInv, TypeOK
<1>. QED
  BY <1>2, <1>3

(* DROP PROCEDURE keeps the catalog in step. *)
LEMMA DropProcedureCatalog ==
  ASSUME CatalogInv, NEW n \in Names, dropProcedure(n)
  PROVE  CatalogInv'
<1>1. /\ db_catalog' = [db_catalog EXCEPT !.procedures = @ \ {n}]
      /\ procedures' = [p \in DOMAIN procedures \ {n} |-> procedures[p]]
  BY DEF dropProcedure
<1>2. /\ db_catalog'.tables = db_catalog.tables
      /\ db_catalog'.views = db_catalog.views
      /\ db_catalog'.procedures = db_catalog.procedures \ {n}
      /\ db_catalog' \in [tables : Seq(Entries), views : SUBSET Names, procedures : SUBSET Names]
  BY Zenon, <1>1 DEF CatalogInv, TypeOK, Entries
<1>3. /\ DOMAIN procedures' = DOMAIN procedures \ {n}
      /\ procedures' \in [DOMAIN procedures' -> Nat]
  BY <1>1 DEF CatalogInv, TypeOK
<1>4. TypeOK'
  BY Zenon, <1>2, <1>3 DEF dropProcedure, CatalogInv, TypeOK, Entries
<1>5. Apart(NamesIn(tables), views, DOMAIN procedures')
  BY <1>3 DEF CatalogInv, Apart
<1>. QED
  BY <1>2, <1>3, <1>4, <1>5 DEF dropProcedure, CatalogInv

(* What a step of a session has to show when it changes no list. *)
LEMMA SessionsChange ==
  ASSUME CatalogInv,
         active' \in [Sessions -> BOOLEAN],
         wild' \in BOOLEAN,
         DOMAIN transactions' = Sessions,
         \A s \in Sessions : /\ DOMAIN transactions'[s] \subseteq Names
                             /\ transactions'[s] \in [DOMAIN transactions'[s] -> Pointers],
         UNCHANGED <<db_catalog, tables, views, procedures, saved, loud>>
  PROVE  CatalogInv'
<1>1. TypeOK'
  BY DEF CatalogInv, TypeOK
<1>. QED
  BY <1>1 DEF CatalogInv

(* A session that ends has no transactions. *)
LEMMA ClearTypes ==
  ASSUME CatalogInv, NEW s \in Sessions, clearTransactions(s)
  PROVE  /\ active' \in [Sessions -> BOOLEAN]
         /\ DOMAIN transactions' = Sessions
         /\ \A r \in Sessions : /\ DOMAIN transactions'[r] \subseteq Names
                                /\ transactions'[r] \in [DOMAIN transactions'[r] -> Pointers]
<1>1. DOMAIN NoTransactions = {} /\ NoTransactions \in [DOMAIN NoTransactions -> Pointers]
  BY DEF NoTransactions
<1>. QED
  BY <1>1 DEF clearTransactions, CatalogInv, TypeOK

(* A write leaves well-typed transactions. *)
LEMMA WriteTypes ==
  ASSUME CatalogInv, NEW s \in Sessions, NEW n \in Names, write(s, n)
  PROVE  /\ DOMAIN transactions' = Sessions
         /\ \A r \in Sessions : /\ DOMAIN transactions'[r] \subseteq Names
                                /\ transactions'[r] \in [DOMAIN transactions'[r] -> Pointers]
<1>. DEFINE p == [slot |-> findTableIndex(tables, n), moved |-> FALSE]
<1>1. p \in Pointers
  <2>1. n \in NamesIn(tables) /\ tables \in Seq(States)
    BY DEF write, TableNames, NameOf, NamesIn, CatalogInv, Matching
  <2>2. findTableIndex(tables, n) \in Nat \ {0}
    BY <2>1, FindIndex
  <2>. QED
    BY <2>2 DEF Pointers
<1>2. transactions' = [transactions EXCEPT ![s] =
        [t \in DOMAIN transactions[s] \cup {n} |->
           IF t \in DOMAIN transactions[s] THEN transactions[s][t] ELSE p]]
  BY DEF write
<1>. HIDE DEF p
<1>. QED
  BY <1>1, <1>2 DEF CatalogInv, TypeOK

(* The states of tables with the rows that a session publishes. *)
Published(s) ==
  [k \in DOMAIN tables |-> [tables[k] EXCEPT !.rows =
     @ \cup {t \in DOMAIN transactions[s] : transactions[s][t].slot = k}]]

(* What COMMIT publishes are states of the same tables. *)
LEMMA PublishedStates ==
  ASSUME CatalogInv, NEW s \in Sessions
  PROVE  /\ Published(s) \in Seq(States)
         /\ DOMAIN Published(s) = DOMAIN tables
         /\ \A k \in DOMAIN tables :
              /\ Published(s)[k].name = tables[k].name
              /\ Published(s)[k].rows = tables[k].rows
                   \cup {t \in DOMAIN transactions[s] : transactions[s][t].slot = k}
         /\ Unique(Published(s))
         /\ NamesIn(Published(s)) = NamesIn(tables)
<1>. DEFINE new(k) == {t \in DOMAIN transactions[s] : transactions[s][t].slot = k}
            r      == Published(s)
<1>1. tables \in Seq(States)
  BY DEF CatalogInv, Matching
<1>2. \A k \in DOMAIN tables : tables[k] \in States /\ new(k) \in SUBSET Names
  BY <1>1 DEF CatalogInv, TypeOK
<1>3. r = [k \in DOMAIN tables |-> [tables[k] EXCEPT !.rows = tables[k].rows \cup new(k)]]
  BY <1>2 DEF Published, States
<1>. HIDE DEF new, r
<1>4. \A k \in DOMAIN tables : /\ r[k] \in States
                               /\ r[k].name = tables[k].name
                               /\ r[k].rows = tables[k].rows \cup new(k)
  BY <1>2, <1>3 DEF States
<1>5. DOMAIN r = DOMAIN tables /\ r \in Seq(States)
  <2>1. r = [k \in DOMAIN tables |-> r[k]]
    BY <1>3
  <2>2. DOMAIN tables = 1..Len(tables) /\ Len(tables) \in Nat
    BY <1>1
  <2>. QED
    BY <1>4, <2>1, <2>2
<1>6. Unique(r)
  BY <1>4, <1>5 DEF CatalogInv, Matching, Unique
<1>7. NamesIn(r) = NamesIn(tables)
  BY <1>4, <1>5, Zenon DEF NamesIn
<1>. QED
  BY <1>4, <1>5, <1>6, <1>7 DEF r, new

(* COMMIT leaves the list of tables as it is. *)
LEMMA CommitTables ==
  ASSUME CatalogInv, NEW s \in Sessions, commit(s)
  PROVE  /\ Matching(db_catalog.tables, tables')
         /\ NamesIn(tables') = NamesIn(tables)
         /\ DOMAIN tables' = DOMAIN tables
         /\ \A k \in DOMAIN tables :
              /\ tables'[k].name = tables[k].name
              /\ tables'[k].rows = tables[k].rows
                   \cup {t \in DOMAIN transactions[s] : transactions[s][t].slot = k}
<1>. DEFINE r == refreshTablePointers(Published(s), db_catalog.tables)
<1>1. /\ db_catalog.tables \in Seq(Entries) /\ Unique(db_catalog.tables)
      /\ NamesIn(tables) = NamesIn(db_catalog.tables)
  BY Zenon DEF CatalogInv, Matching
<1>2. /\ Matching(db_catalog.tables, r)
      /\ NamesIn(r) = NamesIn(Published(s))
      /\ DOMAIN r = DOMAIN Published(s)
      /\ \A k \in DOMAIN Published(s) : /\ r[k].name = Published(s)[k].name
                                        /\ r[k].rows = Published(s)[k].rows
  BY <1>1, PublishedStates, Refreshed
<1>3. tables' = r
  BY DEF commit, Published
<1>. HIDE DEF r
<1>. QED
  BY <1>2, <1>3, PublishedStates

(* COMMIT keeps the catalog in step. *)
LEMMA CommitCatalog ==
  ASSUME CatalogInv, NEW s \in Sessions, commit(s)
  PROVE  CatalogInv'
<1>1. Matching(db_catalog.tables, tables') /\ NamesIn(tables') = NamesIn(tables)
  BY CommitTables
<1>2. clearTransactions(s) /\ UNCHANGED <<db_catalog, views, procedures, saved, wild, loud>>
  BY DEF commit
<1>3. tables' \in Seq(States)
  BY <1>1 DEF Matching
<1>4. TypeOK'
  BY <1>2, <1>3, ClearTypes DEF CatalogInv, TypeOK, States
<1>. QED
  BY <1>1, <1>2, <1>4 DEF CatalogInv

(* What sessions do keeps the catalog in step. *)
LEMMA SessionsCatalog ==
  ASSUME CatalogInv, NEW s \in Sessions,
         begin(s) \/ commitWild(s) \/ rollback(s) \/ \E n \in Names : write(s, n)
  PROVE  CatalogInv'
<1>1. CASE begin(s)
  BY <1>1, SessionsChange DEF begin, CatalogInv, TypeOK
<1>2. ASSUME NEW n \in Names, write(s, n)
      PROVE  CatalogInv'
  <2>1. wild' \in BOOLEAN /\ UNCHANGED <<db_catalog, tables, views, procedures, active, saved, loud>>
    BY <1>2 DEF write
  <2>2. active' \in [Sessions -> BOOLEAN]
    BY <2>1 DEF CatalogInv, TypeOK
  <2>3. /\ DOMAIN transactions' = Sessions
        /\ \A r \in Sessions : /\ DOMAIN transactions'[r] \subseteq Names
                               /\ transactions'[r] \in [DOMAIN transactions'[r] -> Pointers]
    BY Zenon, <1>2, WriteTypes
  <2>. QED
    BY <2>1, <2>2, <2>3, SessionsChange
<1>3. CASE commitWild(s)
  BY Zenon, <1>3, SessionsChange DEF commitWild, CatalogInv, TypeOK
<1>4. CASE rollback(s)
  BY Zenon, <1>4, ClearTypes, SessionsChange DEF rollback, CatalogInv, TypeOK
<1>. QED
  BY Zenon, <1>1, <1>2, <1>3, <1>4

(* What exportSnapshot saves of each table. *)
LEMMA Exported ==
  ASSUME CatalogInv, checkpoint
  PROVE  /\ DOMAIN saved'.tables = DOMAIN tables
         /\ saved'.tables \in Seq(SavedTables)
         /\ saved'.views = views /\ saved'.procedures = DOMAIN procedures
         /\ \A k \in DOMAIN tables :
              /\ saved'.tables[k].name = tables[k].name
              /\ saved'.tables[k].rows = tables[k].rows
              /\ saved'.tables[k].def = init(db_catalog.tables[tables[k].table].def)
              /\ saved'.tables[k].def # Rejected
<1>. DEFINE def(k) == init(db_catalog.tables[tables[k].table].def)
            ts     == [k \in DOMAIN tables |->
                         [name |-> tables[k].name, def |-> def(k), rows |-> tables[k].rows]]
<1>1. saved' = [tables |-> ts, views |-> db_catalog.views, procedures |-> db_catalog.procedures]
  BY DEF checkpoint, exportSnapshot, cloneTableDef
<1>2. \A k \in DOMAIN tables : def(k) # Rejected
  BY DEF checkpoint, exportSnapshot, cloneTableDef
<1>3. /\ tables \in Seq(States)
      /\ \A k \in DOMAIN tables : tables[k] \in States
      /\ \A k \in DOMAIN tables : db_catalog.tables[tables[k].table].def \in Definitions
  <2>1. /\ tables \in Seq(States) /\ db_catalog.tables \in Seq(Entries)
        /\ \A k \in DOMAIN tables : tables[k].table \in DOMAIN db_catalog.tables
    BY DEF CatalogInv, Matching
  <2>2. \A j \in DOMAIN db_catalog.tables : db_catalog.tables[j] \in Entries
    BY <2>1
  <2>3. \A e \in Entries : e.def \in Definitions
    BY DEF Entries
  <2>4. \A k \in DOMAIN tables : tables[k] \in States
    BY <2>1
  <2>. QED
    BY <2>1, <2>2, <2>3, <2>4
<1>4. \A k \in DOMAIN tables : def(k) \in Definitions
  BY Zenon, <1>2, <1>3, InitType, DefinitionsAreSpecs
<1>. HIDE DEF def
<1>5. ts \in Seq(SavedTables)
  <2>1. ASSUME NEW k \in DOMAIN tables
        PROVE  [name |-> tables[k].name, def |-> def(k), rows |-> tables[k].rows] \in SavedTables
    BY <1>3, <1>4 DEF States, SavedTables
  <2>. QED
    BY <1>3, <2>1
<1>6. \A k \in DOMAIN tables : /\ ts[k].name = tables[k].name
                               /\ ts[k].rows = tables[k].rows
                               /\ ts[k].def = def(k)
  OBVIOUS
<1>7. DOMAIN ts = DOMAIN tables
  OBVIOUS
<1>. HIDE DEF ts
<1>8. saved'.tables = ts /\ saved'.views = db_catalog.views
        /\ saved'.procedures = db_catalog.procedures
  BY <1>1
<1>. QED
  BY Zenon, <1>2, <1>5, <1>6, <1>7, <1>8 DEF CatalogInv, def

(* A checkpoint keeps the catalog in step. *)
LEMMA CheckpointCatalog ==
  ASSUME CatalogInv, checkpoint
  PROVE  CatalogInv'
<1>1. Unique(saved'.tables)
  BY Zenon, Exported DEF CatalogInv, Matching, Unique
<1>2. NamesIn(saved'.tables) = NamesIn(tables)
  BY Exported, Zenon DEF NamesIn
<1>3. saved' \in [tables : Seq(SavedTables), views : SUBSET Names, procedures : SUBSET Names]
  <2>1. saved' = [tables |-> saved'.tables, views |-> saved'.views, procedures |-> saved'.procedures]
    BY DEF checkpoint, exportSnapshot
  <2>2. views \in SUBSET Names /\ DOMAIN procedures \in SUBSET Names
    BY DEF CatalogInv, TypeOK
  <2>. QED
    BY <2>1, <2>2, Exported
<1>4. TypeOK'
  BY Zenon, <1>3 DEF checkpoint, CatalogInv, TypeOK, SavedTables
<1>5. Apart(NamesIn(saved'.tables), saved'.views, saved'.procedures)
  BY Zenon, <1>2, Exported DEF CatalogInv
<1>. QED
  BY <1>1, <1>4, <1>5 DEF checkpoint, CatalogInv

(* What initFromSnapshot makes of the file. *)
LEMMA Restored ==
  ASSUME CatalogInv, initFromSnapshot
  PROVE  /\ DOMAIN db_catalog'.tables = DOMAIN saved.tables
         /\ DOMAIN tables' = DOMAIN saved.tables
         /\ db_catalog' \in [tables : Seq(Entries), views : SUBSET Names, procedures : SUBSET Names]
         /\ db_catalog'.views = saved.views /\ db_catalog'.procedures = saved.procedures
         /\ Matching(db_catalog'.tables, tables')
         /\ NamesIn(tables') = NamesIn(saved.tables)
         /\ \A k \in DOMAIN saved.tables :
              /\ db_catalog'.tables[k].def = RestoredDef(saved.tables[k].def)
              /\ tables'[k].name = saved.tables[k].name
              /\ tables'[k].rows = saved.tables[k].rows
<1>. DEFINE file   == saved.tables
            defs   == [k \in DOMAIN file |->
                         [name |-> file[k].name, def |-> RestoredDef(file[k].def)]]
            states == [k \in DOMAIN defs |->
                         [name |-> file[k].name, rows |-> file[k].rows, table |-> k]]
<1>1. /\ \A k \in DOMAIN defs : defs[k].def # Rejected
      /\ db_catalog' = [tables |-> defs, views |-> saved.views, procedures |-> saved.procedures]
      /\ tables' = refreshTablePointers(states, defs)
  BY Zenon DEF initFromSnapshot
<1>2. file \in Seq(SavedTables) /\ Unique(file) /\ DOMAIN file = 1..Len(file) /\ Len(file) \in Nat
  BY DEF CatalogInv, TypeOK, SavedTables
<1>3. \A k \in DOMAIN file :
        file[k].name \in Names /\ file[k].def \in Definitions /\ file[k].rows \in SUBSET Names
  <2>1. \A k \in DOMAIN file : file[k] \in SavedTables
    BY <1>2
  <2>. QED
    BY <2>1 DEF SavedTables
<1>4. \A k \in DOMAIN file : RestoredDef(file[k].def) \in Definitions
  <2>1. \A k \in DOMAIN file : RestoredDef(file[k].def) # Rejected
    BY Zenon, <1>1
  <2>2. \A d \in Definitions : init(d) # Rejected => init(d) \in Definitions
    BY Zenon, InitType, DefinitionsAreSpecs
  <2>. QED
    BY <1>3, <2>1, <2>2 DEF RestoredDef, cloneTableDef
<1>5. /\ DOMAIN defs = DOMAIN file
      /\ \A k \in DOMAIN file : /\ defs[k] \in Entries
                                /\ defs[k].name = file[k].name
                                /\ defs[k].def = RestoredDef(file[k].def)
  <2>1. /\ DOMAIN defs = DOMAIN file
        /\ \A k \in DOMAIN file :
             defs[k] = [name |-> file[k].name, def |-> RestoredDef(file[k].def)]
    BY Zenon
  <2>. HIDE DEF file, defs, states
  <2>. QED
    BY <1>3, <1>4, <2>1 DEF Entries
<1>6. /\ DOMAIN states = DOMAIN file
      /\ \A k \in DOMAIN file : /\ states[k] \in States
                                /\ states[k].name = file[k].name
                                /\ states[k].rows = file[k].rows
  <2>1. /\ DOMAIN states = DOMAIN file
        /\ \A k \in DOMAIN file :
             states[k] = [name |-> file[k].name, rows |-> file[k].rows, table |-> k]
    BY Zenon, <1>5
  <2>2. \A k \in DOMAIN file : k \in Nat
    BY <1>2
  <2>. HIDE DEF file, defs, states
  <2>. QED
    BY <1>3, <2>1, <2>2 DEF States
<1>7. defs \in Seq(Entries)
  <2>1. defs = [k \in DOMAIN file |-> defs[k]]
    OBVIOUS
  <2>. HIDE DEF defs, states, file
  <2>. QED
    BY <1>2, <1>5, <2>1
<1>8. states \in Seq(States)
  <2>1. states = [k \in DOMAIN file |-> states[k]]
    BY <1>5
  <2>. HIDE DEF states
  <2>. QED
    BY <1>2, <1>6, <2>1
<1>. HIDE DEF defs, states, file
<1>9. Unique(defs) /\ Unique(states)
  BY <1>2, <1>5, <1>6 DEF Unique
<1>10. NamesIn(defs) = NamesIn(file) /\ NamesIn(states) = NamesIn(file)
  <2>1. DOMAIN defs = DOMAIN file /\ \A k \in DOMAIN file : defs[k].name = file[k].name
    BY Zenon, <1>5
  <2>2. DOMAIN states = DOMAIN file /\ \A k \in DOMAIN file : states[k].name = file[k].name
    BY Zenon, <1>6
  <2>3. NamesIn(defs) = NamesIn(file)
    BY Zenon, <2>1 DEF NamesIn
  <2>4. NamesIn(states) = NamesIn(file)
    BY Zenon, <2>2 DEF NamesIn
  <2>. QED
    BY <2>3, <2>4
<1>11. /\ Matching(defs, refreshTablePointers(states, defs))
       /\ NamesIn(refreshTablePointers(states, defs)) = NamesIn(states)
       /\ DOMAIN refreshTablePointers(states, defs) = DOMAIN states
       /\ \A k \in DOMAIN states :
            /\ refreshTablePointers(states, defs)[k].name = states[k].name
            /\ refreshTablePointers(states, defs)[k].rows = states[k].rows
  BY <1>7, <1>8, <1>9, <1>10, Refreshed
<1>12. /\ db_catalog'.tables = defs /\ db_catalog'.views = saved.views
       /\ db_catalog'.procedures = saved.procedures
  BY <1>1
<1>13. db_catalog' \in [tables : Seq(Entries), views : SUBSET Names, procedures : SUBSET Names]
  BY <1>1, <1>7 DEF CatalogInv, TypeOK
<1>. QED
  BY Zenon, <1>1, <1>5, <1>6, <1>10, <1>11, <1>12, <1>13 DEF file

(* A restart keeps the catalog in step. *)
LEMMA InitFromSnapshotCatalog ==
  ASSUME CatalogInv, initFromSnapshot
  PROVE  CatalogInv'
<1>1. /\ views' = saved.views /\ procedures' = RestoredProcedures(saved.procedures)
      /\ active' = [s \in Sessions |-> FALSE]
      /\ transactions' = [s \in Sessions |-> NoTransactions]
      /\ wild' = FALSE /\ UNCHANGED <<saved, loud>>
  BY DEF initFromSnapshot
<1>2. /\ DOMAIN procedures' = saved.procedures
      /\ procedures' \in [DOMAIN procedures' -> Nat]
      /\ saved.procedures \subseteq Names
  BY <1>1 DEF RestoredProcedures, CatalogInv, TypeOK
<1>3. tables' \in Seq(States)
  BY Restored DEF Matching
<1>4. /\ DOMAIN transactions' = Sessions
      /\ \A s \in Sessions : /\ DOMAIN transactions'[s] \subseteq Names
                             /\ transactions'[s] \in [DOMAIN transactions'[s] -> Pointers]
  <2>1. DOMAIN NoTransactions = {} /\ NoTransactions \in [DOMAIN NoTransactions -> Pointers]
    BY DEF NoTransactions
  <2>. QED
    BY <1>1, <2>1
<1>5. /\ views' \in SUBSET Names /\ saved' = saved /\ loud' = loud
      /\ active' \in [Sessions -> BOOLEAN] /\ wild' \in BOOLEAN
  BY Zenon, <1>1 DEF CatalogInv, TypeOK
<1>6. TypeOK'
  BY <1>2, <1>3, <1>4, <1>5, Restored DEF CatalogInv, TypeOK, Entries, States
<1>7. Apart(NamesIn(tables'), views', DOMAIN procedures')
  BY <1>1, <1>2, Restored DEF CatalogInv
<1>. QED
  BY <1>1, <1>2, <1>6, <1>7, Restored DEF CatalogInv

(* Every step keeps the catalog in step. *)
LEMMA NextCatalog ==
  ASSUME CatalogInv, [Next]_vars
  PROVE  CatalogInv'
<1>1. CASE \E n \in Names : \/ \E stmt \in Statements : createTable(n, stmt)
                            \/ dropTable(n)
  BY <1>1, CreateTableCatalog, DropTableCatalog
<1>2. CASE \E n \in Names :
             \/ \E supported \in BOOLEAN : createView(n, supported)
             \/ dropView(n)
             \/ \E params \in Params, supported \in BOOLEAN : createProcedure(n, params, supported)
             \/ dropProcedure(n)
  BY <1>2, CreateViewCatalog, DropViewCatalog, CreateProcedureCatalog, DropProcedureCatalog
<1>3. CASE \E s \in Sessions : begin(s) \/ commitWild(s) \/ rollback(s)
                               \/ \E n \in Names : write(s, n)
  BY <1>3, SessionsCatalog
<1>4. CASE \E s \in Sessions : commit(s)
  BY <1>4, CommitCatalog
<1>5. CASE checkpoint \/ initFromSnapshot
  BY Zenon, <1>5, CheckpointCatalog, InitFromSnapshotCatalog
<1>6. CASE UNCHANGED vars
  BY <1>6 DEF vars, CatalogInv, TypeOK, NamesIn
<1>. QED
  BY <1>1, <1>2, <1>3, <1>4, <1>5, <1>6, Zenon DEF Next

(***************************************************************************)
(* Whatever is created, refused, dropped, published, saved and reopened,   *)
(* the catalog and the registries agree, and every store points to the     *)
(* definition of its own table.                                            *)
(***************************************************************************)
THEOREM CatalogAlwaysAgrees == Spec => []CatalogAgrees
<1>1. Init => CatalogInv
  BY InitCatalogInv
<1>2. CatalogInv /\ [Next]_vars => CatalogInv'
  BY NextCatalog
<1>3. CatalogInv => CatalogAgrees
  BY CatalogInvImplies
<1>. QED
  BY <1>1, <1>2, <1>3, PTL DEF Spec

-----------------------------------------------------------------------------
(* Definitions in the catalog and in the file. *)

(* A copy of the definition is the definition, or fails. *)
Stable(def) == init(def) \in {Rejected, def}

(***************************************************************************)
(* The inductive invariant of definitions.  A checkpoint that succeeds has *)
(* copied every definition once, which shows that it can be copied again.  *)
(***************************************************************************)
DefinitionsInv ==
  /\ \A k \in DOMAIN db_catalog.tables : Stable(db_catalog.tables[k].def)
  /\ \A k \in DOMAIN saved.tables : init(saved.tables[k].def) = saved.tables[k].def

(* What the file holds is a definition, and no error. *)
LEMMA SavedDefinitions ==
  ASSUME CatalogInv, NEW k \in DOMAIN saved.tables
  PROVE  saved.tables[k].def \in Definitions /\ saved.tables[k].def # Rejected
<1>1. saved.tables \in Seq(SavedTables)
  BY DEF CatalogInv, TypeOK, SavedTables
<1>2. saved.tables[k] \in SavedTables
  BY <1>1
<1>. QED
  BY <1>2, RejectedAssumption DEF SavedTables

(* The invariant is strong enough. *)
LEMMA DefinitionsInvImplies ==
  ASSUME CatalogInv, DefinitionsInv
  PROVE  FileOpens
BY SavedDefinitions DEF DefinitionsInv, FileOpens, RestoredDef, cloneTableDef

(* CREATE TABLE keeps the definitions. *)
LEMMA CreateTableDefinitions ==
  ASSUME CatalogInv, DefinitionsInv, NEW n \in Names, NEW stmt \in Statements,
         createTable(n, stmt)
  PROVE  DefinitionsInv'
<1>. DEFINE list == db_catalog.tables
            e    == [name |-> n, def |-> init(TableSpec(stmt))]
<1>1. db_catalog'.tables = Append(list, e) /\ saved' = saved
  BY DEF createTable, CatalogInv, TypeOK
<1>2. Stable(e.def)
  BY Zenon, InitTwice, StatementsAssumption DEF createTable, Stable
<1>3. list \in Seq(Entries)
  BY DEF CatalogInv, Matching
<1>. HIDE DEF e
<1>4. \A k \in DOMAIN Append(list, e) : Append(list, e)[k] = IF k \in DOMAIN list THEN list[k] ELSE e
  BY <1>3
<1>. QED
  BY <1>1, <1>2, <1>4 DEF DefinitionsInv

(* DROP TABLE keeps the definitions. *)
LEMMA DropTableDefinitions ==
  ASSUME CatalogInv, DefinitionsInv, NEW n \in Names, dropTable(n)
  PROVE  DefinitionsInv'
<1>. DEFINE list == db_catalog.tables
            r    == orderedRemove(list, findTableIndex(list, n))
<1>1. db_catalog'.tables = r /\ saved' = saved
  BY DEF dropTable, CatalogInv, TypeOK
<1>2. n \in NamesIn(list)
  BY Zenon DEF dropTable, TableNames, NameOf, NamesIn, CatalogInv, Matching
<1>3. \A k \in DOMAIN r : \E j \in DOMAIN list : r[k] = list[j]
  BY <1>2, RemoveName DEF CatalogInv, Matching
<1>. HIDE DEF r
<1>. QED
  BY <1>1, <1>3 DEF DefinitionsInv

(* A checkpoint keeps the definitions. *)
LEMMA CheckpointDefinitions ==
  ASSUME CatalogInv, DefinitionsInv, checkpoint
  PROVE  DefinitionsInv'
<1>1. \A k \in DOMAIN saved'.tables : init(saved'.tables[k].def) = saved'.tables[k].def
  <2>. SUFFICES ASSUME NEW k \in DOMAIN saved'.tables
                PROVE  init(saved'.tables[k].def) = saved'.tables[k].def
    BY Zenon
  <2>. DEFINE d == db_catalog.tables[tables[k].table].def
  <2>1. k \in DOMAIN tables /\ tables[k].table \in DOMAIN db_catalog.tables
    BY Zenon, Exported DEF CatalogInv, Matching
  <2>2. Stable(d)
    BY <2>1 DEF DefinitionsInv
  <2>3. saved'.tables[k].def = init(d) /\ init(d) # Rejected
    BY <2>1, Exported
  <2>. QED
    BY <2>2, <2>3 DEF Stable
<1>. QED
  BY Zenon, <1>1 DEF checkpoint, DefinitionsInv

(* A restart keeps the definitions. *)
LEMMA InitFromSnapshotDefinitions ==
  ASSUME CatalogInv, DefinitionsInv, initFromSnapshot
  PROVE  DefinitionsInv'
<1>1. \A k \in DOMAIN saved.tables : RestoredDef(saved.tables[k].def) = saved.tables[k].def
  BY Zenon, DefinitionsInvImplies DEF FileOpens
<1>2. \A k \in DOMAIN db_catalog'.tables : Stable(db_catalog'.tables[k].def)
  BY <1>1, Restored DEF DefinitionsInv, Stable
<1>3. saved' = saved
  BY DEF initFromSnapshot
<1>. QED
  BY <1>2, <1>3 DEF DefinitionsInv

(* Every step keeps the definitions. *)
LEMMA NextDefinitions ==
  ASSUME CatalogInv, DefinitionsInv, [Next]_vars
  PROVE  DefinitionsInv'
<1>1. ASSUME db_catalog'.tables = db_catalog.tables, saved' = saved
      PROVE  DefinitionsInv'
  BY <1>1 DEF DefinitionsInv
<1>2. CASE \E n \in Names : \/ \E stmt \in Statements : createTable(n, stmt)
                            \/ dropTable(n)
  BY <1>2, CreateTableDefinitions, DropTableDefinitions
<1>3. CASE \E n \in Names :
             \/ \E supported \in BOOLEAN : createView(n, supported)
             \/ dropView(n)
  BY <1>1, <1>3 DEF createView, dropView, CatalogInv, TypeOK
<1>4. CASE \E n \in Names :
             \/ \E params \in Params, supported \in BOOLEAN : createProcedure(n, params, supported)
             \/ dropProcedure(n)
  BY <1>1, <1>4 DEF createProcedure, dropProcedure, CatalogInv, TypeOK
<1>5. CASE \E s \in Sessions : begin(s) \/ commit(s) \/ commitWild(s) \/ rollback(s)
                               \/ \E n \in Names : write(s, n)
  BY Zenon, <1>1, <1>5 DEF begin, commit, commitWild, rollback, write
<1>6. CASE checkpoint \/ initFromSnapshot
  BY <1>6, CheckpointDefinitions, InitFromSnapshotDefinitions
<1>7. CASE UNCHANGED vars
  BY <1>1, <1>7 DEF vars
<1>. QED
  BY <1>2, <1>3, <1>4, <1>5, <1>6, <1>7, Zenon DEF Next

(***************************************************************************)
(* A checkpoint that has succeeded can be opened, and gives back the       *)
(* definitions that it saved.                                              *)
(***************************************************************************)
THEOREM FileAlwaysOpens == Spec => []FileOpens
<1>1. Init => CatalogInv /\ DefinitionsInv
  <2>1. Init => DefinitionsInv
    BY DEF Init, DefinitionsInv
  <2>. QED
    BY <2>1, InitCatalogInv
<1>2. CatalogInv /\ DefinitionsInv /\ [Next]_vars => (CatalogInv /\ DefinitionsInv)'
  BY NextCatalog, NextDefinitions
<1>3. CatalogInv /\ DefinitionsInv => FileOpens
  BY DefinitionsInvImplies
<1>. QED
  BY <1>1, <1>2, <1>3, PTL DEF Spec

-----------------------------------------------------------------------------
(* Pointers of open transactions. *)

RowsOwn(list) == \A k \in DOMAIN list : list[k].rows \subseteq {list[k].name}

(* The transaction of that name points to the state of that table. *)
PointsTo(t, pointer) ==
  /\ pointer.moved = FALSE
  /\ pointer.slot \in DOMAIN tables
  /\ tables[pointer.slot].name = t

(***************************************************************************)
(* The inductive invariant of pointers, while no table is created or       *)
(* dropped under an open transaction.  The rows in the file are part of    *)
(* it: they become the rows of the tables when it is opened.               *)
(***************************************************************************)
PointersInv ==
  ~loud => /\ ~wild
           /\ RowsOwn(tables)
           /\ RowsOwn(saved.tables)
           /\ \A s \in Sessions : \A t \in DOMAIN transactions[s] :
                PointsTo(t, transactions[s][t])

(* The invariant is strong enough. *)
LEMMA PointersInvImplies == PointersInv => QuietDdlIsSafe
BY DEF PointersInv, QuietDdlIsSafe, PublishedWhereStaged, RowsOwn

(* A pointer that is right does not dangle. *)
LEMMA PointsToState ==
  ASSUME CatalogInv, NEW t, NEW pointer, PointsTo(t, pointer)
  PROVE  ~Dangling(pointer)
<1>1. tables \in Seq(States)
  BY DEF CatalogInv, Matching
<1>2. ~(pointer.slot > Len(tables))
  BY <1>1 DEF PointsTo
<1>. QED
  BY Zenon, <1>2 DEF PointsTo, Dangling

(* refreshTablePointers leaves the rows alone. *)
LEMMA RefreshedRows ==
  ASSUME NEW states, NEW defs, RowsOwn(states),
         \A k \in DOMAIN states : states[k] \in States
  PROVE  RowsOwn(refreshTablePointers(states, defs))
<1>1. \A k \in DOMAIN states :
        /\ refreshTablePointers(states, defs)[k].name = states[k].name
        /\ refreshTablePointers(states, defs)[k].rows = states[k].rows
  BY DEF refreshTablePointers, States
<1>2. DOMAIN refreshTablePointers(states, defs) = DOMAIN states
  BY DEF refreshTablePointers
<1>. QED
  BY <1>1, <1>2 DEF RowsOwn

(* When a list changes and nothing is loud, no transaction is open. *)
LEMMA QuietLists ==
  ASSUME ListChanges, ~loud'
  PROVE  /\ ~loud
         /\ \A s \in Sessions : transactions[s] = NoTransactions /\ DOMAIN transactions[s] = {}
BY Zenon DEF ListChanges, NoTransactions

(* CREATE TABLE keeps the pointers sound. *)
LEMMA CreateTablePointers ==
  ASSUME CatalogInv, PointersInv, NEW n \in Names, NEW stmt \in Statements,
         createTable(n, stmt), ~loud'
  PROVE  PointersInv'
<1>. DEFINE defs   == Append(db_catalog.tables, [name |-> n, def |-> init(TableSpec(stmt))])
            x      == [name |-> n, rows |-> {}, table |-> Len(defs)]
            states == Append(tables, x)
<1>1. ~loud /\ \A s \in Sessions : DOMAIN transactions[s] = {}
  BY QuietLists DEF createTable
<1>2. tables' = refreshTablePointers(states, defs)
  BY DEF createTable
<1>3. tables \in Seq(States)
  BY DEF CatalogInv, Matching
<1>4. x.rows = {} /\ x \in States
  <2>1. db_catalog.tables \in Seq(Entries)
    BY DEF CatalogInv, Matching
  <2>2. Len(defs) \in Nat
    BY <2>1
  <2>. QED
    BY <2>2 DEF States
<1>. HIDE DEF x, defs
<1>5. \A k \in DOMAIN states : states[k] = IF k \in DOMAIN tables THEN tables[k] ELSE x
  BY <1>3
<1>. HIDE DEF states
<1>6. RowsOwn(states)
  BY <1>1, <1>4, <1>5 DEF PointersInv, RowsOwn
<1>7. RowsOwn(tables')
  <2>1. \A k \in DOMAIN states : states[k] \in States
    BY <1>3, <1>4, <1>5
  <2>. QED
    BY Zenon, <1>2, <1>6, <2>1, RefreshedRows
<1>8. \A s \in Sessions : DOMAIN transactions'[s] = {}
  BY <1>1 DEF createTable
<1>. QED
  BY <1>1, <1>7, <1>8 DEF PointersInv, createTable

(* DROP TABLE keeps the pointers sound. *)
LEMMA DropTablePointers ==
  ASSUME CatalogInv, PointersInv, NEW n \in Names, dropTable(n), ~loud'
  PROVE  PointersInv'
<1>. DEFINE defs   == orderedRemove(db_catalog.tables, findTableIndex(db_catalog.tables, n))
            states == orderedRemove(tables, findTableIndex(tables, n))
<1>1. ~loud /\ \A s \in Sessions : DOMAIN transactions[s] = {}
  BY QuietLists DEF dropTable
<1>2. tables' = refreshTablePointers(states, defs)
  BY DEF dropTable
<1>3. n \in NamesIn(tables)
  BY Zenon DEF dropTable, TableNames, NameOf, NamesIn
<1>4. /\ \A k \in DOMAIN states : \E j \in DOMAIN tables : states[k] = tables[j]
      /\ states \in Seq(States)
  BY <1>3, RemoveName DEF CatalogInv, Matching
<1>. HIDE DEF defs, states
<1>5. RowsOwn(states)
  BY <1>1, <1>4 DEF PointersInv, RowsOwn
<1>6. RowsOwn(tables')
  <2>1. \A k \in DOMAIN states : states[k] \in States
    BY <1>4
  <2>. QED
    BY Zenon, <1>2, <1>5, <2>1, RefreshedRows
<1>. QED
  BY <1>1, <1>6 DEF PointersInv, dropTable

(* A write keeps the pointers sound. *)
LEMMA WritePointers ==
  ASSUME CatalogInv, PointersInv, NEW s \in Sessions, NEW n \in Names, write(s, n), ~loud'
  PROVE  PointersInv'
<1>. DEFINE p == [slot |-> findTableIndex(tables, n), moved |-> FALSE]
<1>1. ~loud /\ UNCHANGED <<tables, saved, loud>>
  BY DEF write
<1>2. PointsTo(n, p)
  <2>1. n \in NamesIn(tables) /\ tables \in Seq(States)
    BY DEF write, TableNames, NameOf, NamesIn, CatalogInv, Matching
  <2>. QED
    BY Zenon, <2>1, FindIndex DEF PointsTo
<1>3. transactions' = [transactions EXCEPT ![s] =
        [t \in DOMAIN transactions[s] \cup {n} |->
           IF t \in DOMAIN transactions[s] THEN transactions[s][t] ELSE p]]
  BY DEF write
<1>4. \A r \in Sessions : \A t \in DOMAIN transactions[r] : PointsTo(t, transactions[r][t])
  BY <1>1 DEF PointersInv
<1>. HIDE DEF p
<1>5. \A r \in Sessions : \A t \in DOMAIN transactions'[r] : PointsTo(t, transactions'[r][t])
  BY Zenon, <1>2, <1>3, <1>4 DEF CatalogInv, TypeOK
<1>6. ~wild'
  BY Zenon, <1>4, PointsToState DEF write
<1>. QED
  BY <1>1, <1>5, <1>6 DEF PointersInv, PointsTo

(* COMMIT keeps the pointers sound. *)
LEMMA CommitPointers ==
  ASSUME CatalogInv, PointersInv, NEW s \in Sessions, commit(s), ~loud'
  PROVE  PointersInv'
<1>1. ~loud /\ UNCHANGED <<saved, wild, loud>>
  BY DEF commit
<1>2. \A r \in Sessions : \A t \in DOMAIN transactions[r] : PointsTo(t, transactions[r][t])
  BY Zenon, <1>1 DEF PointersInv
<1>3. /\ DOMAIN tables' = DOMAIN tables
      /\ \A k \in DOMAIN tables :
           /\ tables'[k].name = tables[k].name
           /\ tables'[k].rows = tables[k].rows
                \cup {t \in DOMAIN transactions[s] : transactions[s][t].slot = k}
  BY Zenon, CommitTables
<1>4. RowsOwn(tables')
  <2>1. \A k \in DOMAIN tables :
          {t \in DOMAIN transactions[s] : transactions[s][t].slot = k} \subseteq {tables[k].name}
    BY <1>2 DEF PointsTo
  <2>2. RowsOwn(tables)
    BY Zenon, <1>1 DEF PointersInv
  <2>. QED
    BY <1>3, <2>1, <2>2 DEF RowsOwn
<1>5. \A r \in Sessions : \A t \in DOMAIN transactions'[r] :
        t \in DOMAIN transactions[r] /\ transactions'[r][t] = transactions[r][t]
  BY DEF commit, clearTransactions, NoTransactions, CatalogInv, TypeOK
<1>6. (\A r \in Sessions : \A t \in DOMAIN transactions[r] : PointsTo(t, transactions[r][t]))'
  BY <1>2, <1>3, <1>5 DEF PointsTo
<1>7. ~wild' /\ RowsOwn(saved.tables)'
  BY Zenon, <1>1 DEF PointersInv, RowsOwn
<1>. QED
  BY Zenon, <1>4, <1>6, <1>7 DEF PointersInv, RowsOwn

(* A checkpoint keeps the pointers sound. *)
LEMMA CheckpointPointers ==
  ASSUME CatalogInv, PointersInv, checkpoint, ~loud'
  PROVE  PointersInv'
<1>1. ~loud /\ UNCHANGED <<tables, transactions, wild, loud>>
  BY DEF checkpoint
<1>2. RowsOwn(saved'.tables)
  BY <1>1, Exported DEF PointersInv, RowsOwn
<1>. QED
  BY <1>1, <1>2 DEF PointersInv, PointsTo

(* A restart keeps the pointers sound. *)
LEMMA InitFromSnapshotPointers ==
  ASSUME CatalogInv, PointersInv, initFromSnapshot, ~loud'
  PROVE  PointersInv'
<1>1. /\ ~loud /\ UNCHANGED <<saved, loud>> /\ ~wild'
      /\ transactions' = [s \in Sessions |-> NoTransactions]
  BY Zenon DEF initFromSnapshot
<1>2. RowsOwn(tables')
  BY <1>1, Restored DEF PointersInv, RowsOwn
<1>. QED
  BY Zenon, <1>1, <1>2 DEF PointersInv, NoTransactions

(* Every step keeps the pointers sound. *)
LEMMA NextPointers ==
  ASSUME CatalogInv, PointersInv, [Next]_vars
  PROVE  PointersInv'
<1>. SUFFICES ASSUME ~loud' PROVE PointersInv'
  BY Zenon DEF PointersInv
<1>1. ASSUME UNCHANGED <<tables, saved, transactions, wild, loud>>
      PROVE  PointersInv'
  BY <1>1 DEF PointersInv, PointsTo
<1>2. CASE \E n \in Names : \/ \E stmt \in Statements : createTable(n, stmt)
                            \/ dropTable(n)
  BY <1>2, CreateTablePointers, DropTablePointers
<1>3. CASE \E n \in Names :
             \/ \E supported \in BOOLEAN : createView(n, supported)
             \/ dropView(n)
             \/ \E params \in Params, supported \in BOOLEAN : createProcedure(n, params, supported)
             \/ dropProcedure(n)
  BY <1>1, <1>3 DEF createView, dropView, createProcedure, dropProcedure
<1>4. CASE \E s \in Sessions : begin(s)
  BY <1>1, <1>4 DEF begin
<1>5. ASSUME NEW s \in Sessions, commitWild(s)
      PROVE  PointersInv'
  <2>1. \A t \in DOMAIN transactions[s] : ~Dangling(transactions[s][t])
    BY Zenon, <1>5, PointsToState DEF commitWild, PointersInv
  <2>. QED
    BY Zenon, <1>5, <2>1 DEF commitWild
<1>6. ASSUME NEW s \in Sessions, rollback(s)
      PROVE  PointersInv'
  <2>1. \A r \in Sessions : \A t \in DOMAIN transactions'[r] :
          t \in DOMAIN transactions[r] /\ transactions'[r][t] = transactions[r][t]
    BY <1>6 DEF rollback, clearTransactions, NoTransactions, CatalogInv, TypeOK
  <2>. QED
    BY <1>6, <2>1 DEF rollback, PointersInv, PointsTo
<1>7. CASE \E s \in Sessions : commit(s) \/ \E n \in Names : write(s, n)
  BY <1>7, CommitPointers, WritePointers
<1>8. CASE checkpoint \/ initFromSnapshot
  BY <1>8, CheckpointPointers, InitFromSnapshotPointers
<1>9. CASE UNCHANGED vars
  BY <1>1, <1>9 DEF vars
<1>. QED
  BY <1>2, <1>3, <1>4, <1>5, <1>6, <1>7, <1>8, <1>9, Zenon DEF Next

(***************************************************************************)
(* As long as no table is created or dropped under an open transaction,    *)
(* rows are published in the tables they were written to, and no pointer   *)
(* dangles.                                                                *)
(***************************************************************************)
THEOREM QuietDdlIsAlwaysSafe == Spec => []QuietDdlIsSafe
<1>1. Init => CatalogInv /\ PointersInv
  <2>1. Init => PointersInv
    BY DEF Init, PointersInv, RowsOwn, NoTransactions
  <2>. QED
    BY <2>1, InitCatalogInv
<1>2. CatalogInv /\ PointersInv /\ [Next]_vars => (CatalogInv /\ PointersInv)'
  BY NextCatalog, NextPointers
<1>3. PointersInv => QuietDdlIsSafe
  BY PointersInvImplies
<1>. QED
  BY <1>1, <1>2, <1>3, PTL DEF Spec
=============================================================================
