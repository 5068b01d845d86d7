-------------------------------- MODULE Codec -------------------------------
(***************************************************************************)
(* The payload of the database file (src/db/persistence.zig).  It is a     *)
(* sequence of numbers: an integer of any width is one of them, and bytes  *)
(* are their count followed by one number each.                            *)
(*                                                                         *)
(* The header in front of it, with the length and the checksum that tell   *)
(* a whole file from a torn one, is in Persistence; what the catalog       *)
(* refuses when it is given the definitions again is in TableDef.          *)
(***************************************************************************)
EXTENDS Naturals, Sequences

Bytes == Seq(Nat)

NoDefault == <<>>    \* a default_value of null: the column has none

(***************************************************************************)
(* What is written.  A value is its tag with what the tag calls for.       *)
(***************************************************************************)
SqlValues == {<<"null">>} \cup ({"integer", "float"} \X Nat) \cup ({"boolean"} \X BOOLEAN)
               \cup ({"text", "blob", "vector"} \X Bytes)

(* The type of a vector column has its dimension: <<"vector", 2>>. *)
ColumnTypes == {<<t>> : t \in {"integer", "float", "boolean", "text", "blob"}}
                 \cup ({"vector"} \X Nat)

ColumnSpecs == [name : Bytes, column_type : ColumnTypes, nullable : BOOLEAN,
                default_value : SqlValues \cup {NoDefault}, primary_key : BOOLEAN,
                auto_increment : BOOLEAN]

IndexSpecs == [primary : BOOLEAN, name : Bytes, columns : Seq(Bytes)]

StoredRows == [id : Nat, values : Seq(SqlValues)]

(* RowStore: no id twice, and next_id above them. *)
Distinct(rows) == \A i, j \in DOMAIN rows : rows[i].id = rows[j].id => i = j

StoredTables ==
  {t \in [name : Bytes, columns : Seq(ColumnSpecs), indexes : Seq(IndexSpecs), next_id : Nat,
          rows : Seq(StoredRows)] :
     Distinct(t.rows) /\ \A i \in DOMAIN t.rows : t.rows[i].id < t.next_id}

(* A view or a procedure. *)
StoredObjects == [name : Bytes, body : Bytes]

Snapshots == [tables : Seq(StoredTables), views : Seq(StoredObjects),
              procedures : Seq(StoredObjects)]

-----------------------------------------------------------------------------
(***************************************************************************)
(* Writing.  Each is given the encoder of an item as a function.           *)
(***************************************************************************)
appendBytes(s) == <<Len(s)>> \o s
appendBool(b)  == <<IF b THEN 1 ELSE 0>>

(* The items one after another. *)
Items(s, enc) ==
  LET out[k \in 0..Len(s)] == IF k = 0 THEN <<>> ELSE out[k - 1] \o enc[s[k]]
  IN  out[Len(s)]

Each(s, enc) == <<Len(s)>> \o Items(s, enc)

Tags == [null |-> 0, integer |-> 1, float |-> 2, boolean |-> 3, text |-> 4, blob |-> 5, vector |-> 6]

appendOperand(v) ==
  CASE v[1] = "null"                 -> <<>>
    [] v[1] \in {"integer", "float"} -> <<v[2]>>
    [] v[1] = "boolean"              -> appendBool(v[2])
    [] v[1] \in {"text", "blob"}     -> appendBytes(v[2])
    [] v[1] = "vector"               -> <<1>> \o appendBytes(v[2])   \* 1 is float32

appendValue(v) == <<Tags[v[1]]>> \o appendOperand(v)

appendColumnType(t) ==
  IF t[1] = "vector" THEN <<Tags.vector, 1, t[2]>> ELSE <<Tags[t[1]]>>

(* A fault: nothing says whether a default value follows. *)
appendDefaultBare(v) == IF v = NoDefault THEN <<>> ELSE appendValue(v)

appendDefault(v) == IF v = NoDefault THEN appendBool(FALSE) ELSE appendBool(TRUE) \o appendValue(v)

encodeColumn(column) ==
  appendBytes(column.name) \o appendColumnType(column.column_type)
    \o appendBool(column.nullable) \o appendDefault(column.default_value)
    \o appendBool(column.primary_key) \o appendBool(column.auto_increment)

encodeIndex(index) ==
  appendBool(index.primary) \o appendBytes(index.name)
    \o Each(index.columns, [s \in Bytes |-> appendBytes(s)])

encodeRow(row) == <<row.id>> \o Each(row.values, [v \in SqlValues |-> appendValue(v)])

encodeTable(table) ==
  appendBytes(table.name)
    \o Each(table.columns, [column \in ColumnSpecs |-> encodeColumn(column)])
    \o Each(table.indexes, [index \in IndexSpecs |-> encodeIndex(index)])
    \o <<table.next_id>> \o Each(table.rows, [row \in StoredRows |-> encodeRow(row)])

encodeObject(object) == appendBytes(object.name) \o appendBytes(object.body)

encodePayload(snapshot) ==
  Each(snapshot.tables, [table \in StoredTables |-> encodeTable(table)])
    \o Each(snapshot.views, [object \in StoredObjects |-> encodeObject(object)])
    \o Each(snapshot.procedures, [object \in StoredObjects |-> encodeObject(object)])

-----------------------------------------------------------------------------
(***************************************************************************)
(* Reading.  A reader takes what is left to read and returns a value with  *)
(* what is left after it, or Stop.  try c, then go on with F.              *)
(***************************************************************************)
Stop == [ok |-> FALSE]

Read(value, rest) == [ok |-> TRUE, value |-> value, rest |-> rest]

try(c, F(_)) == IF c.ok THEN F(c) ELSE Stop

readU(rest) == IF rest = <<>> THEN Stop ELSE Read(Head(rest), Tail(rest))

readBool(rest) ==
  try(readU(rest), LAMBDA n : IF n.value \in {0, 1} THEN Read(n.value = 1, n.rest) ELSE Stop)

readLengthPrefixedBytes(rest) ==
  try(readU(rest), LAMBDA n :
    IF n.value <= Len(n.rest)
      THEN Read(SubSeq(n.rest, 1, n.value), SubSeq(n.rest, n.value + 1, Len(n.rest)))
      ELSE Stop)

(* n items; the reader of an item is a function. *)
readItems(n, rest, dec) ==
  LET done[k \in 0..n] ==
        IF k = 0 THEN Read(<<>>, rest)
        ELSE try(done[k - 1], LAMBDA d :
             try(dec[d.rest], LAMBDA item : Read(Append(d.value, item.value), item.rest)))
  IN  done[n]

(* A count and so many items. *)
readEach(rest, dec) == try(readU(rest), LAMBDA n : readItems(n.value, n.rest, dec))

(* 1 is float32. *)
decodeVectorElementType(rest) == try(readU(rest), LAMBDA n : IF n.value = 1 THEN n ELSE Stop)

(* What the tag calls for. *)
Operand(tag, rest) ==
  CASE tag = "null"                 -> Read(<<>>, rest)
    [] tag \in {"integer", "float"} -> readU(rest)
    [] tag = "boolean"              -> readBool(rest)
    [] tag \in {"text", "blob"}     -> readLengthPrefixedBytes(rest)
    [] tag = "vector"               ->
         try(decodeVectorElementType(rest), LAMBDA element : readLengthPrefixedBytes(element.rest))

(* A number that is no tag is refused. *)
readTag(rest) ==
  try(readU(rest), LAMBDA n :
    LET known == {t \in DOMAIN Tags : Tags[t] = n.value}
    IN  IF known = {} THEN Stop ELSE Read(CHOOSE t \in known : TRUE, n.rest))

decodeValue(rest) ==
  try(readTag(rest), LAMBDA tag :
  try(Operand(tag.value, tag.rest), LAMBDA v :
    Read(IF tag.value = "null" THEN <<"null">> ELSE <<tag.value, v.value>>, v.rest)))

decodeColumnType(rest) ==
  try(readTag(rest), LAMBDA tag :
    CASE tag.value = "null"   -> Stop
      [] tag.value = "vector" ->
           try(decodeVectorElementType(tag.rest), LAMBDA element :
           try(readU(element.rest), LAMBDA d : Read(<<"vector", d.value>>, d.rest)))
      [] OTHER                -> Read(<<tag.value>>, tag.rest))

readDefault(rest) ==
  try(readBool(rest), LAMBDA has :
    IF has.value THEN decodeValue(has.rest) ELSE Read(NoDefault, has.rest))

decodeColumn(rest) ==
  try(readLengthPrefixedBytes(rest), LAMBDA name :
  try(decodeColumnType(name.rest), LAMBDA type :
  try(readBool(type.rest), LAMBDA nullable :
  try(readDefault(nullable.rest), LAMBDA default :
  try(readBool(default.rest), LAMBDA primary :
  try(readBool(primary.rest), LAMBDA auto :
    Read([name |-> name.value, column_type |-> type.value, nullable |-> nullable.value,
          default_value |-> default.value, primary_key |-> primary.value,
          auto_increment |-> auto.value], auto.rest)))))))

decodeIndexSpec(rest) ==
  try(readBool(rest), LAMBDA primary :
  try(readLengthPrefixedBytes(primary.rest), LAMBDA name :
  try(readEach(name.rest, [r \in Bytes |-> readLengthPrefixedBytes(r)]), LAMBDA columns :
    Read([primary |-> primary.value, name |-> name.value, columns |-> columns.value],
         columns.rest))))

decodeRow(rest) ==
  try(readU(rest), LAMBDA id :
  try(readEach(id.rest, [r \in Bytes |-> decodeValue(r)]), LAMBDA values :
    Read([id |-> id.value, values |-> values.value], values.rest)))

(* RowStore.insertWithId moves next_id past the rows and takes no id twice. *)
nextRowId(next_id, rows) ==
  LET next[k \in 0..Len(rows)] ==
        IF k = 0 THEN next_id
        ELSE IF rows[k].id >= next[k - 1] THEN rows[k].id + 1 ELSE next[k - 1]
  IN  next[Len(rows)]

(***************************************************************************)
(* The definition goes to Catalog.createTable and each row is validated    *)
(* against it, which may refuse either; that is in TableDef and Ddl, and   *)
(* left out here, as is the limit of 2^32 - 1 on what is counted.          *)
(***************************************************************************)
decodeTable(rest) ==
  try(readLengthPrefixedBytes(rest), LAMBDA name :
  try(readEach(name.rest, [r \in Bytes |-> decodeColumn(r)]), LAMBDA columns :
  try(readEach(columns.rest, [r \in Bytes |-> decodeIndexSpec(r)]), LAMBDA indexes :
  try(readU(indexes.rest), LAMBDA next :
  try(readEach(next.rest, [r \in Bytes |-> decodeRow(r)]), LAMBDA rows :
    IF ~Distinct(rows.value) THEN Stop
    ELSE Read([name |-> name.value, columns |-> columns.value, indexes |-> indexes.value,
               next_id |-> nextRowId(next.value, rows.value), rows |-> rows.value],
              rows.rest))))))

decodeObject(rest) ==
  try(readLengthPrefixedBytes(rest), LAMBDA name :
  try(readLengthPrefixedBytes(name.rest), LAMBDA body :
    Read([name |-> name.value, body |-> body.value], body.rest)))

decodePayload(payload) ==
  try(readEach(payload, [r \in Bytes |-> decodeTable(r)]), LAMBDA tables :
  try(readEach(tables.rest, [r \in Bytes |-> decodeObject(r)]), LAMBDA views :
  try(readEach(views.rest, [r \in Bytes |-> decodeObject(r)]), LAMBDA procedures :
    Read([tables |-> tables.value, views |-> views.value, procedures |-> procedures.value],
         procedures.rest))))

(* A fault: what follows the last procedure is ignored. *)
decodePrefix(payload) == decodePayload(payload)

(* decodeSnapshot takes a payload that is read to its end. *)
decodeSnapshot(payload) ==
  try(decodePayload(payload), LAMBDA c : IF c.rest = <<>> THEN c ELSE Stop)
=============================================================================
