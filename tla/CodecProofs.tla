----------------------------- MODULE CodecProofs ----------------------------
(***************************************************************************)
(* The payload of the database file is read back exactly, for every        *)
(* database.  Two laws are proved of every reader, from the bytes up:      *)
(*                                                                         *)
(*   - it reads back what its writer wrote, whatever follows;              *)
(*   - once it has read a value, more bytes behind the value change        *)
(*     nothing but what is left.                                           *)
(*                                                                         *)
(* The first gives the round trip and refuses what follows a payload; the  *)
(* second refuses a payload that was cut.                                  *)
(***************************************************************************)
EXTENDS CodecLaws, Recursion, SequenceTheorems

(* What is in a cursor. *)
LEMMA CursorFields ==
  /\ ~Stop.ok
  /\ \A v, r : Read(v, r).ok /\ Read(v, r).value = v /\ Read(v, r).rest = r
BY DEF Stop, Read

(* The fields of a value read. *)
LEMMA IsRead ==
  ASSUME NEW c, NEW v, NEW r, c = Read(v, r)
  PROVE  c.ok /\ c.value = v /\ c.rest = r
BY DEF Read

(***************************************************************************)
(* Concatenation under a name of its own: most of the proofs need nothing  *)
(* of it but that it is associative.                                       *)
(***************************************************************************)
Cat(a, b) == a \o b

(* d is the cursor c with x behind it. *)
Extended(d, c, x) == c.rest \in Bytes /\ d = Read(c.value, Cat(c.rest, x))

(* A reading over a longer input, field by field. *)
LEMMA ExtendedFields ==
  ASSUME NEW c, NEW d, NEW x, Extended(d, c, x)
  PROVE  c.rest \in Bytes /\ d.ok /\ d.value = c.value /\ d.rest = Cat(c.rest, x)
BY ZenonT(30), CursorFields DEF Extended

(* The two laws of a reader, as a function. *)
Extends(dec) == \A b, x \in Bytes : dec[b].ok => Extended(dec[Cat(b, x)], dec[b], x)

Reverses(dec, enc, V) ==
  \A v \in V : enc[v] \in Bytes /\ \A b \in Bytes : dec[Cat(enc[v], b)] = Read(v, b)

-----------------------------------------------------------------------------
(* Sequences of numbers. *)
LEMMA Assoc ==
  ASSUME NEW a \in Bytes, NEW b \in Bytes, NEW c \in Bytes
  PROVE  (a \o b) \o c = a \o (b \o c)
<1>1. a \in Seq(Nat) /\ b \in Seq(Nat) /\ c \in Seq(Nat)
  BY Zenon DEF Bytes
<1>2. \A s1, s2, s3 \in Seq(Nat) : (s1 \o s2) \o s3 = s1 \o (s2 \o s3)
  BY SMTT(30), ConcatAssociative
<1>3. QED
  BY Zenon, <1>1, <1>2

(* Bytes after bytes are bytes. *)
LEMMA CatBytes ==
  ASSUME NEW a \in Bytes, NEW b \in Bytes
  PROVE  a \o b \in Bytes
BY ConcatProperties DEF Bytes

(* A number is written as one byte. *)
LEMMA OneByte ==
  ASSUME NEW n \in Nat
  PROVE  <<n>> \in Bytes
BY DEF Bytes

(* A byte before two parts. *)
LEMMA ByteAssoc ==
  ASSUME NEW n \in Nat, NEW b \in Bytes, NEW c \in Bytes
  PROVE  (<<n>> \o b) \o c = <<n>> \o (b \o c)
<1>1. <<n>> \in Bytes
  BY Zenon, OneByte
<1>2. QED
  BY Zenon, <1>1, Assoc

(* readU takes the first number. *)
LEMMA UReverses ==
  ASSUME NEW n \in Nat, NEW b \in Bytes
  PROVE  readU(<<n>> \o b) = Read(n, b)
<1>1. <<n>> \o b # <<>> /\ Head(<<n>> \o b) = n /\ Tail(<<n>> \o b) = b
  BY DEF Bytes
<1>2. QED
  BY Zenon, <1>1 DEF readU

(* A number read is the first of its bytes. *)
LEMMA URead ==
  ASSUME NEW b \in Bytes, readU(b).ok
  PROVE  /\ readU(b).value \in Nat /\ readU(b).rest \in Bytes
         /\ b = <<readU(b).value>> \o readU(b).rest
<1>1. b # <<>>
  BY Zenon, CursorFields DEF readU
<1>2. readU(b) = Read(Head(b), Tail(b))
  BY Zenon, <1>1 DEF readU
<1>3. readU(b).value = Head(b) /\ readU(b).rest = Tail(b)
  BY Zenon, <1>2, IsRead
<1>4. Head(b) \in Nat /\ Tail(b) \in Bytes /\ b = <<Head(b)>> \o Tail(b)
  BY <1>1 DEF Bytes
<1>5. QED
  BY Zenon, <1>3, <1>4

(* Bytes that follow do not change a number. *)
LEMMA UExtends ==
  ASSUME NEW b \in Bytes, NEW x \in Bytes, readU(b).ok
  PROVE  Extended(readU(Cat(b, x)), readU(b), x)
<1>. DEFINE n == readU(b).value
            c == readU(b).rest
<1>1. n \in Nat /\ c \in Bytes /\ b = <<n>> \o c
  BY Zenon, URead
<1>. HIDE DEF n, c
<1>2. b \o x = <<n>> \o (c \o x)
  <2>1. b \o x = (<<n>> \o c) \o x
    BY Zenon, <1>1
  <2>2. (<<n>> \o c) \o x = <<n>> \o (c \o x)
    BY ZenonT(30), <1>1, ByteAssoc
  <2>3. QED
    BY Zenon, <2>1, <2>2
<1>3. readU(b \o x) = Read(n, c \o x)
  BY Zenon, <1>1, <1>2, UReverses, CatBytes
<1>4. QED
  BY Zenon, <1>1, <1>3 DEF Extended, Cat, n, c

(* A Boolean is one number. *)
LEMMA BoolReverses ==
  ASSUME NEW v \in BOOLEAN, NEW b \in Bytes
  PROVE  appendBool(v) \in Bytes /\ readBool(appendBool(v) \o b) = Read(v, b)
<1>. DEFINE n == IF v THEN 1 ELSE 0
<1>1. n \in Nat /\ n \in {0, 1} /\ (n = 1) = v /\ appendBool(v) = <<n>>
  BY DEF appendBool
<1>. HIDE DEF n
<1>2. readU(<<n>> \o b) = Read(n, b)
  BY <1>1, UReverses
<1>3. readU(<<n>> \o b).ok /\ readU(<<n>> \o b).value = n /\ readU(<<n>> \o b).rest = b
  BY <1>2, IsRead
<1>4. readBool(<<n>> \o b) = Read(n = 1, b)
  BY <1>1, <1>3 DEF readBool, try
<1>5. QED
  BY Zenon, <1>1, <1>4, OneByte

(* Bytes that follow do not change a Boolean. *)
LEMMA BoolExtends ==
  ASSUME NEW b \in Bytes, NEW x \in Bytes, readBool(b).ok
  PROVE  readBool(b).value \in BOOLEAN /\ Extended(readBool(Cat(b, x)), readBool(b), x)
<1>1. readU(b).ok /\ readU(b).value \in {0, 1}
  BY Zenon, CursorFields DEF readBool, try
<1>2. Extended(readU(Cat(b, x)), readU(b), x)
  BY Zenon, <1>1, UExtends
<1>3. readBool(b) = Read(readU(b).value = 1, readU(b).rest)
  BY Zenon, <1>1 DEF readBool, try
<1>4. /\ readU(b).rest \in Bytes
      /\ readU(Cat(b, x)).ok /\ readU(Cat(b, x)).value = readU(b).value
      /\ readU(Cat(b, x)).rest = Cat(readU(b).rest, x)
  BY Zenon, <1>2, ExtendedFields
<1>5. readBool(Cat(b, x)) = Read(readU(Cat(b, x)).value = 1, readU(Cat(b, x)).rest)
  BY Zenon, <1>1, <1>4 DEF readBool, try
<1>6. readBool(b).value = (readU(b).value = 1) /\ readBool(b).rest = readU(b).rest
  BY <1>3, IsRead
<1>7. QED
  BY Zenon, <1>4, <1>5, <1>6 DEF Extended

(* The two parts of a concatenation, and a sequence as one. *)
LEMMA CatParts ==
  ASSUME NEW s \in Bytes, NEW b \in Bytes
  PROVE  /\ Len(s) \in Nat
         /\ Len(s) <= Len(s \o b)
         /\ SubSeq(s \o b, 1, Len(s)) = s
         /\ SubSeq(s \o b, Len(s) + 1, Len(s \o b)) = b
<1>. DEFINE t == s \o b
            l == SubSeq(t, 1, Len(s))
            r == SubSeq(t, Len(s) + 1, Len(t))
<1>1. /\ s \in Seq(Nat) /\ b \in Seq(Nat) /\ t \in Seq(Nat)
      /\ Len(s) \in Nat /\ Len(b) \in Nat /\ Len(t) = Len(s) + Len(b)
      /\ \A i \in 1..Len(s) : t[i] = s[i]
      /\ \A i \in 1..Len(b) : t[Len(s) + i] = b[i]
      /\ \A i \in 1..Len(t) : t[i] \in Nat
  <2>1. s \in Seq(Nat) /\ b \in Seq(Nat) /\ Len(s) \in Nat /\ Len(b) \in Nat
    BY DEF Bytes
  <2>2. /\ t \in Seq(Nat) /\ Len(t) = Len(s) + Len(b)
        /\ \A i \in 1 .. Len(s) + Len(b) :
             t[i] = IF i <= Len(s) THEN s[i] ELSE b[i - Len(s)]
    BY Zenon, <2>1, ConcatProperties
  <2>. HIDE DEF t
  <2>3. \A i \in 1..Len(t) : t[i] \in Nat
    BY <2>2
  <2>4. \A i \in 1..Len(s) : t[i] = s[i]
    BY <2>1, <2>2
  <2>5. ASSUME NEW i \in 1..Len(b)
        PROVE  t[Len(s) + i] = b[i]
    <3>1. Len(s) + i \in 1 .. Len(s) + Len(b) /\ ~(Len(s) + i <= Len(s))
          /\ (Len(s) + i) - Len(s) = i
      BY <2>1
    <3>. QED
      BY Zenon, <2>2, <3>1
  <2>. QED
    BY Zenon, <2>1, <2>2, <2>3, <2>4, <2>5
<1>. HIDE DEF t
<1>2. l \in Seq(Nat) /\ Len(l) = Len(s) /\ \A i \in 1..Len(s) : l[i] = t[i]
  BY <1>1, SubSeqProperties
<1>3. r \in Seq(Nat) /\ Len(r) = Len(b) /\ \A i \in 1..Len(b) : r[i] = t[Len(s) + i]
  BY <1>1, SubSeqProperties
<1>. HIDE DEF l, r
<1>4. l = s
  BY Zenon, <1>1, <1>2, SeqEqual
<1>5. r = b
  BY Zenon, <1>1, <1>3, SeqEqual
<1>6. Len(s) <= Len(t)
  BY <1>1
<1>7. QED
  BY Zenon, <1>1, <1>4, <1>5, <1>6 DEF t, l, r

(* Bytes are cut in two at any length. *)
LEMMA PartsCat ==
  ASSUME NEW r \in Bytes, NEW n \in Nat, n <= Len(r)
  PROVE  \E s \in Bytes, t \in Bytes : Len(s) = n /\ r = s \o t
<1>. DEFINE s == SubSeq(r, 1, n)
            t == SubSeq(r, n + 1, Len(r))
<1>1. r \in Seq(Nat) /\ Len(r) \in Nat /\ \A i \in 1..Len(r) : r[i] \in Nat
  BY DEF Bytes
<1>2. s \in Seq(Nat) /\ Len(s) = n
  BY <1>1, SubSeqProperties
<1>3. t \in Seq(Nat)
  BY <1>1, SubSeqProperties
<1>4. s \o t = SubSeq(r, 1, Len(r))
  <2>1. 1 \in 1..(Len(r) + 1) /\ n \in (1 - 1)..Len(r) /\ Len(r) \in n..Len(r)
    BY <1>1
  <2>2. QED
    BY Zenon, <1>1, <2>1, ConcatAdjacentSubSeq
<1>5. SubSeq(r, 1, Len(r)) = r
  BY Zenon, <1>1, SubSeqFull
<1>6. QED
  BY Zenon, <1>2, <1>3, <1>4, <1>5 DEF Bytes

(* Bytes with their count in front. *)
LEMMA BytesReverse ==
  ASSUME NEW s \in Bytes, NEW b \in Bytes
  PROVE  appendBytes(s) \in Bytes /\ readLengthPrefixedBytes(appendBytes(s) \o b) = Read(s, b)
<1>1. Len(s) \in Nat /\ s \o b \in Bytes /\ <<Len(s)>> \in Bytes
  BY Zenon, CatParts, CatBytes, OneByte
<1>. DEFINE c == readU(appendBytes(s) \o b)
<1>2. c = Read(Len(s), s \o b)
  <2>1. appendBytes(s) \o b = <<Len(s)>> \o (s \o b)
    BY Zenon, <1>1, ByteAssoc DEF appendBytes
  <2>2. readU(<<Len(s)>> \o (s \o b)) = Read(Len(s), s \o b)
    BY Zenon, <1>1, UReverses
  <2>3. QED
    BY Zenon, <2>1, <2>2
<1>3. readLengthPrefixedBytes(appendBytes(s) \o b)
        = IF c.ok THEN IF c.value <= Len(c.rest)
                         THEN Read(SubSeq(c.rest, 1, c.value),
                                   SubSeq(c.rest, c.value + 1, Len(c.rest)))
                         ELSE Stop
          ELSE Stop
  BY Zenon DEF readLengthPrefixedBytes, try
<1>. HIDE DEF c
<1>4. c.ok /\ c.value = Len(s) /\ c.rest = s \o b
  <2>1. \A n, r : c = Read(n, r) => c.ok /\ c.value = n /\ c.rest = r
    BY IsRead
  <2>2. QED
    BY Zenon, <1>2, <2>1
<1>5. readLengthPrefixedBytes(appendBytes(s) \o b) = Read(s, b)
  <2>1. /\ Len(s) <= Len(s \o b) /\ SubSeq(s \o b, 1, Len(s)) = s
        /\ SubSeq(s \o b, Len(s) + 1, Len(s \o b)) = b
    BY Zenon, CatParts
  <2>2. c.value <= Len(c.rest)
    BY Zenon, <1>4, <2>1
  <2>3. readLengthPrefixedBytes(appendBytes(s) \o b)
          = Read(SubSeq(c.rest, 1, c.value), SubSeq(c.rest, c.value + 1, Len(c.rest)))
    BY Zenon, <1>3, <1>4, <2>2
  <2>4. /\ SubSeq(c.rest, 1, c.value) = s
        /\ SubSeq(c.rest, c.value + 1, Len(c.rest)) = b
    BY Zenon, <1>4, <2>1
  <2>5. QED
    BY Zenon, <2>3, <2>4
<1>6. appendBytes(s) \in Bytes
  BY Zenon, <1>1, CatBytes DEF appendBytes
<1>7. QED
  BY Zenon, <1>5, <1>6

(* A string before two parts. *)
LEMMA BytesAssoc ==
  ASSUME NEW s \in Bytes, NEW t \in Bytes, NEW x \in Bytes
  PROVE  (appendBytes(s) \o t) \o x = appendBytes(s) \o (t \o x)
<1>1. appendBytes(s) \in Bytes
  BY Zenon, BytesReverse
<1>2. QED
  BY ZenonT(30), <1>1, Assoc

(* Bytes that follow do not change a string. *)
LEMMA BytesExtend ==
  ASSUME NEW b \in Bytes, NEW x \in Bytes, readLengthPrefixedBytes(b).ok
  PROVE  /\ readLengthPrefixedBytes(b).value \in Bytes
         /\ Extended(readLengthPrefixedBytes(Cat(b, x)), readLengthPrefixedBytes(b), x)
<1>. DEFINE c == readU(b)
<1>1. c.ok /\ c.value <= Len(c.rest)
  BY Zenon, CursorFields DEF readLengthPrefixedBytes, try
<1>2. c.value \in Nat /\ c.rest \in Bytes
  BY Zenon, <1>1, URead
<1>3. b = <<c.value>> \o c.rest
  BY Zenon, <1>1, URead
<1>. HIDE DEF c
<1>4. PICK s \in Bytes, t \in Bytes : Len(s) = c.value /\ c.rest = s \o t
  <2>1. \A n \in Nat, r \in Bytes :
          n <= Len(r) => \E s \in Bytes, t \in Bytes : Len(s) = n /\ r = s \o t
    BY Zenon, PartsCat
  <2>2. QED
    BY Zenon, <1>1, <1>2, <2>1
<1>5. b = appendBytes(s) \o t /\ b \o x = appendBytes(s) \o (t \o x)
  <2>1. Len(s) \in Nat /\ appendBytes(s) \in Bytes
    BY Zenon, BytesReverse, CatParts
  <2>2. (<<Len(s)>> \o s) \o t = <<Len(s)>> \o (s \o t)
    BY ZenonT(30), <2>1, ByteAssoc
  <2>3. b = appendBytes(s) \o t
    BY Zenon, <1>3, <1>4, <2>2 DEF appendBytes
  <2>4. (appendBytes(s) \o t) \o x = appendBytes(s) \o (t \o x)
    BY ZenonT(30), BytesAssoc
  <2>5. QED
    BY Zenon, <2>3, <2>4
<1>6. t \o x \in Bytes
  BY Zenon, CatBytes
<1>. DEFINE d == readLengthPrefixedBytes(b)
<1>7. d = Read(s, t)
  BY Zenon, <1>5, BytesReverse
<1>8. readLengthPrefixedBytes(b \o x) = Read(s, t \o x)
  BY Zenon, <1>5, <1>6, BytesReverse
<1>. HIDE DEF d
<1>9. d.value = s /\ d.rest = t
  BY <1>7, IsRead
<1>10. QED
  BY Zenon, <1>8, <1>9 DEF Extended, Cat, d

-----------------------------------------------------------------------------
(* The same of Cat. *)
LEMMA CatLaws ==
  /\ \A a, b \in Bytes : Cat(a, b) \in Bytes
  /\ \A a, b, c \in Bytes : Cat(Cat(a, b), c) = Cat(a, Cat(b, c))
<1>1. \A a, b \in Bytes : Cat(a, b) \in Bytes
  BY Zenon, CatBytes DEF Cat
<1>2. \A a, b, c \in Bytes : Cat(Cat(a, b), c) = Cat(a, Cat(b, c))
  BY Zenon, Assoc DEF Cat
<1>3. QED
  BY Zenon, <1>1, <1>2

(* A number written is read back. *)
LEMMA UReads ==
  ASSUME NEW n \in Nat, NEW b \in Bytes
  PROVE  <<n>> \in Bytes /\ readU(Cat(<<n>>, b)) = Read(n, b)
BY Zenon, OneByte, UReverses DEF Cat

(* A Boolean written is read back. *)
LEMMA BoolReads ==
  ASSUME NEW v \in BOOLEAN, NEW b \in Bytes
  PROVE  appendBool(v) \in Bytes /\ readBool(Cat(appendBool(v), b)) = Read(v, b)
BY Zenon, BoolReverses DEF Cat

(* A string written is read back. *)
LEMMA BytesRead ==
  ASSUME NEW s \in Bytes, NEW b \in Bytes
  PROVE  /\ appendBytes(s) \in Bytes
         /\ readLengthPrefixedBytes(Cat(appendBytes(s), b)) = Read(s, b)
BY Zenon, BytesReverse DEF Cat

(* Tags are different numbers. *)
TagNames == {"null", "integer", "float", "boolean", "text", "blob", "vector"}

(* Tags are told apart by their numbers. *)
LEMMA TagNumbers ==
  /\ DOMAIN Tags = TagNames
  /\ \A t \in TagNames : Tags[t] \in Nat
  /\ \A t, u \in TagNames : Tags[t] = Tags[u] => t = u
  /\ Tags.vector = Tags["vector"]
BY DEF Tags, TagNames

(* A tag written is read back. *)
LEMMA TagReads ==
  ASSUME NEW t \in TagNames, NEW b \in Bytes
  PROVE  <<Tags[t]>> \in Bytes /\ readTag(Cat(<<Tags[t]>>, b)) = Read(t, b)
<1>. DEFINE m == Tags[t]
            c == readU(Cat(<<m>>, b))
            known == {u \in DOMAIN Tags : Tags[u] = c.value}
<1>1. m \in Nat
  BY Zenon, TagNumbers
<1>2. <<m>> \in Bytes /\ c = Read(m, b)
  BY Zenon, <1>1, UReads
<1>3. readTag(Cat(<<m>>, b)) =
        IF c.ok THEN IF known = {} THEN Stop ELSE Read(CHOOSE u \in known : TRUE, c.rest)
        ELSE Stop
  BY Zenon DEF readTag, try
<1>. HIDE DEF c
<1>4. c.ok /\ c.value = m /\ c.rest = b
  BY <1>2, IsRead
<1>5. known = {t}
  BY ZenonT(30), <1>4, TagNumbers
<1>6. (CHOOSE u \in {t} : TRUE) = t /\ {t} # {}
  BY Zenon
<1>. HIDE DEF known
<1>7. QED
  BY Zenon, <1>2, <1>3, <1>4, <1>5, <1>6

(* Bytes that follow do not change a tag. *)
LEMMA TagExtends ==
  ASSUME NEW b \in Bytes, NEW x \in Bytes, readTag(b).ok
  PROVE  readTag(b).value \in TagNames /\ Extended(readTag(Cat(b, x)), readTag(b), x)
<1>. DEFINE Known(n) == {u \in DOMAIN Tags : Tags[u] = n}
            c == readU(b)
            d == readU(Cat(b, x))
            Of(e) == IF e.ok THEN IF Known(e.value) = {} THEN Stop
                                  ELSE Read(CHOOSE u \in Known(e.value) : TRUE, e.rest)
                     ELSE Stop
<1>1. readTag(b) = Of(c) /\ readTag(Cat(b, x)) = Of(d)
  BY Zenon DEF readTag, try
<1>2. c.ok /\ Known(c.value) # {}
  BY Zenon, <1>1, CursorFields
<1>3. Extended(d, c, x)
  BY Zenon, <1>2, UExtends
<1>4. c.rest \in Bytes /\ d.ok /\ d.value = c.value /\ d.rest = Cat(c.rest, x)
  BY Zenon, <1>3, ExtendedFields
<1>. DEFINE t == CHOOSE u \in Known(c.value) : TRUE
<1>5. t \in TagNames
  BY Zenon, <1>2, TagNumbers
<1>6. readTag(b) = Read(t, c.rest)
  BY Zenon, <1>1, <1>2
<1>7. readTag(Cat(b, x)) = Read(t, Cat(c.rest, x))
  BY Zenon, <1>1, <1>2, <1>4
<1>. HIDE DEF t, c, Known
<1>8. readTag(b).value = t /\ readTag(b).rest = c.rest
  BY <1>6, IsRead
<1>9. QED
  BY Zenon, <1>4, <1>5, <1>7, <1>8 DEF Extended

(* The element type of a vector is one number. *)
LEMMA ElementReads ==
  ASSUME NEW b \in Bytes
  PROVE  decodeVectorElementType(Cat(<<1>>, b)) = Read(1, b)
<1>. DEFINE c == readU(Cat(<<1>>, b))
<1>1. c = Read(1, b)
  BY UReads
<1>2. decodeVectorElementType(Cat(<<1>>, b)) = IF c.ok THEN IF c.value = 1 THEN c ELSE Stop ELSE Stop
  BY Zenon DEF decodeVectorElementType, try
<1>. HIDE DEF c
<1>3. c.ok /\ c.value = 1
  BY <1>1, IsRead
<1>4. QED
  BY Zenon, <1>1, <1>2, <1>3

(* Bytes that follow do not change an element type. *)
LEMMA ElementExtends ==
  ASSUME NEW b \in Bytes, NEW x \in Bytes, decodeVectorElementType(b).ok
  PROVE  Extended(decodeVectorElementType(Cat(b, x)), decodeVectorElementType(b), x)
<1>. DEFINE c == readU(b)
            d == readU(Cat(b, x))
            Of(e) == IF e.ok THEN IF e.value = 1 THEN e ELSE Stop ELSE Stop
<1>1. decodeVectorElementType(b) = Of(c) /\ decodeVectorElementType(Cat(b, x)) = Of(d)
  BY Zenon DEF decodeVectorElementType, try
<1>2. c.ok /\ c.value = 1
  BY Zenon, <1>1, CursorFields
<1>3. Extended(d, c, x)
  BY Zenon, <1>2, UExtends
<1>4. d.ok /\ d.value = c.value
  BY Zenon, <1>3, ExtendedFields
<1>5. QED
  BY Zenon, <1>1, <1>2, <1>3, <1>4

(* What follows the tag of a value. *)
ValueOf(v) == IF v[1] = "null" THEN <<>> ELSE v[2]

(* Nothing before the bytes. *)
LEMMA EmptyCat ==
  ASSUME NEW b \in Bytes
  PROVE  <<>> \in Bytes /\ Cat(<<>>, b) = b
BY ConcatEmptySeq, EmptySeq DEF Cat, Bytes

(* What a value holds is read back under its tag. *)
LEMMA OperandReads ==
  ASSUME NEW v \in SqlValues, NEW b \in Bytes
  PROVE  /\ v[1] \in TagNames /\ appendOperand(v) \in Bytes
         /\ Operand(v[1], Cat(appendOperand(v), b)) = Read(ValueOf(v), b)
<1>. DEFINE r == Cat(appendOperand(v), b)
<1>1. CASE v = <<"null">>
  <2>1. v[1] = "null"
    BY <1>1
  <2>2. appendOperand(v) = <<>> /\ Operand(v[1], r) = Read(<<>>, r) /\ ValueOf(v) = <<>>
    BY <2>1 DEF appendOperand, Operand, ValueOf
  <2>3. QED
    BY Zenon, <2>1, <2>2, EmptyCat DEF TagNames
<1>2. CASE v \in {"integer", "float"} \X Nat
  <2>1. v[1] \in {"integer", "float"} /\ v[2] \in Nat
    BY <1>2
  <2>2. appendOperand(v) = <<v[2]>> /\ Operand(v[1], r) = readU(r) /\ ValueOf(v) = v[2]
    BY <2>1 DEF appendOperand, Operand, ValueOf
  <2>3. QED
    BY Zenon, <2>1, <2>2, UReads DEF TagNames
<1>3. CASE v \in {"boolean"} \X BOOLEAN
  <2>1. v[1] = "boolean" /\ v[2] \in BOOLEAN
    BY <1>3
  <2>2. appendOperand(v) = appendBool(v[2]) /\ Operand(v[1], r) = readBool(r) /\ ValueOf(v) = v[2]
    BY <2>1 DEF appendOperand, Operand, ValueOf
  <2>3. QED
    BY Zenon, <2>1, <2>2, BoolReads DEF TagNames
<1>4. CASE v \in {"text", "blob"} \X Bytes
  <2>1. v[1] \in {"text", "blob"} /\ v[2] \in Bytes
    BY <1>4
  <2>2. /\ appendOperand(v) = appendBytes(v[2]) /\ Operand(v[1], r) = readLengthPrefixedBytes(r)
        /\ ValueOf(v) = v[2]
    BY <2>1 DEF appendOperand, Operand, ValueOf
  <2>3. QED
    BY Zenon, <2>1, <2>2, BytesRead DEF TagNames
<1>5. CASE v \in {"vector"} \X Bytes
  <2>. DEFINE w == appendBytes(v[2])
              c == decodeVectorElementType(r)
  <2>1. v[1] = "vector" /\ v[2] \in Bytes
    BY <1>5
  <2>2. /\ appendOperand(v) = Cat(<<1>>, w) /\ ValueOf(v) = v[2]
        /\ Operand(v[1], r) = IF c.ok THEN readLengthPrefixedBytes(c.rest) ELSE Stop
    BY <2>1 DEF appendOperand, Operand, ValueOf, try, Cat
  <2>3. w \in Bytes /\ <<1>> \in Bytes
    BY Zenon, <2>1, BytesRead, OneByte
  <2>4. r = Cat(<<1>>, Cat(w, b)) /\ Cat(w, b) \in Bytes /\ Cat(<<1>>, w) \in Bytes
    BY <2>2, <2>3, CatLaws
  <2>5. c = Read(1, Cat(w, b))
    BY Zenon, <2>4, ElementReads
  <2>. HIDE DEF c
  <2>6. c.ok /\ c.rest = Cat(w, b)
    BY <2>5, IsRead
  <2>7. QED
    BY Zenon, <2>1, <2>2, <2>4, <2>6, BytesRead DEF TagNames
<1>6. \/ v = <<"null">> \/ v \in {"integer", "float"} \X Nat \/ v \in {"boolean"} \X BOOLEAN
      \/ v \in {"text", "blob"} \X Bytes \/ v \in {"vector"} \X Bytes
  BY DEF SqlValues
<1>7. QED
  BY Zenon, <1>1, <1>2, <1>3, <1>4, <1>5, <1>6

(* Bytes that follow do not change what a value holds. *)
LEMMA OperandExtends ==
  ASSUME NEW tag \in TagNames, NEW b \in Bytes, NEW x \in Bytes, Operand(tag, b).ok
  PROVE  Extended(Operand(tag, Cat(b, x)), Operand(tag, b), x)
<1>1. CASE tag = "null"
  <2>1. Operand(tag, b) = Read(<<>>, b) /\ Operand(tag, Cat(b, x)) = Read(<<>>, Cat(b, x))
    BY <1>1 DEF Operand
  <2>2. Operand(tag, b).value = <<>> /\ Operand(tag, b).rest = b
    BY <2>1, IsRead
  <2>3. QED
    BY Zenon, <2>1, <2>2 DEF Extended
<1>2. CASE tag \in {"integer", "float"}
  <2>1. Operand(tag, b) = readU(b) /\ Operand(tag, Cat(b, x)) = readU(Cat(b, x))
    BY <1>2 DEF Operand
  <2>2. QED
    BY Zenon, <2>1, UExtends
<1>3. CASE tag = "boolean"
  <2>1. Operand(tag, b) = readBool(b) /\ Operand(tag, Cat(b, x)) = readBool(Cat(b, x))
    BY <1>3 DEF Operand
  <2>2. QED
    BY Zenon, <2>1, BoolExtends
<1>4. CASE tag \in {"text", "blob"}
  <2>1. /\ Operand(tag, b) = readLengthPrefixedBytes(b)
        /\ Operand(tag, Cat(b, x)) = readLengthPrefixedBytes(Cat(b, x))
    BY <1>4 DEF Operand
  <2>2. QED
    BY Zenon, <2>1, BytesExtend
<1>5. CASE tag = "vector"
  <2>. DEFINE c == decodeVectorElementType(b)
              d == decodeVectorElementType(Cat(b, x))
              Of(e) == IF e.ok THEN readLengthPrefixedBytes(e.rest) ELSE Stop
  <2>1. Operand(tag, b) = Of(c) /\ Operand(tag, Cat(b, x)) = Of(d)
    BY <1>5 DEF Operand, try
  <2>2. c.ok
    BY Zenon, <2>1, CursorFields
  <2>3. c.rest \in Bytes /\ d.ok /\ d.rest = Cat(c.rest, x)
    BY ZenonT(30), <2>2, ElementExtends, ExtendedFields
  <2>. HIDE DEF c, d
  <2>4. QED
    BY Zenon, <2>1, <2>2, <2>3, BytesExtend
<1>6. QED
  BY Zenon, <1>1, <1>2, <1>3, <1>4, <1>5 DEF TagNames

(* A value. *)
LEMMA ValueReads ==
  ASSUME NEW v \in SqlValues, NEW b \in Bytes
  PROVE  appendValue(v) \in Bytes /\ decodeValue(Cat(appendValue(v), b)) = Read(v, b)
<1>. DEFINE w == appendOperand(v)
            r == Cat(appendValue(v), b)
            c == readTag(r)
            d == Operand(c.value, c.rest)
<1>1. v[1] \in TagNames /\ w \in Bytes /\ Operand(v[1], Cat(w, b)) = Read(ValueOf(v), b)
  BY Zenon, OperandReads
<1>2. <<Tags[v[1]]>> \in Bytes /\ appendValue(v) = Cat(<<Tags[v[1]]>>, w)
  BY Zenon, <1>1, TagReads, EmptyCat DEF appendValue, Cat
<1>3. appendValue(v) \in Bytes /\ r = Cat(<<Tags[v[1]]>>, Cat(w, b)) /\ Cat(w, b) \in Bytes
  BY <1>1, <1>2, CatLaws
<1>4. c = Read(v[1], Cat(w, b))
  BY Zenon, <1>1, <1>3, TagReads
<1>5. decodeValue(r) = IF c.ok THEN IF d.ok THEN Read(IF c.value = "null" THEN <<"null">>
                                                      ELSE <<c.value, d.value>>, d.rest)
                                    ELSE Stop
                       ELSE Stop
  BY Zenon DEF decodeValue, try
<1>. HIDE DEF c
<1>6. c.ok /\ c.value = v[1] /\ c.rest = Cat(w, b)
  BY <1>4, IsRead
<1>7. d = Read(ValueOf(v), b)
  BY Zenon, <1>1, <1>6
<1>. HIDE DEF d
<1>8. d.ok /\ d.value = ValueOf(v) /\ d.rest = b
  BY <1>7, IsRead
<1>9. v = IF v[1] = "null" THEN <<"null">> ELSE <<v[1], ValueOf(v)>>
  BY DEF SqlValues, ValueOf
<1>10. QED
  BY Zenon, <1>3, <1>5, <1>6, <1>8, <1>9

(* Bytes that follow do not change a value. *)
LEMMA ValueExtends ==
  ASSUME NEW b \in Bytes, NEW x \in Bytes, decodeValue(b).ok
  PROVE  Extended(decodeValue(Cat(b, x)), decodeValue(b), x)
<1>. DEFINE C(r) == readTag(r)
            D(r) == Operand(C(r).value, C(r).rest)
            V(r) == IF C(r).value = "null" THEN <<"null">> ELSE <<C(r).value, D(r).value>>
            y == Cat(b, x)
<1>1. \A r : decodeValue(r) = IF C(r).ok THEN IF D(r).ok THEN Read(V(r), D(r).rest) ELSE Stop
                              ELSE Stop
  BY Zenon DEF decodeValue, try
<1>2. C(b).ok /\ D(b).ok
  BY Zenon, <1>1, CursorFields
<1>3. /\ C(b).value \in TagNames /\ C(b).rest \in Bytes
      /\ C(y).ok /\ C(y).value = C(b).value /\ C(y).rest = Cat(C(b).rest, x)
  BY ZenonT(30), <1>2, TagExtends, ExtendedFields
<1>. HIDE DEF C
<1>4. Extended(D(y), D(b), x)
  BY Zenon, <1>2, <1>3, OperandExtends
<1>. HIDE DEF D
<1>5. D(b).rest \in Bytes /\ D(y).ok /\ D(y).value = D(b).value /\ D(y).rest = Cat(D(b).rest, x)
  BY Zenon, <1>4, ExtendedFields
<1>6. decodeValue(b) = Read(V(b), D(b).rest) /\ decodeValue(y) = Read(V(y), D(y).rest)
  BY Zenon, <1>1, <1>2, <1>3, <1>5
<1>7. V(y) = V(b)
  BY Zenon, <1>3, <1>5
<1>. HIDE DEF V
<1>8. decodeValue(b).value = V(b) /\ decodeValue(b).rest = D(b).rest
  BY <1>6, IsRead
<1>9. QED
  BY Zenon, <1>5, <1>6, <1>7, <1>8 DEF Extended

(* The type of a column. *)
LEMMA TypeReads ==
  ASSUME NEW t \in ColumnTypes, NEW b \in Bytes
  PROVE  appendColumnType(t) \in Bytes /\ decodeColumnType(Cat(appendColumnType(t), b)) = Read(t, b)
<1>. DEFINE r == Cat(appendColumnType(t), b)
            c == readTag(r)
            e == decodeVectorElementType(c.rest)
            d == readU(e.rest)
<1>1. decodeColumnType(r) =
        IF c.ok THEN CASE c.value = "null"   -> Stop
                       [] c.value = "vector" ->
                            IF e.ok THEN IF d.ok THEN Read(<<"vector", d.value>>, d.rest) ELSE Stop
                            ELSE Stop
                       [] OTHER              -> Read(<<c.value>>, c.rest)
        ELSE Stop
  BY Zenon DEF decodeColumnType, try
<1>2. CASE t \in {<<u>> : u \in {"integer", "float", "boolean", "text", "blob"}}
  <2>1. t = <<t[1]>> /\ t[1] \in {"integer", "float", "boolean", "text", "blob"}
    BY <1>2
  <2>2. t[1] \in TagNames /\ t[1] # "vector" /\ t[1] # "null"
    BY <2>1 DEF TagNames
  <2>3. appendColumnType(t) = <<Tags[t[1]]>>
    BY Zenon, <2>2 DEF appendColumnType
  <2>4. appendColumnType(t) \in Bytes /\ c = Read(t[1], b)
    BY Zenon, <2>2, <2>3, TagReads
  <2>. HIDE DEF c
  <2>5. c.ok /\ c.value = t[1] /\ c.rest = b
    BY <2>4, IsRead
  <2>6. decodeColumnType(r) = Read(<<t[1]>>, b)
    BY <1>1, <2>2, <2>5
  <2>7. QED
    BY Zenon, <2>1, <2>4, <2>6
<1>3. CASE t \in {"vector"} \X Nat
  <2>. DEFINE n == t[2]
              v == Tags["vector"]
  <2>1. t = <<"vector", n>> /\ n \in Nat /\ t[1] = "vector"
    BY <1>3
  <2>2. "vector" \in TagNames /\ v \in Nat /\ Tags.vector = v
    BY Zenon, TagNumbers DEF TagNames
  <2>. HIDE DEF n, v
  <2>3. appendColumnType(t) = <<v, 1, n>>
    BY Zenon, <2>1, <2>2 DEF appendColumnType, n
  <2>4. <<v, 1, n>> = Cat(<<v>>, Cat(<<1>>, <<n>>))
    BY <2>1, <2>2 DEF Cat
  <2>5. <<v>> \in Bytes /\ <<1>> \in Bytes /\ <<n>> \in Bytes
    BY <2>1, <2>2, OneByte
  <2>6. /\ appendColumnType(t) \in Bytes
        /\ r = Cat(<<v>>, Cat(<<1>>, Cat(<<n>>, b)))
        /\ Cat(<<n>>, b) \in Bytes /\ Cat(<<1>>, Cat(<<n>>, b)) \in Bytes
    <3>. DEFINE p == <<v>>
                q == <<1>>
                s == <<n>>
    <3>1. p \in Bytes /\ q \in Bytes /\ s \in Bytes /\ appendColumnType(t) = Cat(p, Cat(q, s))
      BY Zenon, <2>3, <2>4, <2>5
    <3>. HIDE DEF p, q, s
    <3>2. /\ appendColumnType(t) \in Bytes
          /\ r = Cat(p, Cat(q, Cat(s, b)))
          /\ Cat(s, b) \in Bytes /\ Cat(q, Cat(s, b)) \in Bytes
      BY <3>1, CatLaws
    <3>3. QED
      BY Zenon, <3>2 DEF p, q, s
  <2>7. c = Read("vector", Cat(<<1>>, Cat(<<n>>, b)))
    BY Zenon, <2>2, <2>6, TagReads DEF v
  <2>. HIDE DEF c
  <2>8. c.ok /\ c.value = "vector" /\ c.rest = Cat(<<1>>, Cat(<<n>>, b))
    BY <2>7, IsRead
  <2>9. e = Read(1, Cat(<<n>>, b))
    BY Zenon, <2>6, <2>8, ElementReads
  <2>. HIDE DEF e
  <2>10. e.ok /\ e.rest = Cat(<<n>>, b)
    BY <2>9, IsRead
  <2>11. d = Read(n, b)
    BY Zenon, <2>1, <2>10, UReads
  <2>. HIDE DEF d
  <2>12. d.ok /\ d.value = n /\ d.rest = b
    BY <2>11, IsRead
  <2>13. decodeColumnType(r) = Read(<<"vector", n>>, b)
    BY <1>1, <2>8, <2>10, <2>12
  <2>14. QED
    BY Zenon, <2>1, <2>6, <2>13
<1>4. QED
  BY Zenon, <1>2, <1>3 DEF ColumnTypes

(* Bytes that follow do not change a column type. *)
LEMMA TypeExtends ==
  ASSUME NEW b \in Bytes, NEW x \in Bytes, decodeColumnType(b).ok
  PROVE  Extended(decodeColumnType(Cat(b, x)), decodeColumnType(b), x)
<1>. DEFINE C(r) == readTag(r)
            E(r) == decodeVectorElementType(C(r).rest)
            D(r) == readU(E(r).rest)
            y == Cat(b, x)
<1>1. \A r : decodeColumnType(r) =
               IF C(r).ok
                 THEN CASE C(r).value = "null"   -> Stop
                        [] C(r).value = "vector" ->
                             IF E(r).ok THEN IF D(r).ok THEN Read(<<"vector", D(r).value>>, D(r).rest)
                                             ELSE Stop
                             ELSE Stop
                        [] OTHER                 -> Read(<<C(r).value>>, C(r).rest)
                 ELSE Stop
  BY Zenon DEF decodeColumnType, try
<1>2. C(b).ok
  BY Zenon, <1>1, CursorFields
<1>3. C(b).rest \in Bytes /\ C(y).ok /\ C(y).value = C(b).value /\ C(y).rest = Cat(C(b).rest, x)
  BY ZenonT(30), <1>2, TagExtends, ExtendedFields
<1>. HIDE DEF C
<1>4. CASE C(b).value = "vector"
  <2>1. decodeColumnType(b) = IF E(b).ok THEN IF D(b).ok THEN Read(<<"vector", D(b).value>>, D(b).rest)
                                              ELSE Stop
                              ELSE Stop
    BY Zenon, <1>1, <1>2, <1>4
  <2>2. E(b).ok /\ D(b).ok
    BY Zenon, <2>1, CursorFields
  <2>3. E(b).rest \in Bytes /\ E(y).ok /\ E(y).rest = Cat(E(b).rest, x)
    <3>1. Extended(E(y), E(b), x)
      BY Zenon, <1>3, <2>2, ElementExtends
    <3>. HIDE DEF E
    <3>2. QED
      BY Zenon, <3>1, ExtendedFields
  <2>. HIDE DEF E
  <2>4. D(b).rest \in Bytes /\ D(y).ok /\ D(y).value = D(b).value /\ D(y).rest = Cat(D(b).rest, x)
    <3>1. Extended(D(y), D(b), x)
      BY Zenon, <2>2, <2>3, UExtends
    <3>. HIDE DEF D
    <3>2. QED
      BY Zenon, <3>1, ExtendedFields
  <2>. HIDE DEF D
  <2>5. /\ decodeColumnType(b) = Read(<<"vector", D(b).value>>, D(b).rest)
        /\ decodeColumnType(y) = Read(<<"vector", D(b).value>>, Cat(D(b).rest, x))
    BY Zenon, <1>1, <1>2, <1>3, <1>4, <2>2, <2>3, <2>4
  <2>6. decodeColumnType(b).value = <<"vector", D(b).value>> /\ decodeColumnType(b).rest = D(b).rest
    BY <2>5, IsRead
  <2>7. QED
    BY Zenon, <2>4, <2>5, <2>6 DEF Extended
<1>5. CASE C(b).value # "vector"
  <2>1. C(b).value # "null"
    BY Zenon, <1>1, <1>2, CursorFields
  <2>2. /\ decodeColumnType(b) = Read(<<C(b).value>>, C(b).rest)
        /\ decodeColumnType(y) = Read(<<C(b).value>>, Cat(C(b).rest, x))
    BY Zenon, <1>1, <1>2, <1>3, <1>5, <2>1
  <2>3. decodeColumnType(b).value = <<C(b).value>> /\ decodeColumnType(b).rest = C(b).rest
    BY <2>2, IsRead
  <2>4. QED
    BY Zenon, <1>3, <2>2, <2>3 DEF Extended
<1>6. QED
  BY Zenon, <1>4, <1>5

-----------------------------------------------------------------------------
(***************************************************************************)
(* Lists.  One turn of the loop that reads n items, and all of them.       *)
(***************************************************************************)
Turn(d, dec) ==
  IF d.ok THEN IF dec[d.rest].ok
                 THEN Read(Append(d.value, dec[d.rest].value), dec[d.rest].rest)
                 ELSE Stop
  ELSE Stop

IsReading(f, n, rest, dec) ==
  f = [k \in 0..n |-> IF k = 0 THEN Read(<<>>, rest) ELSE Turn(f[k - 1], dec)]

(* A reader that extends leaves bytes. *)
LEMMA RestIsBytes ==
  ASSUME NEW dec, Extends(dec), NEW b \in Bytes, dec[b].ok
  PROVE  dec[b].rest \in Bytes
<1>1. <<>> \in Bytes
  BY Zenon, EmptyCat
<1>2. QED
  BY Zenon, <1>1 DEF Extends, Extended

(* readItems takes these turns. *)
LEMMA ItemsTurns ==
  ASSUME NEW n \in Nat, NEW rest \in Bytes, NEW dec, Extends(dec)
  PROVE  \E f : IsReading(f, n, rest, dec) /\ readItems(n, rest, dec) = f[n]
<1>. DEFINE V == {dec[b].value : b \in Bytes}
            S == {Stop} \cup [ok : {TRUE}, value : Seq(V), rest : Bytes]
            step == [p \in (1..n) \X S |-> Turn(p[2], dec)]
            a == Read(<<>>, rest)
<1>. HIDE DEF V
<1>0. \A v \in Seq(V), r \in Bytes : Read(v, r) \in S
  BY DEF Read
<1>1. a \in S
  BY Zenon, <1>0, EmptySeq
<1>2. ASSUME NEW d \in S
      PROVE  Turn(d, dec) \in S
  <2>1. CASE ~d.ok \/ ~dec[d.rest].ok
    BY Zenon, <2>1 DEF Turn
  <2>2. CASE d.ok /\ dec[d.rest].ok
    <3>. DEFINE v == d.value
                r == d.rest
    <3>1. d # Stop
      BY Zenon, <2>2, CursorFields
    <3>2. v \in Seq(V) /\ r \in Bytes
      <4>1. d \in [ok : {TRUE}, value : Seq(V), rest : Bytes]
        BY Zenon, <3>1
      <4>2. QED
        BY Zenon, <4>1
    <3>. HIDE DEF v, r, S
    <3>3. dec[r].value \in V /\ dec[r].rest \in Bytes
      <4>1. dec[r].ok
        BY Zenon, <2>2 DEF r
      <4>2. QED
        BY Zenon, <3>2, <4>1, RestIsBytes DEF V
    <3>4. Append(v, dec[r].value) \in Seq(V)
      BY Zenon, <3>2, <3>3, AppendProperties
    <3>5. Turn(d, dec) = Read(Append(v, dec[r].value), dec[r].rest)
      BY Zenon, <2>2 DEF Turn, v, r
    <3>6. QED
      BY Zenon, <1>0, <3>3, <3>4, <3>5
  <2>3. QED
    BY Zenon, <2>1, <2>2
<1>3. step \in [(1..n) \X S -> S]
  <2>1. \A p \in (1..n) \X S : p[2] \in S
    BY Zenon
  <2>2. \A p \in (1..n) \X S : Turn(p[2], dec) \in S
    BY Zenon, <1>2, <2>1
  <2>3. QED
    BY Zenon, <2>2
<1>4. PICK f \in [0..n -> S] : IsLoop(f, n, a, step)
  <2>. HIDE DEF a, S, step
  <2>1. QED
    BY Zenon, <1>1, <1>3, LoopExists
<1>5. \A k \in 0..n : k # 0 => k \in 1..n /\ k - 1 \in 0..n
  OBVIOUS
<1>6. \A k \in 0..n : k # 0 => step[<<k, f[k - 1]>>] = Turn(f[k - 1], dec)
  BY Zenon, <1>5
<1>. HIDE DEF step
<1>7. IsReading(f, n, rest, dec)
  <2>1. \A k \in 0..n : (IF k = 0 THEN a ELSE step[<<k, f[k - 1]>>])
                          = IF k = 0 THEN a ELSE Turn(f[k - 1], dec)
    BY Zenon, <1>6
  <2>2. QED
    BY Zenon, <1>4, <2>1 DEF IsLoop, IsReading
<1>8. QED
  BY ZenonT(30), <1>7 DEF readItems, IsReading, Turn, try

(* The k-th state of the loop. *)
LEMMA ReadingAt ==
  ASSUME NEW n \in Nat, NEW rest, NEW dec, NEW f, IsReading(f, n, rest, dec)
  PROVE  /\ f[0] = Read(<<>>, rest)
         /\ \A k \in 1..n : f[k] = Turn(f[k - 1], dec)
<1>1. 0 \in 0..n /\ \A k \in 1..n : k \in 0..n /\ k # 0
  OBVIOUS
<1>2. QED
  BY Zenon, <1>1 DEF IsReading

(* readEach is a count and the loop. *)
LEMMA EachIs ==
  ASSUME NEW b, NEW dec, readU(b).ok
  PROVE  readEach(b, dec) = readItems(readU(b).value, readU(b).rest, dec)
BY Zenon DEF readEach, try

(* More bytes behind a list that was read change nothing else. *)
LEMMA EachExtends ==
  ASSUME NEW dec, Extends(dec), NEW b \in Bytes, NEW x \in Bytes, readEach(b, dec).ok
  PROVE  Extended(readEach(Cat(b, x), dec), readEach(b, dec), x)
<1>. DEFINE c == readU(b)
            d == readU(Cat(b, x))
            n == c.value
<1>1. c.ok
  BY Zenon, CursorFields DEF readEach, try
<1>2. n \in Nat /\ c.rest \in Bytes /\ Extended(d, c, x)
  BY Zenon, <1>1, URead, UExtends
<1>3. d.ok /\ d.value = n /\ d.rest = Cat(c.rest, x)
  BY Zenon, <1>2, ExtendedFields
<1>4. n \in Nat /\ c.rest \in Bytes /\ d.rest \in Bytes
  <2>1. c.rest \in Bytes => Cat(c.rest, x) \in Bytes
    BY Zenon, CatLaws
  <2>2. QED
    BY Zenon, <1>2, <1>3, <2>1
<1>5. /\ readEach(b, dec) = readItems(n, c.rest, dec)
      /\ readEach(Cat(b, x), dec) = readItems(n, d.rest, dec)
  BY Zenon, <1>1, <1>3, EachIs
<1>. HIDE DEF c, d, n
<1>6. PICK f : IsReading(f, n, c.rest, dec) /\ readItems(n, c.rest, dec) = f[n]
  BY Zenon, <1>4, ItemsTurns
<1>7. PICK g : IsReading(g, n, d.rest, dec) /\ readItems(n, d.rest, dec) = g[n]
  BY Zenon, <1>4, ItemsTurns
<1>8. f[0] = Read(<<>>, c.rest) /\ \A k \in 1..n : f[k] = Turn(f[k - 1], dec)
  <2>1. IsReading(f, n, c.rest, dec)
    BY Zenon, <1>6
  <2>2. QED
    BY <1>4, <2>1, ReadingAt
<1>9. g[0] = Read(<<>>, d.rest) /\ \A k \in 1..n : g[k] = Turn(g[k - 1], dec)
  <2>1. IsReading(g, n, d.rest, dec)
    BY Zenon, <1>7
  <2>2. QED
    BY <1>4, <2>1, ReadingAt
<1>. DEFINE P == {k \in 0..n : f[k].ok => Extended(g[k], f[k], x)}
<1>10. 0 \in P
  <2>1. f[0] = Read(<<>>, c.rest) /\ g[0] = Read(<<>>, Cat(c.rest, x))
    BY Zenon, <1>3, <1>8, <1>9
  <2>2. f[0].value = <<>> /\ f[0].rest = c.rest
    BY <2>1, IsRead
  <2>3. 0 \in 0..n
    BY <1>2
  <2>4. QED
    BY Zenon, <1>2, <2>1, <2>2, <2>3 DEF Extended
<1>11. ASSUME NEW k \in 1..n, k - 1 \in P
      PROVE  k \in P
  <2>. DEFINE u == f[k - 1]
              v == g[k - 1]
  <2>1. f[k] = Turn(u, dec) /\ g[k] = Turn(v, dec)
    BY Zenon, <1>8, <1>9
  <2>2. SUFFICES ASSUME f[k].ok
                 PROVE  Extended(g[k], f[k], x)
    <3>1. k \in 0..n
      BY <1>2
    <3>2. QED
      BY Zenon, <3>1
  <2>3. u.ok /\ dec[u.rest].ok
    BY Zenon, <2>1, <2>2, CursorFields DEF Turn
  <2>4. Extended(v, u, x)
    BY Zenon, <1>11, <2>3
  <2>. HIDE DEF u, v
  <2>5. u.rest \in Bytes /\ v.ok /\ v.value = u.value /\ v.rest = Cat(u.rest, x)
    BY Zenon, <2>4, ExtendedFields
  <2>. DEFINE i == dec[u.rest]
              j == dec[Cat(u.rest, x)]
  <2>6. Extended(j, i, x)
    BY Zenon, <2>3, <2>5 DEF Extends
  <2>7. f[k] = Read(Append(u.value, i.value), i.rest)
    BY Zenon, <2>1, <2>3 DEF Turn
  <2>. HIDE DEF i, j
  <2>8. i.rest \in Bytes /\ j.ok /\ j.value = i.value /\ j.rest = Cat(i.rest, x)
    BY Zenon, <2>6, ExtendedFields
  <2>9. g[k] = Read(Append(u.value, i.value), Cat(i.rest, x))
    BY Zenon, <2>1, <2>5, <2>8 DEF Turn, j
  <2>10. f[k].value = Append(u.value, i.value) /\ f[k].rest = i.rest
    <3>. DEFINE w == Append(u.value, i.value)
    <3>. HIDE DEF w
    <3>1. f[k] = Read(w, i.rest)
      BY Zenon, <2>7 DEF w
    <3>2. f[k].value = w /\ f[k].rest = i.rest
      BY <3>1, IsRead
    <3>3. QED
      BY Zenon, <3>2 DEF w
  <2>11. QED
    BY Zenon, <2>8, <2>9, <2>10 DEF Extended
<1>12. n \in P
  <2>. HIDE DEF P
  <2>1. \A k \in 0..n : k \in P
    BY Zenon, <1>2, <1>10, <1>11, EveryTurn
  <2>2. n \in 0..n
    BY <1>2
  <2>3. QED
    BY Zenon, <2>1, <2>2
<1>13. QED
  BY Zenon, <1>5, <1>6, <1>7, <1>12

(* Items appends the items one by one. *)
IsWriting(out, s, enc) ==
  out = [k \in 0..Len(s) |-> IF k = 0 THEN <<>> ELSE out[k - 1] \o enc[s[k]]]

(* The bytes of a list are those of its items, one after the other. *)
LEMMA ItemsWritten ==
  ASSUME NEW V, NEW s \in Seq(V), NEW enc, \A v \in V : enc[v] \in Bytes
  PROVE  /\ Len(s) \in Nat
         /\ \E out : /\ Items(s, enc) = out[Len(s)]
                     /\ \A k \in 0..Len(s) : out[k] \in Bytes
                     /\ out[0] = <<>>
                     /\ \A k \in 1..Len(s) : out[k] = Cat(out[k - 1], enc[s[k]])
<1>. DEFINE n == Len(s)
            step == [p \in (1..n) \X Bytes |-> p[2] \o enc[s[p[1]]]]
<1>1. n \in Nat /\ \A k \in 1..n : s[k] \in V
  BY LenProperties
<1>. HIDE DEF n
<1>2. step \in [(1..n) \X Bytes -> Bytes]
  <2>1. \A p \in (1..n) \X Bytes : p[2] \in Bytes /\ enc[s[p[1]]] \in Bytes
    BY Zenon, <1>1
  <2>2. \A p \in (1..n) \X Bytes : p[2] \o enc[s[p[1]]] \in Bytes
    BY Zenon, <2>1, CatBytes
  <2>3. QED
    BY Zenon, <2>2
<1>3. <<>> \in Bytes
  BY Zenon, EmptySeq DEF Bytes
<1>4. PICK f \in [0..n -> Bytes] : IsLoop(f, n, <<>>, step)
  <2>. HIDE DEF step
  <2>1. QED
    BY Zenon, <1>1, <1>2, <1>3, LoopExists
<1>5. /\ 0 \in 0..n
      /\ \A k \in 0..n : k # 0 => k \in 1..n /\ k - 1 \in 0..n
      /\ \A k \in 1..n : k \in 0..n /\ k # 0
  BY <1>1
<1>6. \A k \in 0..n : k # 0 => step[<<k, f[k - 1]>>] = f[k - 1] \o enc[s[k]]
  BY Zenon, <1>5
<1>. HIDE DEF step
<1>7. IsWriting(f, s, enc)
  <2>1. \A k \in 0..n : (IF k = 0 THEN <<>> ELSE step[<<k, f[k - 1]>>])
                          = IF k = 0 THEN <<>> ELSE f[k - 1] \o enc[s[k]]
    BY Zenon, <1>6
  <2>2. QED
    BY Zenon, <1>4, <2>1 DEF IsLoop, IsWriting, n
<1>8. PICK out : IsWriting(out, s, enc) /\ Items(s, enc) = out[n]
  BY Zenon, <1>7 DEF Items, IsWriting, n
<1>9. out[0] = <<>> /\ \A k \in 1..n : out[k] = Cat(out[k - 1], enc[s[k]])
  BY Zenon, <1>5, <1>8 DEF IsWriting, Cat, n
<1>10. \A k \in 0..n : out[k] \in Bytes
  <2>. DEFINE P == {k \in 0..n : out[k] \in Bytes}
  <2>1. 0 \in P
    BY Zenon, <1>3, <1>5, <1>9
  <2>2. ASSUME NEW k \in 1..n, k - 1 \in P
        PROVE  k \in P
    <3>1. out[k - 1] \in Bytes /\ enc[s[k]] \in Bytes
      BY Zenon, <1>1, <2>2
    <3>2. Cat(out[k - 1], enc[s[k]]) \in Bytes
      BY Zenon, <3>1, CatLaws
    <3>3. QED
      BY Zenon, <1>5, <1>9, <3>2
  <2>. HIDE DEF P
  <2>3. \A k \in 0..n : k \in P
    BY Zenon, <1>1, <2>1, <2>2, EveryTurn
  <2>4. QED
    BY Zenon, <2>3 DEF P
<1>11. QED
  BY Zenon, <1>1, <1>8, <1>9, <1>10 DEF n

(* The first k items of a list, one more each time. *)
Prefix(s, k) == [i \in 1..k |-> s[i]]

(* A list grows to itself, item by item. *)
LEMMA Prefixes ==
  ASSUME NEW V, NEW s \in Seq(V)
  PROVE  /\ Prefix(s, 0) = <<>>
         /\ Prefix(s, Len(s)) = s
         /\ \A k \in 1..Len(s) : Append(Prefix(s, k - 1), s[k]) = Prefix(s, k)
<1>1. Prefix(s, 0) = <<>>
  BY DEF Prefix
<1>2. Prefix(s, Len(s)) = s
  BY DEF Prefix
<1>3. ASSUME NEW k \in 1..Len(s)
      PROVE  Append(Prefix(s, k - 1), s[k]) = Prefix(s, k)
  <2>1. Len(s) \in Nat /\ k \in Nat /\ k - 1 \in Nat /\ \A i \in 1..k : s[i] \in V
    BY LenProperties
  <2>2. Prefix(s, k - 1) \in Seq(V) /\ Len(Prefix(s, k - 1)) = k - 1
    BY <2>1 DEF Prefix
  <2>3. Prefix(s, k) \in Seq(V) /\ Len(Prefix(s, k)) = k
    BY <2>1 DEF Prefix
  <2>. DEFINE t == Append(Prefix(s, k - 1), s[k])
  <2>4. s[k] \in V
    BY <2>1
  <2>5. /\ t \in Seq(V) /\ Len(t) = (k - 1) + 1
        /\ \A i \in 1..(k - 1) : t[i] = Prefix(s, k - 1)[i]
        /\ t[(k - 1) + 1] = s[k]
    BY <2>2, <2>4, AppendProperties
  <2>. HIDE DEF t
  <2>6. \A i \in 1..k : t[i] = s[i]
    BY <2>1, <2>5 DEF Prefix
  <2>7. \A i \in 1..k : Prefix(s, k)[i] = s[i]
    BY <2>1 DEF Prefix
  <2>8. Len(t) = Len(Prefix(s, k)) /\ \A i \in 1..Len(t) : t[i] = Prefix(s, k)[i]
    BY <2>1, <2>3, <2>5, <2>6, <2>7
  <2>9. t = Prefix(s, k)
    BY Zenon, <2>3, <2>5, <2>8, SeqEqual
  <2>10. QED
    BY Zenon, <2>9 DEF t
<1>4. QED
  BY Zenon, <1>1, <1>2, <1>3

(* A list is read back as it was written. *)
LEMMA EachReads ==
  ASSUME NEW dec, NEW enc, NEW V, Extends(dec), Reverses(dec, enc, V),
         NEW s \in Seq(V), NEW b \in Bytes
  PROVE  Each(s, enc) \in Bytes /\ readEach(Cat(Each(s, enc), b), dec) = Read(s, b)
<1>. DEFINE n == Len(s)
<1>1. \A v \in V : enc[v] \in Bytes /\ \A r \in Bytes : dec[Cat(enc[v], r)] = Read(v, r)
  BY Zenon DEF Reverses
<1>2. n \in Nat /\ \A k \in 1..n : s[k] \in V
  BY LenProperties
<1>3. PICK out : /\ Items(s, enc) = out[n]
                 /\ \A k \in 0..n : out[k] \in Bytes
                 /\ out[0] = <<>>
                 /\ \A k \in 1..n : out[k] = Cat(out[k - 1], enc[s[k]])
  <2>1. \A v \in V : enc[v] \in Bytes
    BY Zenon, <1>1
  <2>2. QED
    BY <2>1, ItemsWritten
<1>4. /\ Prefix(s, 0) = <<>> /\ Prefix(s, n) = s
      /\ \A k \in 1..n : Append(Prefix(s, k - 1), s[k]) = Prefix(s, k)
  BY Zenon, Prefixes
<1>. HIDE DEF n
<1>5. 0 \in 0..n /\ n \in 0..n /\ \A k \in 1..n : k \in 0..n /\ k - 1 \in 0..n
  BY <1>2
<1>. DEFINE At(k, r, f) == IsReading(f, n, Cat(out[k], r), dec) => f[k] = Read(Prefix(s, k), r)
            P == {k \in 0..n : \A r \in Bytes : \A f : At(k, r, f)}
<1>6. 0 \in P
  <2>1. ASSUME NEW r \in Bytes, NEW f, IsReading(f, n, Cat(out[0], r), dec)
        PROVE  f[0] = Read(Prefix(s, 0), r)
    <3>1. Cat(out[0], r) = r
      <4>1. Cat(<<>>, r) = r
        BY Zenon, EmptyCat
      <4>2. QED
        BY Zenon, <1>3, <4>1
    <3>2. f[0] = Read(<<>>, Cat(out[0], r))
      BY <1>2, <2>1, ReadingAt
    <3>3. QED
      BY Zenon, <1>4, <3>1, <3>2
  <2>2. QED
    BY Zenon, <1>5, <2>1
<1>7. ASSUME NEW k \in 1..n, k - 1 \in P
      PROVE  k \in P
  <2>1. ASSUME NEW r \in Bytes, NEW f, IsReading(f, n, Cat(out[k], r), dec)
        PROVE  f[k] = Read(Prefix(s, k), r)
    <3>. DEFINE e == enc[s[k]]
                u == f[k - 1]
                p == Prefix(s, k - 1)
                a == out[k - 1]
    <3>1. a \in Bytes /\ e \in Bytes /\ out[k] = Cat(a, e)
      BY Zenon, <1>1, <1>2, <1>3, <1>5
    <3>2. Cat(e, r) \in Bytes /\ dec[Cat(e, r)] = Read(s[k], r)
      BY Zenon, <1>1, <1>2, CatLaws
    <3>. HIDE DEF e, a
    <3>3. Cat(out[k], r) = Cat(a, Cat(e, r))
      BY <3>1, CatLaws
    <3>4. u = Read(p, Cat(e, r))
      <4>1. IsReading(f, n, Cat(a, Cat(e, r)), dec)
        BY Zenon, <2>1, <3>3
      <4>2. \A q \in Bytes : At(k - 1, q, f)
        BY Zenon, <1>7
      <4>3. QED
        BY Zenon, <3>2, <4>1, <4>2 DEF a
    <3>5. f[k] = Turn(u, dec)
      BY <1>2, <2>1, ReadingAt
    <3>. HIDE DEF u, p
    <3>6. u.ok /\ u.value = p /\ u.rest = Cat(e, r)
      BY <3>4, IsRead
    <3>. DEFINE i == dec[u.rest]
    <3>7. i = Read(s[k], r)
      BY Zenon, <3>2, <3>6
    <3>8. Turn(u, dec) = IF i.ok THEN Read(Append(p, i.value), i.rest) ELSE Stop
      BY Zenon, <3>6 DEF Turn
    <3>. HIDE DEF i
    <3>9. i.ok /\ i.value = s[k] /\ i.rest = r
      BY <3>7, IsRead
    <3>10. f[k] = Read(Append(p, s[k]), r)
      BY Zenon, <3>5, <3>8, <3>9
    <3>11. QED
      BY Zenon, <1>4, <3>10 DEF p
  <2>2. QED
    BY Zenon, <1>5, <2>1
<1>8. n \in P
  <2>. HIDE DEF P
  <2>1. \A k \in 0..n : k \in P
    BY Zenon, <1>2, <1>6, <1>7, EveryTurn
  <2>2. QED
    BY Zenon, <1>5, <2>1
<1>. DEFINE t == Items(s, enc)
<1>9. t \in Bytes /\ <<n>> \in Bytes /\ Each(s, enc) = Cat(<<n>>, t)
  BY Zenon, <1>2, <1>3, <1>5, OneByte DEF Each, Cat, n
<1>10. Each(s, enc) \in Bytes /\ Cat(t, b) \in Bytes
  BY <1>9, CatLaws
<1>11. Cat(Each(s, enc), b) = Cat(<<n>>, Cat(t, b))
  BY <1>9, CatLaws
<1>. DEFINE c == readU(Cat(Each(s, enc), b))
<1>12. c = Read(n, Cat(t, b))
  BY Zenon, <1>2, <1>10, <1>11, UReads
<1>. HIDE DEF t, c
<1>13. c.ok /\ c.value = n /\ c.rest = Cat(t, b)
  BY <1>12, IsRead
<1>14. readEach(Cat(Each(s, enc), b), dec) = readItems(n, Cat(t, b), dec)
  <2>1. readEach(Cat(Each(s, enc), b), dec) = readItems(c.value, c.rest, dec)
    BY Zenon, <1>13, EachIs DEF c
  <2>2. QED
    BY Zenon, <1>13, <2>1
<1>15. PICK f : IsReading(f, n, Cat(t, b), dec) /\ readItems(n, Cat(t, b), dec) = f[n]
  BY Zenon, <1>2, <1>10, ItemsTurns
<1>16. f[n] = Read(s, b)
  BY Zenon, <1>3, <1>4, <1>8, <1>15 DEF t
<1>17. QED
  BY Zenon, <1>10, <1>14, <1>15, <1>16

(* A view or a procedure is read back as it was written. *)
LEMMA ObjectReads ==
  ASSUME NEW v \in StoredObjects, NEW b \in Bytes
  PROVE  encodeObject(v) \in Bytes /\ decodeObject(Cat(encodeObject(v), b)) = Read(v, b)
<1>. DEFINE P1 == appendBytes(v.name)
            P2 == appendBytes(v.body)
            T2 == b
            T1 == Cat(P2, T2)
            r == Cat(encodeObject(v), b)
            C1 == readLengthPrefixedBytes(r)
            C2 == readLengthPrefixedBytes(C1.rest)
<1>1. /\ v.name \in Bytes
      /\ v.body \in Bytes
  BY DEF StoredObjects
<1>2. P1 \in Bytes /\ P2 \in Bytes
  <2>1. P1 \in Bytes
    BY Zenon, <1>1, BytesRead
  <2>2. P2 \in Bytes
    BY Zenon, <1>1, BytesRead
  <2>3. QED
    BY Zenon, <2>1, <2>2
<1>3. encodeObject(v) = Cat(P1, P2)
  BY Zenon DEF encodeObject, Cat
<1>. HIDE DEF P1, P2
<1>4. encodeObject(v) \in Bytes /\ r = Cat(P1, T1) /\ T1 \in Bytes /\ T2 \in Bytes
  BY <1>2, <1>3, CatLaws
<1>5. decodeObject(r) =
        IF C1.ok THEN
        IF C2.ok THEN
        Read([name |-> C1.value, body |-> C2.value], C2.rest)
        ELSE Stop ELSE Stop
  BY Zenon DEF decodeObject, try
<1>. HIDE DEF T1
<1>6. C1.ok /\ C1.value = v.name /\ C1.rest = T1
  <2>1. C1 = readLengthPrefixedBytes(Cat(P1, T1))
    BY Zenon, <1>4
  <2>2. readLengthPrefixedBytes(Cat(P1, T1)) = Read(v.name, T1)
    BY Zenon, <1>1, <1>4, BytesRead DEF P1
  <2>. HIDE DEF C1
  <2>3. QED
    BY <2>1, <2>2, IsRead
<1>. HIDE DEF C1
<1>7. C2.ok /\ C2.value = v.body /\ C2.rest = b
  <2>1. C2 = readLengthPrefixedBytes(Cat(P2, b))
    BY Zenon, <1>6 DEF T1
  <2>2. readLengthPrefixedBytes(Cat(P2, b)) = Read(v.body, b)
    BY Zenon, <1>1, <1>4, BytesRead DEF P2
  <2>. HIDE DEF C2
  <2>3. QED
    BY <2>1, <2>2, IsRead
<1>. HIDE DEF C2
<1>8. v = [name |-> v.name, body |-> v.body]
  BY DEF StoredObjects
<1>9. QED
  BY Zenon, <1>4, <1>5, <1>6, <1>7, <1>8

(* More bytes behind it change nothing else. *)
LEMMA ObjectExtends ==
  ASSUME NEW b \in Bytes, NEW x \in Bytes, decodeObject(b).ok
  PROVE  Extended(decodeObject(Cat(b, x)), decodeObject(b), x)
<1>. DEFINE C1(r) == readLengthPrefixedBytes(r)
            C2(r) == readLengthPrefixedBytes(C1(r).rest)
            V(r) == [name |-> C1(r).value, body |-> C2(r).value]
            y == Cat(b, x)
<1>1. \A r : decodeObject(r) =
               IF C1(r).ok THEN
               IF C2(r).ok THEN
               Read(V(r), C2(r).rest)
               ELSE Stop ELSE Stop
  BY Zenon DEF decodeObject, try
<1>2. C1(b).ok /\ C2(b).ok
  BY Zenon, <1>1, CursorFields
<1>3. /\ C1(b).rest \in Bytes /\ C1(y).ok /\ C1(y).value = C1(b).value
      /\ C1(y).rest = Cat(C1(b).rest, x)
  <2>1. Extended(C1(y), C1(b), x)
    BY Zenon, <1>2, BytesExtend
  <2>. HIDE DEF C1
  <2>2. QED
    BY Zenon, <2>1, ExtendedFields
<1>. HIDE DEF C1
<1>4. /\ C2(b).rest \in Bytes /\ C2(y).ok /\ C2(y).value = C2(b).value
      /\ C2(y).rest = Cat(C2(b).rest, x)
  <2>1. Extended(C2(y), C2(b), x)
    BY Zenon, <1>2, <1>3, BytesExtend
  <2>. HIDE DEF C2
  <2>2. QED
    BY Zenon, <2>1, ExtendedFields
<1>. HIDE DEF C2
<1>5. V(y) = V(b)
  BY Zenon, <1>3, <1>4
<1>. HIDE DEF V
<1>6. decodeObject(b) = Read(V(b), C2(b).rest) /\ decodeObject(y) = Read(V(b), Cat(C2(b).rest, x))
  BY Zenon, <1>1, <1>2, <1>3, <1>4, <1>5
<1>7. decodeObject(b).value = V(b) /\ decodeObject(b).rest = C2(b).rest
  BY <1>6, IsRead
<1>8. QED
  BY Zenon, <1>4, <1>6, <1>7 DEF Extended

(* No bytes are bytes. *)
LEMMA EmptyBytes == <<>> \in Bytes
BY EmptySeq DEF Bytes

(* A view or a procedure, as functions. *)
ObjectReader == [r \in Bytes |-> decodeObject(r)]

ObjectWriter == [object \in StoredObjects |-> encodeObject(object)]

(* They have the two laws. *)
LEMMA ObjectLaws == Extends(ObjectReader) /\ Reverses(ObjectReader, ObjectWriter, StoredObjects)
<1>1. \A r \in Bytes : ObjectReader[r] = decodeObject(r)
  BY Zenon DEF ObjectReader
<1>2. \A v \in StoredObjects : ObjectWriter[v] = encodeObject(v)
  BY Zenon DEF ObjectWriter
<1>3. \A b, x \in Bytes : Cat(b, x) \in Bytes
  BY Zenon, CatLaws
<1>4. Extends(ObjectReader)
  <2>1. SUFFICES ASSUME NEW b \in Bytes, NEW x \in Bytes, ObjectReader[b].ok
                 PROVE  Extended(ObjectReader[Cat(b, x)], ObjectReader[b], x)
    BY Zenon DEF Extends
  <2>2. QED
    BY Zenon, <2>1, <1>1, <1>3, ObjectExtends
<1>5. Reverses(ObjectReader, ObjectWriter, StoredObjects)
  <2>1. SUFFICES ASSUME NEW v \in StoredObjects
                 PROVE  /\ ObjectWriter[v] \in Bytes
                        /\ \A b \in Bytes : ObjectReader[Cat(ObjectWriter[v], b)] = Read(v, b)
    BY Zenon DEF Reverses
  <2>2. ObjectWriter[v] = encodeObject(v)
    BY Zenon, <1>2
  <2>3. encodeObject(v) \in Bytes
    BY Zenon, <1>3, EmptyBytes, ObjectReads
  <2>4. QED
    BY Zenon, <1>1, <1>3, <2>2, <2>3, ObjectReads
<1>6. QED
  BY Zenon, <1>4, <1>5

(* And a list of them has, too. *)
LEMMA ObjectListReads ==
  ASSUME NEW s \in Seq(StoredObjects), NEW b \in Bytes
  PROVE  /\ Each(s, ObjectWriter) \in Bytes
         /\ readEach(Cat(Each(s, ObjectWriter), b), ObjectReader) = Read(s, b)
BY Zenon, ObjectLaws, EachReads

(* The same for every list of a snapshot: its objects, *)
LEMMA ObjectListExtends ==
  ASSUME NEW b \in Bytes, NEW x \in Bytes, readEach(b, ObjectReader).ok
  PROVE  Extended(readEach(Cat(b, x), ObjectReader), readEach(b, ObjectReader), x)
BY Zenon, ObjectLaws, EachExtends

(* A name, as functions. *)
NameReader == [r \in Bytes |-> readLengthPrefixedBytes(r)]

NameWriter == [s \in Bytes |-> appendBytes(s)]

(* They have the two laws. *)
LEMMA NameLaws == Extends(NameReader) /\ Reverses(NameReader, NameWriter, Bytes)
<1>1. \A r \in Bytes : NameReader[r] = readLengthPrefixedBytes(r)
  BY Zenon DEF NameReader
<1>2. \A v \in Bytes : NameWriter[v] = appendBytes(v)
  BY Zenon DEF NameWriter
<1>3. \A b, x \in Bytes : Cat(b, x) \in Bytes
  BY Zenon, CatLaws
<1>4. Extends(NameReader)
  <2>1. SUFFICES ASSUME NEW b \in Bytes, NEW x \in Bytes, NameReader[b].ok
                 PROVE  Extended(NameReader[Cat(b, x)], NameReader[b], x)
    BY Zenon DEF Extends
  <2>2. QED
    BY Zenon, <2>1, <1>1, <1>3, BytesExtend
<1>5. Reverses(NameReader, NameWriter, Bytes)
  <2>1. SUFFICES ASSUME NEW v \in Bytes
                 PROVE  /\ NameWriter[v] \in Bytes
                        /\ \A b \in Bytes : NameReader[Cat(NameWriter[v], b)] = Read(v, b)
    BY Zenon DEF Reverses
  <2>2. NameWriter[v] = appendBytes(v)
    BY Zenon, <1>2
  <2>3. appendBytes(v) \in Bytes
    BY Zenon, <1>3, EmptyBytes, BytesRead
  <2>4. QED
    BY Zenon, <1>1, <1>3, <2>2, <2>3, BytesRead
<1>6. QED
  BY Zenon, <1>4, <1>5

(* And a list of them has, too. *)
LEMMA NameListReads ==
  ASSUME NEW s \in Seq(Bytes), NEW b \in Bytes
  PROVE  /\ Each(s, NameWriter) \in Bytes
         /\ readEach(Cat(Each(s, NameWriter), b), NameReader) = Read(s, b)
BY ZenonT(30), NameLaws, EachReads

(* its names, *)
LEMMA NameListExtends ==
  ASSUME NEW b \in Bytes, NEW x \in Bytes, readEach(b, NameReader).ok
  PROVE  Extended(readEach(Cat(b, x), NameReader), readEach(b, NameReader), x)
BY Zenon, NameLaws, EachExtends

(* A value, as functions. *)
ValueReader == [r \in Bytes |-> decodeValue(r)]

ValueWriter == [v \in SqlValues |-> appendValue(v)]

(* They have the two laws. *)
LEMMA ValueLaws == Extends(ValueReader) /\ Reverses(ValueReader, ValueWriter, SqlValues)
<1>1. \A r \in Bytes : ValueReader[r] = decodeValue(r)
  BY Zenon DEF ValueReader
<1>2. \A v \in SqlValues : ValueWriter[v] = appendValue(v)
  BY Zenon DEF ValueWriter
<1>3. \A b, x \in Bytes : Cat(b, x) \in Bytes
  BY Zenon, CatLaws
<1>4. Extends(ValueReader)
  <2>1. SUFFICES ASSUME NEW b \in Bytes, NEW x \in Bytes, ValueReader[b].ok
                 PROVE  Extended(ValueReader[Cat(b, x)], ValueReader[b], x)
    BY Zenon DEF Extends
  <2>2. QED
    BY Zenon, <2>1, <1>1, <1>3, ValueExtends
<1>5. Reverses(ValueReader, ValueWriter, SqlValues)
  <2>1. SUFFICES ASSUME NEW v \in SqlValues
                 PROVE  /\ ValueWriter[v] \in Bytes
                        /\ \A b \in Bytes : ValueReader[Cat(ValueWriter[v], b)] = Read(v, b)
    BY Zenon DEF Reverses
  <2>2. ValueWriter[v] = appendValue(v)
    BY Zenon, <1>2
  <2>3. appendValue(v) \in Bytes
    BY Zenon, <1>3, EmptyBytes, ValueReads
  <2>4. QED
    BY Zenon, <1>1, <1>3, <2>2, <2>3, ValueReads
<1>6. QED
  BY Zenon, <1>4, <1>5

(* And a list of them has, too. *)
LEMMA ValueListReads ==
  ASSUME NEW s \in Seq(SqlValues), NEW b \in Bytes
  PROVE  /\ Each(s, ValueWriter) \in Bytes
         /\ readEach(Cat(Each(s, ValueWriter), b), ValueReader) = Read(s, b)
BY Zenon, ValueLaws, EachReads

(* its values, *)
LEMMA ValueListExtends ==
  ASSUME NEW b \in Bytes, NEW x \in Bytes, readEach(b, ValueReader).ok
  PROVE  Extended(readEach(Cat(b, x), ValueReader), readEach(b, ValueReader), x)
BY Zenon, ValueLaws, EachExtends

(* A row is read back as it was written. *)
LEMMA RowReads ==
  ASSUME NEW v \in StoredRows, NEW b \in Bytes
  PROVE  encodeRow(v) \in Bytes /\ decodeRow(Cat(encodeRow(v), b)) = Read(v, b)
<1>. DEFINE P1 == <<v.id>>
            P2 == Each(v.values, ValueWriter)
            T2 == b
            T1 == Cat(P2, T2)
            r == Cat(encodeRow(v), b)
            C1 == readU(r)
            C2 == readEach(C1.rest, ValueReader)
<1>1. /\ v.id \in Nat
      /\ v.values \in Seq(SqlValues)
  BY DEF StoredRows
<1>2. P1 \in Bytes /\ P2 \in Bytes
  <2>1. P1 \in Bytes
    BY Zenon, <1>1, UReads
  <2>2. P2 \in Bytes
    BY Zenon, <1>1, ValueListReads
  <2>3. QED
    BY Zenon, <2>1, <2>2
<1>3. encodeRow(v) = Cat(P1, P2)
  BY Zenon DEF encodeRow, Cat, ValueReader, ValueWriter
<1>. HIDE DEF P1, P2
<1>4. encodeRow(v) \in Bytes /\ r = Cat(P1, T1) /\ T1 \in Bytes /\ T2 \in Bytes
  BY <1>2, <1>3, CatLaws
<1>5. decodeRow(r) =
        IF C1.ok THEN
        IF C2.ok THEN
        Read([id |-> C1.value, values |-> C2.value], C2.rest)
        ELSE Stop ELSE Stop
  BY Zenon DEF decodeRow, try, ValueReader, ValueWriter
<1>. HIDE DEF T1
<1>6. C1.ok /\ C1.value = v.id /\ C1.rest = T1
  <2>1. C1 = readU(Cat(P1, T1))
    BY Zenon, <1>4
  <2>2. readU(Cat(P1, T1)) = Read(v.id, T1)
    BY Zenon, <1>1, <1>4, UReads DEF P1
  <2>. HIDE DEF C1
  <2>3. QED
    BY <2>1, <2>2, IsRead
<1>. HIDE DEF C1
<1>7. C2.ok /\ C2.value = v.values /\ C2.rest = b
  <2>1. C2 = readEach(Cat(P2, b), ValueReader)
    BY Zenon, <1>6 DEF T1
  <2>2. readEach(Cat(P2, b), ValueReader) = Read(v.values, b)
    BY Zenon, <1>1, ValueListReads DEF P2
  <2>. HIDE DEF C2
  <2>3. QED
    BY <2>1, <2>2, IsRead
<1>. HIDE DEF C2
<1>8. v = [id |-> v.id, values |-> v.values]
  BY DEF StoredRows
<1>9. QED
  BY Zenon, <1>4, <1>5, <1>6, <1>7, <1>8

(* More bytes behind it change nothing else. *)
LEMMA RowExtends ==
  ASSUME NEW b \in Bytes, NEW x \in Bytes, decodeRow(b).ok
  PROVE  Extended(decodeRow(Cat(b, x)), decodeRow(b), x)
<1>. DEFINE C1(r) == readU(r)
            C2(r) == readEach(C1(r).rest, ValueReader)
            V(r) == [id |-> C1(r).value, values |-> C2(r).value]
            y == Cat(b, x)
<1>1. \A r : decodeRow(r) =
               IF C1(r).ok THEN
               IF C2(r).ok THEN
               Read(V(r), C2(r).rest)
               ELSE Stop ELSE Stop
  BY Zenon DEF decodeRow, try, ValueReader
<1>2. C1(b).ok /\ C2(b).ok
  BY Zenon, <1>1, CursorFields
<1>3. /\ C1(b).rest \in Bytes /\ C1(y).ok /\ C1(y).value = C1(b).value
      /\ C1(y).rest = Cat(C1(b).rest, x)
  <2>1. Extended(C1(y), C1(b), x)
    BY Zenon, <1>2, UExtends
  <2>. HIDE DEF C1
  <2>2. QED
    BY Zenon, <2>1, ExtendedFields
<1>. HIDE DEF C1
<1>4. /\ C2(b).rest \in Bytes /\ C2(y).ok /\ C2(y).value = C2(b).value
      /\ C2(y).rest = Cat(C2(b).rest, x)
  <2>1. Extended(C2(y), C2(b), x)
    BY Zenon, <1>2, <1>3, ValueListExtends
  <2>. HIDE DEF C2
  <2>2. QED
    BY Zenon, <2>1, ExtendedFields
<1>. HIDE DEF C2
<1>5. V(y) = V(b)
  BY Zenon, <1>3, <1>4
<1>. HIDE DEF V
<1>6. decodeRow(b) = Read(V(b), C2(b).rest) /\ decodeRow(y) = Read(V(b), Cat(C2(b).rest, x))
  BY Zenon, <1>1, <1>2, <1>3, <1>4, <1>5
<1>7. decodeRow(b).value = V(b) /\ decodeRow(b).rest = C2(b).rest
  BY <1>6, IsRead
<1>8. QED
  BY Zenon, <1>4, <1>6, <1>7 DEF Extended

(* An index is read back as it was written. *)
LEMMA IndexReads ==
  ASSUME NEW v \in IndexSpecs, NEW b \in Bytes
  PROVE  encodeIndex(v) \in Bytes /\ decodeIndexSpec(Cat(encodeIndex(v), b)) = Read(v, b)
<1>. DEFINE P1 == appendBool(v.primary)
            P2 == appendBytes(v.name)
            P3 == Each(v.columns, NameWriter)
            T3 == b
            T2 == Cat(P3, T3)
            T1 == Cat(P2, T2)
            r == Cat(encodeIndex(v), b)
            C1 == readBool(r)
            C2 == readLengthPrefixedBytes(C1.rest)
            C3 == readEach(C2.rest, NameReader)
<1>1. /\ v.primary \in BOOLEAN
      /\ v.name \in Bytes
      /\ v.columns \in Seq(Bytes)
  BY DEF IndexSpecs
<1>2. P1 \in Bytes /\ P2 \in Bytes /\ P3 \in Bytes
  <2>1. P1 \in Bytes
    BY Zenon, <1>1, BoolReads
  <2>2. P2 \in Bytes
    BY Zenon, <1>1, BytesRead
  <2>3. P3 \in Bytes
    BY Zenon, <1>1, NameListReads
  <2>4. QED
    BY Zenon, <2>1, <2>2, <2>3
<1>3. encodeIndex(v) = Cat(Cat(P1, P2), P3)
  BY Zenon DEF encodeIndex, Cat, NameReader, NameWriter
<1>. HIDE DEF P1, P2, P3
<1>4. encodeIndex(v) \in Bytes /\ r = Cat(P1, T1) /\ T1 \in Bytes /\ T2 \in Bytes /\ T3 \in Bytes
  BY <1>2, <1>3, CatLaws
<1>5. decodeIndexSpec(r) =
        IF C1.ok THEN
        IF C2.ok THEN
        IF C3.ok THEN
        Read([primary |-> C1.value, name |-> C2.value, columns |-> C3.value], C3.rest)
        ELSE Stop ELSE Stop ELSE Stop
  BY Zenon DEF decodeIndexSpec, try, NameReader, NameWriter
<1>. HIDE DEF T1, T2
<1>6. C1.ok /\ C1.value = v.primary /\ C1.rest = T1
  <2>1. C1 = readBool(Cat(P1, T1))
    BY Zenon, <1>4
  <2>2. readBool(Cat(P1, T1)) = Read(v.primary, T1)
    BY Zenon, <1>1, <1>4, BoolReads DEF P1
  <2>. HIDE DEF C1
  <2>3. QED
    BY <2>1, <2>2, IsRead
<1>. HIDE DEF C1
<1>7. C2.ok /\ C2.value = v.name /\ C2.rest = T2
  <2>1. C2 = readLengthPrefixedBytes(Cat(P2, T2))
    BY Zenon, <1>6 DEF T1
  <2>2. readLengthPrefixedBytes(Cat(P2, T2)) = Read(v.name, T2)
    BY Zenon, <1>1, <1>4, BytesRead DEF P2
  <2>. HIDE DEF C2
  <2>3. QED
    BY <2>1, <2>2, IsRead
<1>. HIDE DEF C2
<1>8. C3.ok /\ C3.value = v.columns /\ C3.rest = b
  <2>1. C3 = readEach(Cat(P3, b), NameReader)
    BY Zenon, <1>7 DEF T2
  <2>2. readEach(Cat(P3, b), NameReader) = Read(v.columns, b)
    BY Zenon, <1>1, NameListReads DEF P3
  <2>. HIDE DEF C3
  <2>3. QED
    BY <2>1, <2>2, IsRead
<1>. HIDE DEF C3
<1>9. v = [primary |-> v.primary, name |-> v.name, columns |-> v.columns]
  BY DEF IndexSpecs
<1>10. QED
  BY Zenon, <1>4, <1>5, <1>6, <1>7, <1>8, <1>9

(* More bytes behind it change nothing else. *)
LEMMA IndexExtends ==
  ASSUME NEW b \in Bytes, NEW x \in Bytes, decodeIndexSpec(b).ok
  PROVE  Extended(decodeIndexSpec(Cat(b, x)), decodeIndexSpec(b), x)
<1>. DEFINE C1(r) == readBool(r)
            C2(r) == readLengthPrefixedBytes(C1(r).rest)
            C3(r) == readEach(C2(r).rest, NameReader)
            V(r) == [primary |-> C1(r).value, name |-> C2(r).value, columns |-> C3(r).value]
            y == Cat(b, x)
<1>1. \A r : decodeIndexSpec(r) =
               IF C1(r).ok THEN
               IF C2(r).ok THEN
               IF C3(r).ok THEN
               Read(V(r), C3(r).rest)
               ELSE Stop ELSE Stop ELSE Stop
  BY Zenon DEF decodeIndexSpec, try, NameReader
<1>2. C1(b).ok /\ C2(b).ok /\ C3(b).ok
  BY Zenon, <1>1, CursorFields
<1>3. /\ C1(b).rest \in Bytes /\ C1(y).ok /\ C1(y).value = C1(b).value
      /\ C1(y).rest = Cat(C1(b).rest, x)
  <2>1. Extended(C1(y), C1(b), x)
    BY Zenon, <1>2, BoolExtends
  <2>. HIDE DEF C1
  <2>2. QED
    BY Zenon, <2>1, ExtendedFields
<1>. HIDE DEF C1
<1>4. /\ C2(b).rest \in Bytes /\ C2(y).ok /\ C2(y).value = C2(b).value
      /\ C2(y).rest = Cat(C2(b).rest, x)
  <2>1. Extended(C2(y), C2(b), x)
    BY Zenon, <1>2, <1>3, BytesExtend
  <2>. HIDE DEF C2
  <2>2. QED
    BY Zenon, <2>1, ExtendedFields
<1>. HIDE DEF C2
<1>5. /\ C3(b).rest \in Bytes /\ C3(y).ok /\ C3(y).value = C3(b).value
      /\ C3(y).rest = Cat(C3(b).rest, x)
  <2>1. Extended(C3(y), C3(b), x)
    BY Zenon, <1>2, <1>4, NameListExtends
  <2>. HIDE DEF C3
  <2>2. QED
    BY Zenon, <2>1, ExtendedFields
<1>. HIDE DEF C3
<1>6. V(y) = V(b)
  BY Zenon, <1>3, <1>4, <1>5
<1>. HIDE DEF V
<1>7. decodeIndexSpec(b) = Read(V(b), C3(b).rest) /\ decodeIndexSpec(y) = Read(V(b), Cat(C3(b).rest, x))
  BY Zenon, <1>1, <1>2, <1>3, <1>4, <1>5, <1>6
<1>8. decodeIndexSpec(b).value = V(b) /\ decodeIndexSpec(b).rest = C3(b).rest
  BY <1>7, IsRead
<1>9. QED
  BY Zenon, <1>5, <1>7, <1>8 DEF Extended

(* A row, as functions. *)
RowReader == [r \in Bytes |-> decodeRow(r)]

RowWriter == [row \in StoredRows |-> encodeRow(row)]

(* They have the two laws. *)
LEMMA RowLaws == Extends(RowReader) /\ Reverses(RowReader, RowWriter, StoredRows)
<1>1. \A r \in Bytes : RowReader[r] = decodeRow(r)
  BY Zenon DEF RowReader
<1>2. \A v \in StoredRows : RowWriter[v] = encodeRow(v)
  BY Zenon DEF RowWriter
<1>3. \A b, x \in Bytes : Cat(b, x) \in Bytes
  BY Zenon, CatLaws
<1>4. Extends(RowReader)
  <2>1. SUFFICES ASSUME NEW b \in Bytes, NEW x \in Bytes, RowReader[b].ok
                 PROVE  Extended(RowReader[Cat(b, x)], RowReader[b], x)
    BY Zenon DEF Extends
  <2>2. QED
    BY Zenon, <2>1, <1>1, <1>3, RowExtends
<1>5. Reverses(RowReader, RowWriter, StoredRows)
  <2>1. SUFFICES ASSUME NEW v \in StoredRows
                 PROVE  /\ RowWriter[v] \in Bytes
                        /\ \A b \in Bytes : RowReader[Cat(RowWriter[v], b)] = Read(v, b)
    BY Zenon DEF Reverses
  <2>2. RowWriter[v] = encodeRow(v)
    BY Zenon, <1>2
  <2>3. encodeRow(v) \in Bytes
    BY Zenon, <1>3, EmptyBytes, RowReads
  <2>4. QED
    BY Zenon, <1>1, <1>3, <2>2, <2>3, RowReads
<1>6. QED
  BY Zenon, <1>4, <1>5

(* And a list of them has, too. *)
LEMMA RowListReads ==
  ASSUME NEW s \in Seq(StoredRows), NEW b \in Bytes
  PROVE  /\ Each(s, RowWriter) \in Bytes
         /\ readEach(Cat(Each(s, RowWriter), b), RowReader) = Read(s, b)
BY Zenon, RowLaws, EachReads

(* its rows, *)
LEMMA RowListExtends ==
  ASSUME NEW b \in Bytes, NEW x \in Bytes, readEach(b, RowReader).ok
  PROVE  Extended(readEach(Cat(b, x), RowReader), readEach(b, RowReader), x)
BY Zenon, RowLaws, EachExtends

(* An index, as functions. *)
IndexReader == [r \in Bytes |-> decodeIndexSpec(r)]

IndexWriter == [index \in IndexSpecs |-> encodeIndex(index)]

(* They have the two laws. *)
LEMMA IndexLaws == Extends(IndexReader) /\ Reverses(IndexReader, IndexWriter, IndexSpecs)
<1>1. \A r \in Bytes : IndexReader[r] = decodeIndexSpec(r)
  BY Zenon DEF IndexReader
<1>2. \A v \in IndexSpecs : IndexWriter[v] = encodeIndex(v)
  BY Zenon DEF IndexWriter
<1>3. \A b, x \in Bytes : Cat(b, x) \in Bytes
  BY Zenon, CatLaws
<1>4. Extends(IndexReader)
  <2>1. SUFFICES ASSUME NEW b \in Bytes, NEW x \in Bytes, IndexReader[b].ok
                 PROVE  Extended(IndexReader[Cat(b, x)], IndexReader[b], x)
    BY Zenon DEF Extends
  <2>2. QED
    BY Zenon, <2>1, <1>1, <1>3, IndexExtends
<1>5. Reverses(IndexReader, IndexWriter, IndexSpecs)
  <2>1. SUFFICES ASSUME NEW v \in IndexSpecs
                 PROVE  /\ IndexWriter[v] \in Bytes
                        /\ \A b \in Bytes : IndexReader[Cat(IndexWriter[v], b)] = Read(v, b)
    BY Zenon DEF Reverses
  <2>2. IndexWriter[v] = encodeIndex(v)
    BY Zenon, <1>2
  <2>3. encodeIndex(v) \in Bytes
    BY Zenon, <1>3, EmptyBytes, IndexReads
  <2>4. QED
    BY Zenon, <1>1, <1>3, <2>2, <2>3, IndexReads
<1>6. QED
  BY Zenon, <1>4, <1>5

(* And a list of them has, too. *)
LEMMA IndexListReads ==
  ASSUME NEW s \in Seq(IndexSpecs), NEW b \in Bytes
  PROVE  /\ Each(s, IndexWriter) \in Bytes
         /\ readEach(Cat(Each(s, IndexWriter), b), IndexReader) = Read(s, b)
BY Zenon, IndexLaws, EachReads

(* its indexes, *)
LEMMA IndexListExtends ==
  ASSUME NEW b \in Bytes, NEW x \in Bytes, readEach(b, IndexReader).ok
  PROVE  Extended(readEach(Cat(b, x), IndexReader), readEach(b, IndexReader), x)
BY Zenon, IndexLaws, EachExtends

(* A default value, or that there is none, is read back as it was written. *)
LEMMA DefaultReads ==
  ASSUME NEW v \in SqlValues \cup {NoDefault}, NEW b \in Bytes
  PROVE  appendDefault(v) \in Bytes /\ readDefault(Cat(appendDefault(v), b)) = Read(v, b)
<1>. DEFINE C(r) == readBool(r)
<1>1. \A r : readDefault(r) = IF C(r).ok THEN IF C(r).value THEN decodeValue(C(r).rest)
                                                          ELSE Read(NoDefault, C(r).rest)
                                         ELSE Stop
  BY Zenon DEF readDefault, try
<1>2. CASE v = NoDefault
  <2>1. appendDefault(v) = appendBool(FALSE)
    BY Zenon, <1>2 DEF appendDefault
  <2>2. appendBool(FALSE) \in Bytes /\ C(Cat(appendBool(FALSE), b)) = Read(FALSE, b)
    BY Zenon, BoolReads
  <2>. HIDE DEF C
  <2>3. /\ C(Cat(appendBool(FALSE), b)).ok /\ C(Cat(appendBool(FALSE), b)).value = FALSE
        /\ C(Cat(appendBool(FALSE), b)).rest = b
    BY ZenonT(30), <2>2, IsRead
  <2>4. QED
    BY Zenon, <1>1, <1>2, <2>1, <2>2, <2>3
<1>3. CASE v # NoDefault
  <2>. DEFINE P == appendBool(TRUE)
              Q == appendValue(v)
              T == Cat(Q, b)
  <2>1. v \in SqlValues
    BY Zenon, <1>3
  <2>2. appendDefault(v) = Cat(P, Q)
    BY Zenon, <1>3 DEF appendDefault, Cat
  <2>3. P \in Bytes
    BY Zenon, BoolReads
  <2>4. Q \in Bytes /\ decodeValue(T) = Read(v, b)
    BY Zenon, <2>1, ValueReads
  <2>5. T \in Bytes
    BY Zenon, <2>4, CatLaws
  <2>6. C(Cat(P, T)) = Read(TRUE, T)
    BY Zenon, <2>5, BoolReads
  <2>. HIDE DEF C, P, Q
  <2>7. Cat(P, Q) \in Bytes /\ Cat(Cat(P, Q), b) = Cat(P, T)
    BY ZenonT(30), <2>3, <2>4, CatLaws
  <2>. HIDE DEF T
  <2>8. C(Cat(P, T)).ok /\ C(Cat(P, T)).value = TRUE /\ C(Cat(P, T)).rest = T
    BY Zenon, <2>6, IsRead
  <2>9. readDefault(Cat(P, T)) = Read(v, b)
    BY Zenon, <1>1, <2>4, <2>8
  <2>10. QED
    BY Zenon, <2>2, <2>7, <2>9
<1>4. QED
  BY Zenon, <1>2, <1>3

(* More bytes behind it change nothing else. *)
LEMMA DefaultExtends ==
  ASSUME NEW b \in Bytes, NEW x \in Bytes, readDefault(b).ok
  PROVE  Extended(readDefault(Cat(b, x)), readDefault(b), x)
<1>. DEFINE C(r) == readBool(r)
            y == Cat(b, x)
<1>1. \A r : readDefault(r) = IF C(r).ok THEN IF C(r).value THEN decodeValue(C(r).rest)
                                                          ELSE Read(NoDefault, C(r).rest)
                                         ELSE Stop
  BY Zenon DEF readDefault, try
<1>2. C(b).ok
  BY Zenon, <1>1, CursorFields
<1>3. Extended(C(y), C(b), x)
  BY Zenon, <1>2, BoolExtends
<1>. HIDE DEF C
<1>4. /\ C(b).rest \in Bytes /\ C(y).ok /\ C(y).value = C(b).value
      /\ C(y).rest = Cat(C(b).rest, x)
  BY Zenon, <1>3, ExtendedFields
<1>5. CASE C(b).value
  <2>1. readDefault(b) = decodeValue(C(b).rest) /\ readDefault(y) = decodeValue(Cat(C(b).rest, x))
    BY Zenon, <1>1, <1>2, <1>4, <1>5
  <2>2. QED
    BY Zenon, <2>1, <1>4, ValueExtends
<1>6. CASE ~C(b).value
  <2>1. readDefault(b) = Read(NoDefault, C(b).rest)
    BY Zenon, <1>1, <1>2, <1>6
  <2>2. readDefault(y) = Read(NoDefault, Cat(C(b).rest, x))
    BY Zenon, <1>1, <1>4, <1>6
  <2>3. readDefault(b).value = NoDefault /\ readDefault(b).rest = C(b).rest
    BY <2>1, IsRead
  <2>4. QED
    BY Zenon, <2>2, <2>3, <1>4 DEF Extended
<1>7. QED
  BY Zenon, <1>5, <1>6

(* A column is read back as it was written. *)
LEMMA ColumnReads ==
  ASSUME NEW v \in ColumnSpecs, NEW b \in Bytes
  PROVE  encodeColumn(v) \in Bytes /\ decodeColumn(Cat(encodeColumn(v), b)) = Read(v, b)
<1>. DEFINE P1 == appendBytes(v.name)
            P2 == appendColumnType(v.column_type)
            P3 == appendBool(v.nullable)
            P4 == appendDefault(v.default_value)
            P5 == appendBool(v.primary_key)
            P6 == appendBool(v.auto_increment)
            T6 == b
            T5 == Cat(P6, T6)
            T4 == Cat(P5, T5)
            T3 == Cat(P4, T4)
            T2 == Cat(P3, T3)
            T1 == Cat(P2, T2)
            r == Cat(encodeColumn(v), b)
            C1 == readLengthPrefixedBytes(r)
            C2 == decodeColumnType(C1.rest)
            C3 == readBool(C2.rest)
            C4 == readDefault(C3.rest)
            C5 == readBool(C4.rest)
            C6 == readBool(C5.rest)
<1>1. /\ v.name \in Bytes
      /\ v.column_type \in ColumnTypes
      /\ v.nullable \in BOOLEAN
      /\ v.default_value \in SqlValues \cup {NoDefault}
      /\ v.primary_key \in BOOLEAN
      /\ v.auto_increment \in BOOLEAN
  BY DEF ColumnSpecs
<1>2. P1 \in Bytes /\ P2 \in Bytes /\ P3 \in Bytes /\ P4 \in Bytes /\ P5 \in Bytes /\ P6 \in Bytes
  <2>1. P1 \in Bytes
    BY Zenon, <1>1, BytesRead
  <2>2. P2 \in Bytes
    BY Zenon, <1>1, TypeReads
  <2>3. P3 \in Bytes
    BY Zenon, <1>1, BoolReads
  <2>4. P4 \in Bytes
    BY Zenon, <1>1, DefaultReads
  <2>5. P5 \in Bytes
    BY Zenon, <1>1, BoolReads
  <2>6. P6 \in Bytes
    BY Zenon, <1>1, BoolReads
  <2>7. QED
    BY Zenon, <2>1, <2>2, <2>3, <2>4, <2>5, <2>6
<1>3. encodeColumn(v) = Cat(Cat(Cat(Cat(Cat(P1, P2), P3), P4), P5), P6)
  BY Zenon DEF encodeColumn, Cat
<1>. HIDE DEF P1, P2, P3, P4, P5, P6
<1>4. encodeColumn(v) \in Bytes /\ r = Cat(P1, T1) /\ T1 \in Bytes /\ T2 \in Bytes /\ T3 \in Bytes
      /\ T4 \in Bytes /\ T5 \in Bytes /\ T6 \in Bytes
  <2>. DEFINE L2 == Cat(P1, P2)
              L3 == Cat(L2, P3)
              L4 == Cat(L3, P4)
              L5 == Cat(L4, P5)
              L6 == Cat(L5, P6)
  <2>1. T5 \in Bytes
    BY Zenon, <1>2, CatLaws
  <2>2. T4 \in Bytes
    BY Zenon, <1>2, <2>1, CatLaws
  <2>3. T3 \in Bytes
    BY Zenon, <1>2, <2>2, CatLaws
  <2>4. T2 \in Bytes
    BY Zenon, <1>2, <2>3, CatLaws
  <2>5. T1 \in Bytes
    BY Zenon, <1>2, <2>4, CatLaws
  <2>6. L2 \in Bytes
    BY Zenon, <1>2, CatLaws
  <2>7. L3 \in Bytes
    BY Zenon, <1>2, <2>6, CatLaws
  <2>8. L4 \in Bytes
    BY Zenon, <1>2, <2>7, CatLaws
  <2>9. L5 \in Bytes
    BY Zenon, <1>2, <2>8, CatLaws
  <2>10. L6 \in Bytes
    BY <1>2, <2>9, CatLaws
  <2>. HIDE DEF L2, L3, L4, L5, L6, T1, T2, T3, T4, T5
  <2>11. Cat(L6, b) = Cat(L5, T5)
    BY <1>2, <2>9, CatLaws DEF L6, T5
  <2>12. Cat(L5, T5) = Cat(L4, T4)
    BY <1>2, <2>1, <2>8, CatLaws DEF L5, T4
  <2>13. Cat(L4, T4) = Cat(L3, T3)
    BY <1>2, <2>2, <2>7, CatLaws DEF L4, T3
  <2>14. Cat(L3, T3) = Cat(L2, T2)
    BY <1>2, <2>3, <2>6, CatLaws DEF L3, T2
  <2>15. Cat(L2, T2) = Cat(P1, T1)
    BY <1>2, <2>4, CatLaws DEF L2, T1
  <2>16. encodeColumn(v) = L6
    BY Zenon, <1>3 DEF L2, L3, L4, L5, L6
  <2>17. QED
    BY Zenon, <2>1, <2>2, <2>3, <2>4, <2>5, <2>6, <2>7, <2>8, <2>9, <2>10, <2>11, <2>12, <2>13, <2>14, <2>15, <2>16
<1>5. decodeColumn(r) =
        IF C1.ok THEN
        IF C2.ok THEN
        IF C3.ok THEN
        IF C4.ok THEN
        IF C5.ok THEN
        IF C6.ok THEN
        Read([name |-> C1.value, column_type |-> C2.value, nullable |-> C3.value, default_value |-> C4.value, primary_key |-> C5.value, auto_increment |-> C6.value], C6.rest)
        ELSE Stop ELSE Stop ELSE Stop ELSE Stop ELSE Stop ELSE Stop
  BY Zenon DEF decodeColumn, try
<1>. HIDE DEF T1, T2, T3, T4, T5
<1>6. C1.ok /\ C1.value = v.name /\ C1.rest = T1
  <2>1. C1 = readLengthPrefixedBytes(Cat(P1, T1))
    BY Zenon, <1>4
  <2>2. readLengthPrefixedBytes(Cat(P1, T1)) = Read(v.name, T1)
    BY Zenon, <1>1, <1>4, BytesRead DEF P1
  <2>. HIDE DEF C1
  <2>3. QED
    BY <2>1, <2>2, IsRead
<1>. HIDE DEF C1
<1>7. C2.ok /\ C2.value = v.column_type /\ C2.rest = T2
  <2>1. C2 = decodeColumnType(Cat(P2, T2))
    BY Zenon, <1>6 DEF T1
  <2>2. decodeColumnType(Cat(P2, T2)) = Read(v.column_type, T2)
    BY Zenon, <1>1, <1>4, TypeReads DEF P2
  <2>. HIDE DEF C2
  <2>3. QED
    BY <2>1, <2>2, IsRead
<1>. HIDE DEF C2
<1>8. C3.ok /\ C3.value = v.nullable /\ C3.rest = T3
  <2>1. C3 = readBool(Cat(P3, T3))
    BY Zenon, <1>7 DEF T2
  <2>2. readBool(Cat(P3, T3)) = Read(v.nullable, T3)
    BY Zenon, <1>1, <1>4, BoolReads DEF P3
  <2>. HIDE DEF C3
  <2>3. QED
    BY <2>1, <2>2, IsRead
<1>. HIDE DEF C3
<1>9. C4.ok /\ C4.value = v.default_value /\ C4.rest = T4
  <2>1. C4 = readDefault(Cat(P4, T4))
    BY Zenon, <1>8 DEF T3
  <2>2. readDefault(Cat(P4, T4)) = Read(v.default_value, T4)
    BY Zenon, <1>1, <1>4, DefaultReads DEF P4
  <2>. HIDE DEF C4
  <2>3. QED
    BY <2>1, <2>2, IsRead
<1>. HIDE DEF C4
<1>10. C5.ok /\ C5.value = v.primary_key /\ C5.rest = T5
  <2>1. C5 = readBool(Cat(P5, T5))
    BY Zenon, <1>9 DEF T4
  <2>2. readBool(Cat(P5, T5)) = Read(v.primary_key, T5)
    BY Zenon, <1>1, <1>4, BoolReads DEF P5
  <2>. HIDE DEF C5
  <2>3. QED
    BY <2>1, <2>2, IsRead
<1>. HIDE DEF C5
<1>11. C6.ok /\ C6.value = v.auto_increment /\ C6.rest = b
  <2>1. C6 = readBool(Cat(P6, b))
    BY Zenon, <1>10 DEF T5
  <2>2. readBool(Cat(P6, b)) = Read(v.auto_increment, b)
    BY Zenon, <1>1, BoolReads DEF P6
  <2>. HIDE DEF C6
  <2>3. QED
    BY <2>1, <2>2, IsRead
<1>. HIDE DEF C6
<1>12. v = [name |-> v.name, column_type |-> v.column_type, nullable |-> v.nullable, default_value |-> v.default_value, primary_key |-> v.primary_key, auto_increment |-> v.auto_increment]
  BY DEF ColumnSpecs
<1>13. QED
  BY ZenonT(30), <1>4, <1>5, <1>6, <1>7, <1>8, <1>9, <1>10, <1>11, <1>12

(* More bytes behind it change nothing else. *)
LEMMA ColumnExtends ==
  ASSUME NEW b \in Bytes, NEW x \in Bytes, decodeColumn(b).ok
  PROVE  Extended(decodeColumn(Cat(b, x)), decodeColumn(b), x)
<1>. DEFINE C1(r) == readLengthPrefixedBytes(r)
            C2(r) == decodeColumnType(C1(r).rest)
            C3(r) == readBool(C2(r).rest)
            C4(r) == readDefault(C3(r).rest)
            C5(r) == readBool(C4(r).rest)
            C6(r) == readBool(C5(r).rest)
            V(r) == [name |-> C1(r).value, column_type |-> C2(r).value, nullable |-> C3(r).value, default_value |-> C4(r).value, primary_key |-> C5(r).value, auto_increment |-> C6(r).value]
            y == Cat(b, x)
<1>1. \A r : decodeColumn(r) =
               IF C1(r).ok THEN
               IF C2(r).ok THEN
               IF C3(r).ok THEN
               IF C4(r).ok THEN
               IF C5(r).ok THEN
               IF C6(r).ok THEN
               Read(V(r), C6(r).rest)
               ELSE Stop ELSE Stop ELSE Stop ELSE Stop ELSE Stop ELSE Stop
  BY Zenon DEF decodeColumn, try
<1>2. C1(b).ok /\ C2(b).ok /\ C3(b).ok /\ C4(b).ok /\ C5(b).ok /\ C6(b).ok
  BY Zenon, <1>1, CursorFields
<1>3. /\ C1(b).rest \in Bytes /\ C1(y).ok /\ C1(y).value = C1(b).value
      /\ C1(y).rest = Cat(C1(b).rest, x)
  <2>1. Extended(C1(y), C1(b), x)
    BY Zenon, <1>2, BytesExtend
  <2>. HIDE DEF C1
  <2>2. QED
    BY Zenon, <2>1, ExtendedFields
<1>. HIDE DEF C1
<1>4. /\ C2(b).rest \in Bytes /\ C2(y).ok /\ C2(y).value = C2(b).value
      /\ C2(y).rest = Cat(C2(b).rest, x)
  <2>1. Extended(C2(y), C2(b), x)
    BY Zenon, <1>2, <1>3, TypeExtends
  <2>. HIDE DEF C2
  <2>2. QED
    BY Zenon, <2>1, ExtendedFields
<1>. HIDE DEF C2
<1>5. /\ C3(b).rest \in Bytes /\ C3(y).ok /\ C3(y).value = C3(b).value
      /\ C3(y).rest = Cat(C3(b).rest, x)
  <2>1. Extended(C3(y), C3(b), x)
    BY Zenon, <1>2, <1>4, BoolExtends
  <2>. HIDE DEF C3
  <2>2. QED
    BY Zenon, <2>1, ExtendedFields
<1>. HIDE DEF C3
<1>6. /\ C4(b).rest \in Bytes /\ C4(y).ok /\ C4(y).value = C4(b).value
      /\ C4(y).rest = Cat(C4(b).rest, x)
  <2>1. Extended(C4(y), C4(b), x)
    BY Zenon, <1>2, <1>5, DefaultExtends
  <2>. HIDE DEF C4
  <2>2. QED
    BY Zenon, <2>1, ExtendedFields
<1>. HIDE DEF C4
<1>7. /\ C5(b).rest \in Bytes /\ C5(y).ok /\ C5(y).value = C5(b).value
      /\ C5(y).rest = Cat(C5(b).rest, x)
  <2>1. Extended(C5(y), C5(b), x)
    BY Zenon, <1>2, <1>6, BoolExtends
  <2>. HIDE DEF C5
  <2>2. QED
    BY Zenon, <2>1, ExtendedFields
<1>. HIDE DEF C5
<1>8. /\ C6(b).rest \in Bytes /\ C6(y).ok /\ C6(y).value = C6(b).value
      /\ C6(y).rest = Cat(C6(b).rest, x)
  <2>1. Extended(C6(y), C6(b), x)
    BY Zenon, <1>2, <1>7, BoolExtends
  <2>. HIDE DEF C6
  <2>2. QED
    BY Zenon, <2>1, ExtendedFields
<1>. HIDE DEF C6
<1>9. V(y) = V(b)
  BY Zenon, <1>3, <1>4, <1>5, <1>6, <1>7, <1>8
<1>. HIDE DEF V
<1>10. decodeColumn(b) = Read(V(b), C6(b).rest) /\ decodeColumn(y) = Read(V(b), Cat(C6(b).rest, x))
  BY Zenon, <1>1, <1>2, <1>3, <1>4, <1>5, <1>6, <1>7, <1>8, <1>9
<1>11. decodeColumn(b).value = V(b) /\ decodeColumn(b).rest = C6(b).rest
  BY <1>10, IsRead
<1>12. QED
  BY Zenon, <1>8, <1>10, <1>11 DEF Extended

(* A column, as functions. *)
ColumnReader == [r \in Bytes |-> decodeColumn(r)]

ColumnWriter == [column \in ColumnSpecs |-> encodeColumn(column)]

(* They have the two laws. *)
LEMMA ColumnLaws == Extends(ColumnReader) /\ Reverses(ColumnReader, ColumnWriter, ColumnSpecs)
<1>1. \A r \in Bytes : ColumnReader[r] = decodeColumn(r)
  BY Zenon DEF ColumnReader
<1>2. \A v \in ColumnSpecs : ColumnWriter[v] = encodeColumn(v)
  BY Zenon DEF ColumnWriter
<1>3. \A b, x \in Bytes : Cat(b, x) \in Bytes
  BY Zenon, CatLaws
<1>4. Extends(ColumnReader)
  <2>1. SUFFICES ASSUME NEW b \in Bytes, NEW x \in Bytes, ColumnReader[b].ok
                 PROVE  Extended(ColumnReader[Cat(b, x)], ColumnReader[b], x)
    BY Zenon DEF Extends
  <2>2. QED
    BY Zenon, <2>1, <1>1, <1>3, ColumnExtends
<1>5. Reverses(ColumnReader, ColumnWriter, ColumnSpecs)
  <2>1. SUFFICES ASSUME NEW v \in ColumnSpecs
                 PROVE  /\ ColumnWriter[v] \in Bytes
                        /\ \A b \in Bytes : ColumnReader[Cat(ColumnWriter[v], b)] = Read(v, b)
    BY Zenon DEF Reverses
  <2>2. ColumnWriter[v] = encodeColumn(v)
    BY Zenon, <1>2
  <2>3. encodeColumn(v) \in Bytes
    BY Zenon, <1>3, EmptyBytes, ColumnReads
  <2>4. QED
    BY Zenon, <1>1, <1>3, <2>2, <2>3, ColumnReads
<1>6. QED
  BY Zenon, <1>4, <1>5

(* And a list of them has, too. *)
LEMMA ColumnListReads ==
  ASSUME NEW s \in Seq(ColumnSpecs), NEW b \in Bytes
  PROVE  /\ Each(s, ColumnWriter) \in Bytes
         /\ readEach(Cat(Each(s, ColumnWriter), b), ColumnReader) = Read(s, b)
BY Zenon, ColumnLaws, EachReads

(* its columns, *)
LEMMA ColumnListExtends ==
  ASSUME NEW b \in Bytes, NEW x \in Bytes, readEach(b, ColumnReader).ok
  PROVE  Extended(readEach(Cat(b, x), ColumnReader), readEach(b, ColumnReader), x)
BY Zenon, ColumnLaws, EachExtends

(* The next id of a table that is above its rows stays as it was written. *)
IsNext(f, m, rows) ==
  f = [k \in 0..Len(rows) |->
         IF k = 0 THEN m ELSE IF rows[k].id >= f[k - 1] THEN rows[k].id + 1 ELSE f[k - 1]]

(* The next row id of a stored table is above its rows, and is kept. *)
LEMMA NextIdKept ==
  ASSUME NEW t \in StoredTables
  PROVE  nextRowId(t.next_id, t.rows) = t.next_id
<1>. DEFINE m == t.next_id
            rows == t.rows
            n == Len(rows)
            g == [k \in 0..n |-> m]
<1>1. m \in Nat /\ rows \in Seq(StoredRows) /\ \A i \in DOMAIN rows : rows[i].id < m
  BY DEF StoredTables
<1>2. n \in Nat /\ \A k \in 1..n : rows[k].id \in Nat /\ rows[k].id < m
  <2>1. n \in Nat /\ DOMAIN rows = 1..n /\ \A k \in 1..n : rows[k] \in StoredRows
    BY <1>1
  <2>2. \A r \in StoredRows : r.id \in Nat
    BY DEF StoredRows
  <2>3. QED
    BY Zenon, <1>1, <2>1, <2>2
<1>3. nextRowId(m, rows) = (CHOOSE f : IsNext(f, m, rows))[n]
  BY Zenon DEF nextRowId, IsNext
<1>. HIDE DEF m, n, rows
<1>4. \A k \in 1..n : k - 1 \in 0..n /\ ~(rows[k].id >= m)
  BY <1>1, <1>2
<1>5. \E f : IsNext(f, m, rows)
  <2>1. \A k \in 0..n : g[k] = m
    OBVIOUS
  <2>2. \A k \in 0..n : k # 0 => k \in 1..n
    BY <1>2
  <2>3. \A k \in 0..n : m = IF k = 0 THEN m
                            ELSE IF rows[k].id >= g[k - 1] THEN rows[k].id + 1 ELSE g[k - 1]
    BY Zenon, <1>4, <2>1, <2>2
  <2>4. IsNext(g, m, rows)
    BY Zenon, <2>3 DEF IsNext, n
  <2>5. QED
    BY Zenon, <2>4
<1>6. PICK f : IsNext(f, m, rows) /\ nextRowId(m, rows) = f[n]
  BY Zenon, <1>3, <1>5
<1>7. /\ 0 \in 0..n /\ n \in 0..n
      /\ \A k \in 1..n : k \in 0..n /\ k # 0
  BY <1>2
<1>8. \A k \in 0..n : f[k] =
        IF k = 0 THEN m ELSE IF rows[k].id >= f[k - 1] THEN rows[k].id + 1 ELSE f[k - 1]
  BY Zenon, <1>6 DEF IsNext, n
<1>. DEFINE P == {k \in 0..n : f[k] = m}
<1>9. 0 \in P
  BY Zenon, <1>7, <1>8
<1>10. ASSUME NEW k \in 1..n, k - 1 \in P
       PROVE  k \in P
  BY Zenon, <1>10, <1>4, <1>7, <1>8
<1>11. \A k \in 0..n : k \in P
  <2>. HIDE DEF P
  <2>1. QED
    BY Zenon, <1>2, <1>9, <1>10, EveryTurn
<1>12. QED
  BY Zenon, <1>6, <1>7, <1>11 DEF m, rows

(* A table is read back as it was written. *)
LEMMA TableReads ==
  ASSUME NEW v \in StoredTables, NEW b \in Bytes
  PROVE  encodeTable(v) \in Bytes /\ decodeTable(Cat(encodeTable(v), b)) = Read(v, b)
<1>. DEFINE P1 == appendBytes(v.name)
            P2 == Each(v.columns, ColumnWriter)
            P3 == Each(v.indexes, IndexWriter)
            P4 == <<v.next_id>>
            P5 == Each(v.rows, RowWriter)
            T5 == b
            T4 == Cat(P5, T5)
            T3 == Cat(P4, T4)
            T2 == Cat(P3, T3)
            T1 == Cat(P2, T2)
            r == Cat(encodeTable(v), b)
            C1 == readLengthPrefixedBytes(r)
            C2 == readEach(C1.rest, ColumnReader)
            C3 == readEach(C2.rest, IndexReader)
            C4 == readU(C3.rest)
            C5 == readEach(C4.rest, RowReader)
<1>1. /\ v.name \in Bytes
      /\ v.columns \in Seq(ColumnSpecs)
      /\ v.indexes \in Seq(IndexSpecs)
      /\ v.next_id \in Nat
      /\ v.rows \in Seq(StoredRows)
  BY DEF StoredTables
<1>2. P1 \in Bytes /\ P2 \in Bytes /\ P3 \in Bytes /\ P4 \in Bytes /\ P5 \in Bytes
  <2>1. P1 \in Bytes
    BY Zenon, <1>1, BytesRead
  <2>2. P2 \in Bytes
    BY Zenon, <1>1, ColumnListReads
  <2>3. P3 \in Bytes
    BY Zenon, <1>1, IndexListReads
  <2>4. P4 \in Bytes
    BY Zenon, <1>1, UReads
  <2>5. P5 \in Bytes
    BY Zenon, <1>1, RowListReads
  <2>6. QED
    BY Zenon, <2>1, <2>2, <2>3, <2>4, <2>5
<1>3. encodeTable(v) = Cat(Cat(Cat(Cat(P1, P2), P3), P4), P5)
  BY Zenon DEF encodeTable, Cat, ColumnReader, IndexReader, RowReader, ColumnWriter, IndexWriter, RowWriter
<1>. HIDE DEF P1, P2, P3, P4, P5
<1>4. encodeTable(v) \in Bytes /\ r = Cat(P1, T1) /\ T1 \in Bytes /\ T2 \in Bytes /\ T3 \in Bytes
      /\ T4 \in Bytes /\ T5 \in Bytes
  <2>. DEFINE L2 == Cat(P1, P2)
              L3 == Cat(L2, P3)
              L4 == Cat(L3, P4)
              L5 == Cat(L4, P5)
  <2>1. T4 \in Bytes
    BY Zenon, <1>2, CatLaws
  <2>2. T3 \in Bytes
    BY Zenon, <1>2, <2>1, CatLaws
  <2>3. T2 \in Bytes
    BY Zenon, <1>2, <2>2, CatLaws
  <2>4. T1 \in Bytes
    BY Zenon, <1>2, <2>3, CatLaws
  <2>5. L2 \in Bytes
    BY Zenon, <1>2, CatLaws
  <2>6. L3 \in Bytes
    BY Zenon, <1>2, <2>5, CatLaws
  <2>7. L4 \in Bytes
    BY Zenon, <1>2, <2>6, CatLaws
  <2>8. L5 \in Bytes
    BY Zenon, <1>2, <2>7, CatLaws
  <2>. HIDE DEF L2, L3, L4, L5, T1, T2, T3, T4
  <2>9. Cat(L5, b) = Cat(L4, T4)
    BY <1>2, <2>7, CatLaws DEF L5, T4
  <2>10. Cat(L4, T4) = Cat(L3, T3)
    BY <1>2, <2>1, <2>6, CatLaws DEF L4, T3
  <2>11. Cat(L3, T3) = Cat(L2, T2)
    BY <1>2, <2>2, <2>5, CatLaws DEF L3, T2
  <2>12. Cat(L2, T2) = Cat(P1, T1)
    BY <1>2, <2>3, CatLaws DEF L2, T1
  <2>13. encodeTable(v) = L5
    BY Zenon, <1>3 DEF L2, L3, L4, L5
  <2>14. QED
    BY Zenon, <2>1, <2>2, <2>3, <2>4, <2>5, <2>6, <2>7, <2>8, <2>9, <2>10, <2>11, <2>12, <2>13
<1>5. decodeTable(r) =
        IF C1.ok THEN
        IF C2.ok THEN
        IF C3.ok THEN
        IF C4.ok THEN
        IF C5.ok THEN
        (IF ~Distinct(C5.value) THEN Stop ELSE Read([name |-> C1.value, columns |-> C2.value, indexes |-> C3.value,
               next_id |-> nextRowId(C4.value, C5.value), rows |-> C5.value], C5.rest))
        ELSE Stop ELSE Stop ELSE Stop ELSE Stop ELSE Stop
  BY Zenon DEF decodeTable, try, ColumnReader, IndexReader, RowReader, ColumnWriter, IndexWriter, RowWriter
<1>. HIDE DEF T1, T2, T3, T4
<1>6. C1.ok /\ C1.value = v.name /\ C1.rest = T1
  <2>1. C1 = readLengthPrefixedBytes(Cat(P1, T1))
    BY Zenon, <1>4
  <2>2. readLengthPrefixedBytes(Cat(P1, T1)) = Read(v.name, T1)
    BY Zenon, <1>1, <1>4, BytesRead DEF P1
  <2>. HIDE DEF C1
  <2>3. QED
    BY <2>1, <2>2, IsRead
<1>. HIDE DEF C1
<1>7. C2.ok /\ C2.value = v.columns /\ C2.rest = T2
  <2>1. C2 = readEach(Cat(P2, T2), ColumnReader)
    BY Zenon, <1>6 DEF T1
  <2>2. readEach(Cat(P2, T2), ColumnReader) = Read(v.columns, T2)
    BY Zenon, <1>1, <1>4, ColumnListReads DEF P2
  <2>. HIDE DEF C2
  <2>3. QED
    BY <2>1, <2>2, IsRead
<1>. HIDE DEF C2
<1>8. C3.ok /\ C3.value = v.indexes /\ C3.rest = T3
  <2>1. C3 = readEach(Cat(P3, T3), IndexReader)
    BY Zenon, <1>7 DEF T2
  <2>2. readEach(Cat(P3, T3), IndexReader) = Read(v.indexes, T3)
    BY Zenon, <1>1, <1>4, IndexListReads DEF P3
  <2>. HIDE DEF C3
  <2>3. QED
    BY <2>1, <2>2, IsRead
<1>. HIDE DEF C3
<1>9. C4.ok /\ C4.value = v.next_id /\ C4.rest = T4
  <2>1. C4 = readU(Cat(P4, T4))
    BY Zenon, <1>8 DEF T3
  <2>2. readU(Cat(P4, T4)) = Read(v.next_id, T4)
    BY Zenon, <1>1, <1>4, UReads DEF P4
  <2>. HIDE DEF C4
  <2>3. QED
    BY <2>1, <2>2, IsRead
<1>. HIDE DEF C4
<1>10. C5.ok /\ C5.value = v.rows /\ C5.rest = b
  <2>1. C5 = readEach(Cat(P5, b), RowReader)
    BY Zenon, <1>9 DEF T4
  <2>2. readEach(Cat(P5, b), RowReader) = Read(v.rows, b)
    BY Zenon, <1>1, RowListReads DEF P5
  <2>. HIDE DEF C5
  <2>3. QED
    BY <2>1, <2>2, IsRead
<1>. HIDE DEF C5
<1>11. v = [name |-> v.name, columns |-> v.columns, indexes |-> v.indexes,
               next_id |-> nextRowId(v.next_id, v.rows), rows |-> v.rows]
  BY NextIdKept DEF StoredTables
<1>12. Distinct(v.rows)
  BY Zenon DEF StoredTables
<1>13. QED
  BY ZenonT(30), <1>4, <1>5, <1>6, <1>7, <1>8, <1>9, <1>10, <1>11, <1>12

(* More bytes behind it change nothing else. *)
LEMMA TableExtends ==
  ASSUME NEW b \in Bytes, NEW x \in Bytes, decodeTable(b).ok
  PROVE  Extended(decodeTable(Cat(b, x)), decodeTable(b), x)
<1>. DEFINE C1(r) == readLengthPrefixedBytes(r)
            C2(r) == readEach(C1(r).rest, ColumnReader)
            C3(r) == readEach(C2(r).rest, IndexReader)
            C4(r) == readU(C3(r).rest)
            C5(r) == readEach(C4(r).rest, RowReader)
            V(r) == [name |-> C1(r).value, columns |-> C2(r).value, indexes |-> C3(r).value,
               next_id |-> nextRowId(C4(r).value, C5(r).value), rows |-> C5(r).value]
            y == Cat(b, x)
<1>1. \A r : decodeTable(r) =
               IF C1(r).ok THEN
               IF C2(r).ok THEN
               IF C3(r).ok THEN
               IF C4(r).ok THEN
               IF C5(r).ok THEN
               (IF ~Distinct(C5(r).value) THEN Stop ELSE Read(V(r), C5(r).rest))
               ELSE Stop ELSE Stop ELSE Stop ELSE Stop ELSE Stop
  BY Zenon DEF decodeTable, try, ColumnReader, IndexReader, RowReader
<1>2. C1(b).ok /\ C2(b).ok /\ C3(b).ok /\ C4(b).ok /\ C5(b).ok /\ Distinct(C5(b).value)
  BY Zenon, <1>1, CursorFields
<1>3. /\ C1(b).rest \in Bytes /\ C1(y).ok /\ C1(y).value = C1(b).value
      /\ C1(y).rest = Cat(C1(b).rest, x)
  <2>1. Extended(C1(y), C1(b), x)
    BY Zenon, <1>2, BytesExtend
  <2>. HIDE DEF C1
  <2>2. QED
    BY Zenon, <2>1, ExtendedFields
<1>. HIDE DEF C1
<1>4. /\ C2(b).rest \in Bytes /\ C2(y).ok /\ C2(y).value = C2(b).value
      /\ C2(y).rest = Cat(C2(b).rest, x)
  <2>1. Extended(C2(y), C2(b), x)
    BY Zenon, <1>2, <1>3, ColumnListExtends
  <2>. HIDE DEF C2
  <2>2. QED
    BY Zenon, <2>1, ExtendedFields
<1>. HIDE DEF C2
<1>5. /\ C3(b).rest \in Bytes /\ C3(y).ok /\ C3(y).value = C3(b).value
      /\ C3(y).rest = Cat(C3(b).rest, x)
  <2>1. Extended(C3(y), C3(b), x)
    BY Zenon, <1>2, <1>4, IndexListExtends
  <2>. HIDE DEF C3
  <2>2. QED
    BY Zenon, <2>1, ExtendedFields
<1>. HIDE DEF C3
<1>6. /\ C4(b).rest \in Bytes /\ C4(y).ok /\ C4(y).value = C4(b).value
      /\ C4(y).rest = Cat(C4(b).rest, x)
  <2>1. Extended(C4(y), C4(b), x)
    BY Zenon, <1>2, <1>5, UExtends
  <2>. HIDE DEF C4
  <2>2. QED
    BY Zenon, <2>1, ExtendedFields
<1>. HIDE DEF C4
<1>7. /\ C5(b).rest \in Bytes /\ C5(y).ok /\ C5(y).value = C5(b).value
      /\ C5(y).rest = Cat(C5(b).rest, x)
  <2>1. Extended(C5(y), C5(b), x)
    BY Zenon, <1>2, <1>6, RowListExtends
  <2>. HIDE DEF C5
  <2>2. QED
    BY Zenon, <2>1, ExtendedFields
<1>. HIDE DEF C5
<1>8. V(y) = V(b)
  BY Zenon, <1>3, <1>4, <1>5, <1>6, <1>7
<1>. HIDE DEF V
<1>9. decodeTable(b) = Read(V(b), C5(b).rest) /\ decodeTable(y) = Read(V(b), Cat(C5(b).rest, x))
  BY Zenon, <1>1, <1>2, <1>3, <1>4, <1>5, <1>6, <1>7, <1>8
<1>10. decodeTable(b).value = V(b) /\ decodeTable(b).rest = C5(b).rest
  BY <1>9, IsRead
<1>11. QED
  BY Zenon, <1>7, <1>9, <1>10 DEF Extended

(* A table, as functions. *)
TableReader == [r \in Bytes |-> decodeTable(r)]

TableWriter == [table \in StoredTables |-> encodeTable(table)]

(* They have the two laws. *)
LEMMA TableLaws == Extends(TableReader) /\ Reverses(TableReader, TableWriter, StoredTables)
<1>1. \A r \in Bytes : TableReader[r] = decodeTable(r)
  BY Zenon DEF TableReader
<1>2. \A v \in StoredTables : TableWriter[v] = encodeTable(v)
  BY Zenon DEF TableWriter
<1>3. \A b, x \in Bytes : Cat(b, x) \in Bytes
  BY Zenon, CatLaws
<1>4. Extends(TableReader)
  <2>1. SUFFICES ASSUME NEW b \in Bytes, NEW x \in Bytes, TableReader[b].ok
                 PROVE  Extended(TableReader[Cat(b, x)], TableReader[b], x)
    BY Zenon DEF Extends
  <2>2. QED
    BY Zenon, <2>1, <1>1, <1>3, TableExtends
<1>5. Reverses(TableReader, TableWriter, StoredTables)
  <2>1. SUFFICES ASSUME NEW v \in StoredTables
                 PROVE  /\ TableWriter[v] \in Bytes
                        /\ \A b \in Bytes : TableReader[Cat(TableWriter[v], b)] = Read(v, b)
    BY Zenon DEF Reverses
  <2>2. TableWriter[v] = encodeTable(v)
    BY Zenon, <1>2
  <2>3. encodeTable(v) \in Bytes
    BY Zenon, <1>3, EmptyBytes, TableReads
  <2>4. QED
    BY Zenon, <1>1, <1>3, <2>2, <2>3, TableReads
<1>6. QED
  BY Zenon, <1>4, <1>5

(* And a list of them has, too. *)
LEMMA TableListReads ==
  ASSUME NEW s \in Seq(StoredTables), NEW b \in Bytes
  PROVE  /\ Each(s, TableWriter) \in Bytes
         /\ readEach(Cat(Each(s, TableWriter), b), TableReader) = Read(s, b)
BY Zenon, TableLaws, EachReads

(* and its tables. *)
LEMMA TableListExtends ==
  ASSUME NEW b \in Bytes, NEW x \in Bytes, readEach(b, TableReader).ok
  PROVE  Extended(readEach(Cat(b, x), TableReader), readEach(b, TableReader), x)
BY Zenon, TableLaws, EachExtends

(* A payload is read back as it was written. *)
LEMMA PayloadReads ==
  ASSUME NEW v \in Snapshots, NEW b \in Bytes
  PROVE  encodePayload(v) \in Bytes /\ decodePayload(Cat(encodePayload(v), b)) = Read(v, b)
<1>. DEFINE P1 == Each(v.tables, TableWriter)
            P2 == Each(v.views, ObjectWriter)
            P3 == Each(v.procedures, ObjectWriter)
            T3 == b
            T2 == Cat(P3, T3)
            T1 == Cat(P2, T2)
            r == Cat(encodePayload(v), b)
            C1 == readEach(r, TableReader)
            C2 == readEach(C1.rest, ObjectReader)
            C3 == readEach(C2.rest, ObjectReader)
<1>1. /\ v.tables \in Seq(StoredTables)
      /\ v.views \in Seq(StoredObjects)
      /\ v.procedures \in Seq(StoredObjects)
  BY DEF Snapshots
<1>2. P1 \in Bytes /\ P2 \in Bytes /\ P3 \in Bytes
  <2>1. P1 \in Bytes
    BY Zenon, <1>1, TableListReads
  <2>2. P2 \in Bytes
    BY Zenon, <1>1, ObjectListReads
  <2>3. P3 \in Bytes
    BY Zenon, <1>1, ObjectListReads
  <2>4. QED
    BY Zenon, <2>1, <2>2, <2>3
<1>3. encodePayload(v) = Cat(Cat(P1, P2), P3)
  BY Zenon DEF encodePayload, Cat, TableReader, ObjectReader, TableWriter, ObjectWriter
<1>. HIDE DEF P1, P2, P3
<1>4. encodePayload(v) \in Bytes /\ r = Cat(P1, T1) /\ T1 \in Bytes /\ T2 \in Bytes /\ T3 \in Bytes
  BY <1>2, <1>3, CatLaws
<1>5. decodePayload(r) =
        IF C1.ok THEN
        IF C2.ok THEN
        IF C3.ok THEN
        Read([tables |-> C1.value, views |-> C2.value, procedures |-> C3.value], C3.rest)
        ELSE Stop ELSE Stop ELSE Stop
  BY Zenon DEF decodePayload, try, TableReader, ObjectReader, TableWriter, ObjectWriter
<1>. HIDE DEF T1, T2
<1>6. C1.ok /\ C1.value = v.tables /\ C1.rest = T1
  <2>1. C1 = readEach(Cat(P1, T1), TableReader)
    BY Zenon, <1>4
  <2>2. readEach(Cat(P1, T1), TableReader) = Read(v.tables, T1)
    BY Zenon, <1>1, <1>4, TableListReads DEF P1
  <2>. HIDE DEF C1
  <2>3. QED
    BY <2>1, <2>2, IsRead
<1>. HIDE DEF C1
<1>7. C2.ok /\ C2.value = v.views /\ C2.rest = T2
  <2>1. C2 = readEach(Cat(P2, T2), ObjectReader)
    BY Zenon, <1>6 DEF T1
  <2>2. readEach(Cat(P2, T2), ObjectReader) = Read(v.views, T2)
    BY Zenon, <1>1, <1>4, ObjectListReads DEF P2
  <2>. HIDE DEF C2
  <2>3. QED
    BY <2>1, <2>2, IsRead
<1>. HIDE DEF C2
<1>8. C3.ok /\ C3.value = v.procedures /\ C3.rest = b
  <2>1. C3 = readEach(Cat(P3, b), ObjectReader)
    BY Zenon, <1>7 DEF T2
  <2>2. readEach(Cat(P3, b), ObjectReader) = Read(v.procedures, b)
    BY Zenon, <1>1, ObjectListReads DEF P3
  <2>. HIDE DEF C3
  <2>3. QED
    BY <2>1, <2>2, IsRead
<1>. HIDE DEF C3
<1>9. v = [tables |-> v.tables, views |-> v.views, procedures |-> v.procedures]
  BY DEF Snapshots
<1>10. QED
  BY Zenon, <1>4, <1>5, <1>6, <1>7, <1>8, <1>9

(* More bytes behind it change nothing else. *)
LEMMA PayloadExtends ==
  ASSUME NEW b \in Bytes, NEW x \in Bytes, decodePayload(b).ok
  PROVE  Extended(decodePayload(Cat(b, x)), decodePayload(b), x)
<1>. DEFINE C1(r) == readEach(r, TableReader)
            C2(r) == readEach(C1(r).rest, ObjectReader)
            C3(r) == readEach(C2(r).rest, ObjectReader)
            V(r) == [tables |-> C1(r).value, views |-> C2(r).value, procedures |-> C3(r).value]
            y == Cat(b, x)
<1>1. \A r : decodePayload(r) =
               IF C1(r).ok THEN
               IF C2(r).ok THEN
               IF C3(r).ok THEN
               Read(V(r), C3(r).rest)
               ELSE Stop ELSE Stop ELSE Stop
  BY Zenon DEF decodePayload, try, TableReader, ObjectReader
<1>2. C1(b).ok /\ C2(b).ok /\ C3(b).ok
  BY Zenon, <1>1, CursorFields
<1>3. /\ C1(b).rest \in Bytes /\ C1(y).ok /\ C1(y).value = C1(b).value
      /\ C1(y).rest = Cat(C1(b).rest, x)
  <2>1. Extended(C1(y), C1(b), x)
    BY Zenon, <1>2, TableListExtends
  <2>. HIDE DEF C1
  <2>2. QED
    BY Zenon, <2>1, ExtendedFields
<1>. HIDE DEF C1
<1>4. /\ C2(b).rest \in Bytes /\ C2(y).ok /\ C2(y).value = C2(b).value
      /\ C2(y).rest = Cat(C2(b).rest, x)
  <2>1. Extended(C2(y), C2(b), x)
    BY Zenon, <1>2, <1>3, ObjectListExtends
  <2>. HIDE DEF C2
  <2>2. QED
    BY Zenon, <2>1, ExtendedFields
<1>. HIDE DEF C2
<1>5. /\ C3(b).rest \in Bytes /\ C3(y).ok /\ C3(y).value = C3(b).value
      /\ C3(y).rest = Cat(C3(b).rest, x)
  <2>1. Extended(C3(y), C3(b), x)
    BY Zenon, <1>2, <1>4, ObjectListExtends
  <2>. HIDE DEF C3
  <2>2. QED
    BY Zenon, <2>1, ExtendedFields
<1>. HIDE DEF C3
<1>6. V(y) = V(b)
  BY Zenon, <1>3, <1>4, <1>5
<1>. HIDE DEF V
<1>7. decodePayload(b) = Read(V(b), C3(b).rest) /\ decodePayload(y) = Read(V(b), Cat(C3(b).rest, x))
  BY Zenon, <1>1, <1>2, <1>3, <1>4, <1>5, <1>6
<1>8. decodePayload(b).value = V(b) /\ decodePayload(b).rest = C3(b).rest
  BY <1>7, IsRead
<1>9. QED
  BY Zenon, <1>5, <1>7, <1>8 DEF Extended
-----------------------------------------------------------------------------
(***************************************************************************)
(* What encodePayload writes of a database decodeSnapshot reads back,      *)
(* whatever the tables, the rows, the defaults and the names are.          *)
(***************************************************************************)
THEOREM PayloadReadsBack ==
  ASSUME NEW s \in Snapshots
  PROVE  decodeSnapshot(encodePayload(s)) = Read(s, <<>>)
<1>. DEFINE p == encodePayload(s)
            c == decodePayload(p)
<1>1. p \in Bytes /\ decodePayload(Cat(p, <<>>)) = Read(s, <<>>)
  BY Zenon, PayloadReads, EmptyBytes
<1>. HIDE DEF p
<1>2. Cat(p, <<>>) = p
  BY <1>1, ConcatEmptySeq DEF Cat, Bytes
<1>3. c = Read(s, <<>>)
  BY Zenon, <1>1, <1>2
<1>4. decodeSnapshot(p) = IF c.ok THEN IF c.rest = <<>> THEN c ELSE Stop ELSE Stop
  BY Zenon DEF decodeSnapshot, try
<1>. HIDE DEF c
<1>5. c.ok /\ c.rest = <<>>
  BY <1>3, IsRead
<1>6. QED
  BY Zenon, <1>3, <1>4, <1>5 DEF p

(***************************************************************************)
(* Two databases have two payloads: nothing of a database is lost in what  *)
(* encodePayload writes of it.                                             *)
(***************************************************************************)
THEOREM PayloadDetermines ==
  ASSUME NEW s \in Snapshots, NEW t \in Snapshots, encodePayload(s) = encodePayload(t)
  PROVE  s = t
<1>. DEFINE c == decodeSnapshot(encodePayload(s))
<1>1. c = Read(s, <<>>)
  BY Zenon, PayloadReadsBack
<1>2. c = Read(t, <<>>)
  BY Zenon, PayloadReadsBack
<1>. HIDE DEF c
<1>3. c.value = s
  BY <1>1, IsRead
<1>4. c.value = t
  BY <1>2, IsRead
<1>5. QED
  BY Zenon, <1>3, <1>4

(* What decodeSnapshot takes decodePayload has read to the end. *)
LEMMA SnapshotIsWhole ==
  ASSUME NEW b, decodeSnapshot(b).ok
  PROVE  decodePayload(b).ok /\ decodePayload(b).rest = <<>>
<1>. DEFINE c == decodePayload(b)
<1>1. decodeSnapshot(b) = IF c.ok THEN IF c.rest = <<>> THEN c ELSE Stop ELSE Stop
  BY Zenon DEF decodeSnapshot, try
<1>. HIDE DEF c
<1>2. decodeSnapshot(b) # Stop
  BY Zenon, CursorFields
<1>3. c.ok /\ c.rest = <<>>
  BY Zenon, <1>1, <1>2
<1>4. QED
  BY Zenon, <1>3 DEF c

(***************************************************************************)
(* The payload of a database with something behind it is refused, whatever *)
(* it is: decodeSnapshot reads a payload to its end.                       *)
(***************************************************************************)
THEOREM LongPayloadRefused ==
  ASSUME NEW s \in Snapshots, NEW x \in Bytes, x # <<>>
  PROVE  ~decodeSnapshot(Cat(encodePayload(s), x)).ok
<1>1. decodePayload(Cat(encodePayload(s), x)) = Read(s, x)
  BY Zenon, PayloadReads
<1>2. decodePayload(Cat(encodePayload(s), x)).rest = x
  BY <1>1, IsRead
<1>3. ASSUME decodeSnapshot(Cat(encodePayload(s), x)).ok
      PROVE  decodePayload(Cat(encodePayload(s), x)).rest = <<>>
  BY Zenon, <1>3, SnapshotIsWhole
<1>4. QED
  BY Zenon, <1>2, <1>3

(***************************************************************************)
(* A payload that was cut, anywhere, is refused: no beginning of it is the *)
(* payload of a smaller database.                                          *)
(***************************************************************************)
THEOREM CutPayloadRefused ==
  ASSUME NEW s \in Snapshots, NEW q \in Bytes, NEW x \in Bytes, x # <<>>,
         encodePayload(s) = Cat(q, x)
  PROVE  ~decodeSnapshot(q).ok
<1>1. SUFFICES ASSUME decodeSnapshot(q).ok
               PROVE  FALSE
  OBVIOUS
<1>. DEFINE c == decodePayload(q)
            p == Cat(q, x)
<1>2. c.ok /\ c.rest = <<>>
  BY Zenon, <1>1, SnapshotIsWhole
<1>3. Extended(decodePayload(p), c, x)
  BY Zenon, <1>2, PayloadExtends
<1>4. decodePayload(p).rest = x
  <2>. HIDE DEF c, p
  <2>1. decodePayload(p).rest = Cat(c.rest, x)
    BY Zenon, <1>3, ExtendedFields
  <2>2. QED
    BY Zenon, <2>1, <1>2, EmptyCat
<1>5. decodeSnapshot(p) = Read(s, <<>>)
  BY Zenon, PayloadReadsBack
<1>6. decodeSnapshot(p).ok
  BY Zenon, <1>5, IsRead
<1>7. decodePayload(p).rest = <<>>
  BY Zenon, <1>6, SnapshotIsWhole
<1>8. QED
  BY Zenon, <1>4, <1>7

-----------------------------------------------------------------------------
(***************************************************************************)
(* The two laws the run checks of its small databases, of every database.  *)
(***************************************************************************)
THEOREM EverySnapshotRoundTrips ==
  ASSUME input.of = "snapshot" => input.snapshot \in Snapshots
  PROVE  SnapshotRoundTrips
BY Zenon, PayloadReadsBack DEF SnapshotRoundTrips

(* No payload is the beginning of another, for every database. *)
THEOREM EveryPayloadExact ==
  ASSUME input.of = "snapshot" => input.snapshot \in Snapshots
  PROVE  PayloadExact
<1>1. SUFFICES ASSUME input.of = "snapshot"
               PROVE  LET payload == encodePayload(input.snapshot)
                      IN  /\ \A n \in 0..(Len(payload) - 1) : ~decodeSnapshot(SubSeq(payload, 1, n)).ok
                          /\ \A n \in 0..2 : ~decodeSnapshot(Append(payload, n)).ok
  BY Zenon DEF PayloadExact
<1>. DEFINE s == input.snapshot
            p == encodePayload(s)
<1>2. s \in Snapshots
  BY Zenon, <1>1
<1>. HIDE DEF s
<1>3. p \in Bytes
  BY Zenon, <1>2, PayloadReads, EmptyBytes
<1>4. ASSUME NEW n \in 0..(Len(p) - 1)
      PROVE  ~decodeSnapshot(SubSeq(p, 1, n)).ok
  <2>. DEFINE q == SubSeq(p, 1, n)
              x == SubSeq(p, n + 1, Len(p))
  <2>1. p \in Seq(Nat) /\ Len(p) \in Nat /\ n \in Nat /\ n < Len(p)
        /\ \A i \in 1..Len(p) : p[i] \in Nat
    <3>. HIDE DEF p
    <3>1. QED
      BY <1>3 DEF Bytes
  <2>. HIDE DEF p
  <2>2. q \in Seq(Nat)
    BY <2>1, SubSeqProperties
  <2>3. x \in Seq(Nat) /\ Len(x) = Len(p) - n
    BY <2>1, SubSeqProperties
  <2>4. q \o x = SubSeq(p, 1, Len(p))
    <3>1. 1 \in 1..(Len(p) + 1) /\ n \in (1 - 1)..Len(p) /\ Len(p) \in n..Len(p)
      BY <2>1
    <3>2. QED
      BY Zenon, <2>1, <3>1, ConcatAdjacentSubSeq
  <2>5. SubSeq(p, 1, Len(p)) = p
    BY Zenon, <2>1, SubSeqFull
  <2>. HIDE DEF q, x
  <2>6. x # <<>>
    BY <2>1, <2>3
  <2>7. q \in Bytes /\ x \in Bytes /\ p = Cat(q, x)
    BY Zenon, <2>2, <2>3, <2>4, <2>5 DEF Bytes, Cat
  <2>8. QED
    BY Zenon, <1>2, <2>6, <2>7, CutPayloadRefused DEF p, q
<1>5. ASSUME NEW n \in 0..2
      PROVE  ~decodeSnapshot(Append(p, n)).ok
  <2>. HIDE DEF p
  <2>1. <<n>> \in Bytes /\ <<n>> # <<>>
    BY OneByte
  <2>2. Append(p, n) = Cat(p, <<n>>)
    BY <1>3, AppendIsConcat DEF Cat, Bytes
  <2>3. QED
    BY Zenon, <1>2, <2>1, <2>2, LongPayloadRefused DEF p
<1>6. QED
  BY Zenon, <1>4, <1>5 DEF s
=============================================================================
