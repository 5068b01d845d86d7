------------------------------ MODULE CodecLaws -----------------------------
(***************************************************************************)
(* What the payload of the database file promises.                         *)
(***************************************************************************)
EXTENDS Codec, Inputs

(***************************************************************************)
(* What encodePayload writes of a database decodeSnapshot reads back: the  *)
(* tables with their columns, defaults, indexes, rows, row ids and next    *)
(* id, the views and the procedures, in the same order.                    *)
(***************************************************************************)
SnapshotRoundTrips ==
  input.of = "snapshot" =>
    decodeSnapshot(encodePayload(input.snapshot)) = Read(input.snapshot, <<>>)

(***************************************************************************)
(* No payload is the beginning of another: a payload that is cut anywhere, *)
(* or that something follows, is refused by decodeSnapshot, and never read *)
(* as a smaller database.                                                  *)
(***************************************************************************)
PayloadExact ==
  input.of = "snapshot" =>
    LET payload == encodePayload(input.snapshot)
    IN  /\ \A n \in 0..(Len(payload) - 1) : ~decodeSnapshot(SubSeq(payload, 1, n)).ok
        /\ \A n \in 0..2 : ~decodeSnapshot(Append(payload, n)).ok
=============================================================================
