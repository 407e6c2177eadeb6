------------------------------ MODULE RlpStream ------------------------------
(***************************************************************************)
(* The stream of the rlp crate, as evm_transaction.rs drives it: values    *)
(* are appended, lists of unknown length are opened with one byte reserved *)
(* for their header and get the header when they are closed.  External.    *)
(***************************************************************************)
EXTENDS Integers, Sequences, SequencesExt

\* The bytes of a number without leading zeros: none for zero.
BigEndian[n \in Nat] ==
  IF n = 0 THEN << >> ELSE Append(BigEndian[n \div 256], n % 256)

\* The header of a string (128) or a list (192) of len bytes.
Header(base, len) ==
  IF len <= 55 THEN <<base + len>>
  ELSE <<base + 55 + Len(BigEndian[len])>> \o BigEndian[len]

EncodeValue(bytes) ==
  IF Len(bytes) = 1 /\ bytes[1] < 128 THEN bytes
  ELSE Header(128, Len(bytes)) \o bytes

\* RlpStream: the buffer, and where the payload of each open list begins.
Stream(buffer, unfinished) == [buffer |-> buffer, unfinished |-> unfinished]

NewStream == Stream(<< >>, << >>)

AppendValue(stream, bytes) ==
  Stream(stream.buffer \o EncodeValue(bytes), stream.unfinished)

BeginUnboundedList(stream) ==
  LET buffer == Append(stream.buffer, 0)
  IN Stream(buffer, Append(stream.unfinished, Len(buffer)))

\* Panics when no list is open.
FinalizeUnboundedList(stream) ==
  LET position == Last(stream.unfinished)
      buffer   == stream.buffer
      payload  == SubSeq(buffer, position + 1, Len(buffer))
  IN Stream(SubSeq(buffer, 1, position - 1) \o Header(192, Len(payload)) \o payload,
            Front(stream.unfinished))

\* out() panics on a stream with an open list.
IsFinished(stream) == stream.unfinished = << >>
=============================================================================
