---------------------------- MODULE BitcoinWire ----------------------------
(***************************************************************************)
(* The consensus encoding of a Bitcoin transaction, byte by byte, and the  *)
(* decoders of its parts (bitcoin/encoding, bitcoin/types).                *)
(*                                                                         *)
(* A byte is a number below Radix.  A field of fixed width (a version, an  *)
(* output index, a sequence, an amount, a lock time) is one byte here, and *)
(* a VarInt keeps its three tags and its widths of 1, 2, 4 and 8 digits.   *)
(* An input is [previous_output : [txid, vout], script_sig, sequence,      *)
(* witness] and an output [value, script_pubkey].                          *)
(***************************************************************************)
EXTENDS Naturals, SequencesExt

CONSTANTS
  Radix,      \* 256 in the code
  MaxVecSize, \* MAX_VEC_SIZE
  UsizeWidth  \* bytes of a usize: 4 on wasm32, 8 elsewhere

ASSUME RadixAssumption == /\ Radix \in Nat /\ Radix > 3
                          /\ MaxVecSize \in Nat
                          /\ UsizeWidth \in {4, 8}

Byte == 0 .. Radix - 1

\* What a decoder returns: the value and the bytes it did not take.
Ok(value, rest) == [ok |-> TRUE, value |-> value, rest |-> rest]
Err == [ok |-> FALSE, value |-> 0, rest |-> << >>]

\* The ? operator.
Then(result, Continue(_, _)) ==
  IF result.ok THEN Continue(result.value, result.rest) ELSE Err

-----------------------------------------------------------------------------
(* Integers.                                                               *)

\* The powers of the radix that a u64 has places for.
Powers[n \in 0 .. 8] == IF n = 0 THEN 1 ELSE Radix * Powers[n - 1]
Power(n) == Powers[n]

\* to_le_bytes and from_le_bytes
Digits(n, width) == [k \in 1 .. width |-> (n \div Power(k - 1)) % Radix]
Number(digits) ==
  LET sum[k \in 0 .. Len(digits)] ==
        IF k = 0 THEN 0 ELSE sum[k - 1] + digits[k] * Power(k - 1)
  IN sum[Len(digits)]

\* 0xFD, 0xFE and 0xFF announce 2, 4 and 8 digits.
Tag(width) == CASE width = 2 -> Radix - 3 [] width = 4 -> Radix - 2 [] width = 8 -> Radix - 1
Widths == {2, 4, 8}

\* The least value that needs so many digits behind a tag.
Least(width) == CASE width = 2 -> Radix - 3 [] width = 4 -> Power(2) [] width = 8 -> Power(4)

\* Digits of a VarInt behind its tag; none for a value that is its own tag.
WidthOf(n) ==
  CASE n < Least(2) -> 0 [] n >= Least(2) /\ n < Least(4) -> 2
    [] n >= Least(4) /\ n < Least(8) -> 4 [] OTHER -> 8

\* VarInt::size
VarIntSize(n) == 1 + WidthOf(n)

EncodeVarInt(n) ==
  IF WidthOf(n) = 0 THEN <<n>> ELSE <<Tag(WidthOf(n))>> \o Digits(n, WidthOf(n))

\* read_exact into a buffer of n bytes
ReadExact(r, n) ==
  IF Len(r) < n THEN Err ELSE Ok(SubSeq(r, 1, n), SubSeq(r, n + 1, Len(r)))

ReadByte(r) == Then(ReadExact(r, 1), LAMBDA bytes, rest : Ok(bytes[1], rest))

\* A faulty variant: a VarInt that is longer than it has to be is taken.
Faulty_DecodeVarInt(r) ==
  Then(ReadByte(r), LAMBDA tag, rest :
    IF tag < Least(2) THEN Ok(tag, rest)
    ELSE Then(ReadExact(rest, CHOOSE w \in Widths : Tag(w) = tag),
              LAMBDA digits, left : Ok(Number(digits), left)))

\* NonMinimalVarInt: a value is refused behind a tag it does not need.
DecodeVarInt(r) ==
  Then(ReadByte(r), LAMBDA tag, rest :
    IF tag < Least(2) THEN Ok(tag, rest)
    ELSE LET width == CHOOSE w \in Widths : Tag(w) = tag
         IN Then(ReadExact(rest, width), LAMBDA digits, left :
              IF Number(digits) < Least(width) THEN Err ELSE Ok(Number(digits), left)))

-----------------------------------------------------------------------------
(* The parts of a transaction.                                             *)

EncodeBytes(data) == EncodeVarInt(Len(data)) \o data

\* Vec<u8>::decode, with its cast of the length "as usize"; ChunkedRead models
\* the loop that takes the bytes.
DecodeBytes(r) == Then(DecodeVarInt(r), LAMBDA len, rest :
                    ReadExact(rest, len % Power(UsizeWidth)))

\* ScriptBuf by way of Decodable::decode: at most MaxVecSize bytes.
TakeBytes(r) ==
  LET n == IF Len(r) < MaxVecSize THEN Len(r) ELSE MaxVecSize
  IN Then(DecodeBytes(SubSeq(r, 1, n)), LAMBDA value, rest :
       Ok(value, rest \o SubSeq(r, n + 1, Len(r))))

\* A hash is kept in the order it is displayed in and sent in the other.
TxidWidth == 2
EncodeTxid(txid) == Reverse(txid)

\* A faulty variant: kept in the order it arrives in.
Faulty_DecodeTxid(r) == ReadExact(r, TxidWidth)

DecodeTxid(r) == Then(ReadExact(r, TxidWidth), LAMBDA bytes, rest : Ok(Reverse(bytes), rest))

EncodeTxIn(in) ==
  EncodeTxid(in.previous_output.txid) \o <<in.previous_output.vout>>
    \o EncodeBytes(in.script_sig) \o <<in.sequence>>

DecodeTxIn(r) ==
  Then(DecodeTxid(r), LAMBDA txid, r1 :
  Then(ReadByte(r1), LAMBDA vout, r2 :
  Then(TakeBytes(r2), LAMBDA script_sig, r3 :
  Then(ReadByte(r3), LAMBDA sequence, rest :
    Ok([previous_output |-> [txid |-> txid, vout |-> vout],
        script_sig |-> script_sig, sequence |-> sequence, witness |-> << >>], rest)))))

EncodeTxOut(out) == <<out.value>> \o EncodeBytes(out.script_pubkey)

DecodeTxOut(r) ==
  Then(ReadByte(r), LAMBDA value, r1 :
  Then(DecodeBytes(r1), LAMBDA script_pubkey, rest :
    Ok([value |-> value, script_pubkey |-> script_pubkey], rest)))

\* The items of the vectors in a transaction, by their type.
EncodeItem(type, item) == CASE type = "TxIn"  -> EncodeTxIn(item)
                            [] type = "TxOut" -> EncodeTxOut(item)
                            [] type = "bytes" -> EncodeBytes(item)

DecodeItem(type, r) == CASE type = "TxIn"  -> DecodeTxIn(r)
                         [] type = "TxOut" -> DecodeTxOut(r)
                         [] type = "bytes" -> DecodeBytes(r)

\* A Vec<TxIn>, a Vec<TxOut> or a witness (Witness::encode; Witness.tla
\* models what it is packed into).
EncodeVec(type, items) ==
  EncodeVarInt(Len(items))
    \o FlattenSeq([k \in 1 .. Len(items) |-> EncodeItem(type, items[k])])

\* A turn of the loop: one more item behind those of ret.
PushItem(type, ret) ==
  Then(ret, LAMBDA items, left :
    Then(DecodeItem(type, left), LAMBDA item, rest : Ok(Append(items, item), rest)))

DecodeItems(type, r, len) ==
  LET ret[k \in 0 .. len] == IF k = 0 THEN Ok(<< >>, r) ELSE PushItem(type, ret[k - 1])
  IN ret[len]

\* A faulty variant: the loop ends where the data does.
Faulty_DecodeVec(type, r) ==
  Then(DecodeVarInt(r), LAMBDA len, rest :
    LET ends == {k \in 0 .. len : k <= Len(rest) /\ DecodeItems(type, rest, k).ok}
    IN DecodeItems(type, rest, Max(ends)))

\* One turn of the loop for each announced item.  An item takes a byte or
\* more, so that the loop runs out of data when there are fewer than items.
DecodeVec(type, r) ==
  Then(DecodeVarInt(r), LAMBDA len, rest :
    IF len > Len(rest) THEN Err ELSE DecodeItems(type, rest, len))

DecodeLockTime(r) == ReadByte(r)

DecodeVersion(r) ==
  Then(ReadByte(r), LAMBDA int, rest : IF int \in {1, 2} THEN Ok(int, rest) ELSE Err)

-----------------------------------------------------------------------------
(* The transaction.                                                        *)

SegwitMarker == 0
SegwitFlag == 1

\* A faulty variant: without the clause for no inputs.
Faulty_UsesSegwitSerialization(tx) ==
  \E j \in DOMAIN tx.input : tx.input[j].witness # << >>

UsesSegwitSerialization(tx) ==
  \/ \E j \in DOMAIN tx.input : tx.input[j].witness # << >>
  \/ tx.input = << >>

Encode(tx) ==
  <<tx.version>>
    \o (IF UsesSegwitSerialization(tx) THEN <<SegwitMarker, SegwitFlag>> ELSE << >>)
    \o EncodeVec("TxIn", tx.input) \o EncodeVec("TxOut", tx.output)
    \o (IF UsesSegwitSerialization(tx)
        THEN FlattenSeq([j \in 1 .. Len(tx.input) |-> EncodeVec("bytes", tx.input[j].witness)])
        ELSE << >>)
    \o <<tx.lock_time>>

(* The network's reader (BIP 144; outside this repository, which has no     *)
(* decoder for a whole transaction).  It reads the parts as the code does. *)

PushWitness(ret) ==
  Then(ret, LAMBDA witnesses, left :
    Then(DecodeVec("bytes", left), LAMBDA witness, rest : Ok(Append(witnesses, witness), rest)))

DecodeWitnesses(r, len) ==
  LET ret[k \in 0 .. len] == IF k = 0 THEN Ok(<< >>, r) ELSE PushWitness(ret[k - 1])
  IN ret[len]

\* The witnesses, one for each input; at least one of them not empty.
ReadWitnesses(input, r) ==
  Then(DecodeWitnesses(r, Len(input)), LAMBDA witnesses, rest :
    IF input # << >> /\ \A j \in DOMAIN input : witnesses[j] = << >> THEN Err
    ELSE Ok([j \in DOMAIN input |-> [input[j] EXCEPT !.witness = witnesses[j]]], rest))

\* No bytes may be left over.
ReadEnd(version, input, output, r) ==
  Then(DecodeLockTime(r), LAMBDA lock_time, rest :
    IF rest # << >> THEN Err
    ELSE Ok([version |-> version, lock_time |-> lock_time, input |-> input,
             output |-> output], << >>))

ReadSegwit(version, r) ==
  Then(ReadByte(r), LAMBDA flag, r1 :
    IF flag # SegwitFlag THEN Err
    ELSE Then(DecodeVec("TxIn", r1), LAMBDA input, r2 :
         Then(DecodeVec("TxOut", r2), LAMBDA output, r3 :
         Then(ReadWitnesses(input, r3), LAMBDA full, r4 :
           ReadEnd(version, full, output, r4)))))

ReadTransaction(r) ==
  Then(DecodeVersion(r), LAMBDA version, r1 :
  Then(DecodeVec("TxIn", r1), LAMBDA input, r2 :
    IF input = << >> THEN ReadSegwit(version, r2)
    ELSE Then(DecodeVec("TxOut", r2), LAMBDA output, r3 :
           ReadEnd(version, input, output, r3))))
=============================================================================
