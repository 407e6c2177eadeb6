----------------------------- MODULE BitcoinJson -----------------------------
(***************************************************************************)
(* Bitcoin transactions as JSON: what the library writes and the visitors  *)
(* that read it (bitcoin/types).  A document is [number |-> n], a string,  *)
(* [array |-> docs] or a map; a string is [decimal |-> n, padded |-> b],   *)
(* the hexadecimal [hex |-> bytes] or neither, [word |-> 0].  A map of     *)
(* derived code is a record, the one of OutPoint a sequence of entries.    *)
(* A reader returns << >> for an error, <<value>> otherwise.               *)
(***************************************************************************)
EXTENDS Integers, SequencesExt

CONSTANTS
  MaxU32, MaxU64,      \* the largest integers, scaled down
  LOCK_TIME_THRESHOLD,
  HashLength           \* bytes of a Hash, 32 in the code

ASSUME WidthAssumption ==
  /\ MaxU32 \in Nat /\ MaxU64 \in Nat /\ LOCK_TIME_THRESHOLD \in Nat /\ HashLength \in Nat
  /\ LOCK_TIME_THRESHOLD <= MaxU32 /\ 2 <= MaxU32 /\ MaxU32 < MaxU64 /\ 255 < MaxU64

Is(doc, form) == form \in DOMAIN doc

IsString(doc) == Is(doc, "decimal") \/ Is(doc, "hex") \/ Is(doc, "word")

\* What serde_json hands on as a u64; it makes an i64 or an f64 of the others.
IsU64(doc) == Is(doc, "number") /\ 0 <= doc.number /\ doc.number <= MaxU64

\* str::parse::<u32>, which takes no blanks.
ParseU32(doc) ==
  IF Is(doc, "decimal") /\ ~doc.padded /\ 0 <= doc.decimal /\ doc.decimal <= MaxU32
  THEN <<doc.decimal>> ELSE << >>

\* What was read, if it passes the check that follows.
Only(read, Passes(_)) == IF read # << >> /\ Passes(read[1]) THEN read ELSE << >>

Number(doc, max) == IF IsU64(doc) /\ doc.number <= max THEN <<doc.number>> ELSE << >>

-----------------------------------------------------------------------------
(* Version and LockTime.                                                   *)

Trim(doc) == IF Is(doc, "decimal") THEN [doc EXCEPT !.padded = FALSE] ELSE doc

Faulty_VersionFromJson(doc) ==
  Only(IF IsString(doc) THEN ParseU32(doc) ELSE Number(doc, MaxU64), LAMBDA n : n \in {1, 2})

VersionFromJson(doc) ==
  Only(IF IsString(doc) THEN ParseU32(Trim(doc)) ELSE Number(doc, MaxU64), LAMBDA n : n \in {1, 2})

IsHeight(n) == n < LOCK_TIME_THRESHOLD
IsTime(n)   == n >= LOCK_TIME_THRESHOLD

FromHeight(n) == IF IsHeight(n) THEN <<n>> ELSE << >>
FromTime(n)   == IF IsTime(n) THEN <<n>> ELSE << >>

\* value as u32
AsU32(n) == n % (MaxU32 + 1)

\* visit_str and visit_u64.  A constructor's error is unwrapped: a panic.
LockTimeFromJson(doc) ==
  LET Made(n) == IF n < LOCK_TIME_THRESHOLD THEN FromHeight(AsU32(n)) ELSE FromTime(AsU32(n))
      n       == IF IsString(doc) THEN ParseU32(doc) ELSE Number(doc, MaxU64)
  IN [value    |-> IF n = << >> THEN << >> ELSE Made(n[1]),
      panicked |-> n # << >> /\ Made(n[1]) = << >>]

\* A struct is read if all its fields are, by derived code and by OutPoint's.
Struct(fields) ==
  IF \E f \in DOMAIN fields : fields[f] = << >> THEN << >> ELSE <<[f \in DOMAIN fields |-> fields[f][1]]>>

-----------------------------------------------------------------------------
(* Bytes and outpoints.                                                    *)

ByteArray(doc) ==
  IF \A i \in DOMAIN doc.array : Number(doc.array[i], 255) # << >>
  THEN <<[i \in DOMAIN doc.array |-> doc.array[i].number]>> ELSE << >>

ScriptBufFromJson(doc) ==
  IF Is(doc, "hex") THEN <<doc.hex>> ELSE IF Is(doc, "array") THEN ByteArray(doc) ELSE << >>

WitnessFromJson(doc) ==
  IF Is(doc, "array") /\ \A i \in DOMAIN doc.array : Is(doc.array[i], "hex")
  THEN <<[i \in DOMAIN doc.array |-> doc.array[i].hex]>> ELSE << >>

Faulty_TxidFromJson(doc) ==
  IF Is(doc, "array") /\ Len(doc.array) = HashLength
  THEN <<[i \in DOMAIN doc.array |-> doc.array[i].number % 256]>> ELSE ScriptBufFromJson(doc)

TxidFromJson(doc) == Only(ScriptBufFromJson(doc), LAMBDA bytes : Len(bytes) = HashLength)

VoutFromJson(doc) ==
  IF IsU64(doc) THEN <<AsU32(doc.number)>> ELSE ParseU32(doc)

\* OutPointVisitor: a value that cannot be read or an unexpected key ends it,
\* a key that comes again overwrites.
VisitEntry(got, entry) ==
  LET value == CASE entry.key = "txid" -> TxidFromJson(entry.doc)
                 [] entry.key = "vout" -> VoutFromJson(entry.doc)
                 [] OTHER -> << >>
  IN IF got = << >> \/ value = << >> THEN << >> ELSE <<[got[1] EXCEPT ![entry.key] = value]>>

OutPointFromJson(doc) ==
  LET got[k \in 0 .. Len(doc.entries)] ==
        IF k = 0 THEN <<[txid |-> << >>, vout |-> << >>]>>
        ELSE VisitEntry(got[k - 1], doc.entries[k])
      last == got[Len(doc.entries)]
  IN IF last = << >> THEN << >> ELSE Struct(last[1])

-----------------------------------------------------------------------------
(* The transaction.                                                        *)

List(docs, FromJson(_)) ==
  LET read == [i \in DOMAIN docs |-> FromJson(docs[i])] IN
  IF \E i \in DOMAIN read : read[i] = << >> THEN << >> ELSE <<[i \in DOMAIN read |-> read[i][1]]>>

TxInFromJson(doc) ==
  Struct([previous_output |-> OutPointFromJson(doc.previous_output),
          script_sig      |-> ScriptBufFromJson(doc.script_sig),
          sequence        |-> Number(doc.sequence, MaxU32),
          witness         |-> WitnessFromJson(doc.witness)])

TxOutFromJson(doc) ==
  Struct([value |-> Number(doc.value, MaxU64), script_pubkey |-> ScriptBufFromJson(doc.script_pubkey)])

\* from_json of a document with the fields in the order of the struct.
BitcoinFromJson(doc) ==
  LET lock_time == LockTimeFromJson(doc.lock_time) IN
  [value    |-> Struct([version   |-> VersionFromJson(doc.version),
                        lock_time |-> lock_time.value,
                        input     |-> List(doc.input, TxInFromJson),
                        output    |-> List(doc.output, TxOutFromJson)]),
   panicked |-> VersionFromJson(doc.version) # << >> /\ lock_time.panicked]

\* How a document is written, by the library and by others.
NumberIn(form, n) ==
  CASE form = "number"  -> [number |-> n]
    [] form = "decimal" -> [decimal |-> n, padded |-> FALSE]
    [] form = "padded"  -> [decimal |-> n, padded |-> TRUE]

BytesIn(form, bytes) ==
  IF form = "hex" THEN [hex |-> bytes]
  ELSE [array |-> [i \in DOMAIN bytes |-> [number |-> bytes[i]]]]

\* keys: the entries of an outpoint, in their order.
OutPointIn(style, outpoint) ==
  LET Doc(key) == CASE key = "txid" -> BytesIn(style.txid, outpoint.txid)
                    [] key = "vout" -> NumberIn(style.vout, outpoint.vout)
                    [] OTHER -> [word |-> 0]
  IN [entries |-> [k \in DOMAIN style.keys |-> [key |-> style.keys[k], doc |-> Doc(style.keys[k])]]]

ToJson(style, tx) ==
  [version   |-> NumberIn(style.version, tx.version),
   lock_time |-> NumberIn(style.lock_time, tx.lock_time),
   input     |-> [i \in DOMAIN tx.input |->
                    [previous_output |-> OutPointIn(style, tx.input[i].previous_output),
                     script_sig |-> BytesIn(style.script, tx.input[i].script_sig),
                     sequence   |-> [number |-> tx.input[i].sequence],
                     witness    |-> [array |-> [k \in DOMAIN tx.input[i].witness |->
                                                  [hex |-> tx.input[i].witness[k]]]]]],
   output    |-> [i \in DOMAIN tx.output |->
                    [value         |-> [number |-> tx.output[i].value],
                     script_pubkey |-> BytesIn(style.script, tx.output[i].script_pubkey)]]]

\* Serialize of the library: numbers as numbers, bytes as arrays of numbers.
LibraryStyle ==
  [version |-> "number", lock_time |-> "number", vout |-> "number",
   txid |-> "array", script |-> "array", keys |-> <<"txid", "vout">>]
=============================================================================
