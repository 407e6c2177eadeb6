---------------------------- MODULE EvmFromJson ----------------------------
(***************************************************************************)
(* EVMTransaction::from_json (evm/evm_transaction.rs), field by field: it  *)
(* panics at the first field it cannot read.  A text is a flag for the     *)
(* prefix 0x and its digits, 16 standing for a character that is no digit; *)
(* a field that is missing or is no string is << >>.                       *)
(***************************************************************************)
EXTENDS Integers, Sequences

CONSTANTS
  Documents,        \* field name -> << >> or <<text>>
  MaxU64, MaxU128,  \* the largest integers, scaled down
  AddressLength

VARIABLES
  doc,      \* the JSON value
  parsed,   \* the fields read so far, each with its value
  panicked

jsonVars == <<doc, parsed, panicked>>

JsonFields == <<"to", "nonce", "value", "gasLimit", "maxPriorityFeePerGas",
                "maxFeePerGas", "chainId", "input">>

\* A field has at most one text.
ASSUME DocumentsAssumption ==
  /\ \A document \in Documents, k \in DOMAIN JsonFields :
       /\ document[JsonFields[k]] \in Seq([prefixed : BOOLEAN, digits : Seq(0 .. 16)])
       /\ Len(document[JsonFields[k]]) <= 1
  /\ MaxU64 \in Nat /\ MaxU128 \in Nat /\ AddressLength \in Nat

Order ==
  [k \in DOMAIN JsonFields |->
     [field |-> JsonFields[k], max |-> IF k \in {2, 7} THEN MaxU64 ELSE MaxU128]]

\* One more digit; << >> is an error.
Shift(read, digit, radix, max) ==
  IF read = << >> \/ digit >= radix \/ read[1] * radix + digit > max THEN << >>
  ELSE <<read[1] * radix + digit>>

\* from_str_radix of the standard library, without the sign it would take.
FromStrRadix(digits, radix, max) ==
  LET read[k \in 0 .. Len(digits)] ==
        IF k = 0 THEN <<0>> ELSE Shift(read[k - 1], digits[k], radix, max)
  IN IF digits = << >> THEN << >> ELSE read[Len(digits)]

Faulty_Parse(text, max) == FromStrRadix(text.digits, 16, max)

\* parse_u64 and parse_u128
Parse(text, max) == FromStrRadix(text.digits, IF text.prefixed THEN 16 ELSE 10, max)

HexDecode(digits) ==
  IF Len(digits) % 2 = 1 \/ \E i \in DOMAIN digits : digits[i] = 16 THEN << >>
  ELSE <<[i \in 1 .. Len(digits) \div 2 |-> 16 * digits[2 * i - 1] + digits[2 * i]]>>

IsPrefixed(field) == doc[field] # << >> /\ doc[field][1].prefixed

ZeroAddress == [i \in 1 .. 2 * AddressLength |-> 0]

\* parse_eth_address of the text, or the zero address.
Recipient ==
  LET address == HexDecode(IF IsPrefixed("to") THEN doc.to[1].digits ELSE ZeroAddress)
  IN IF address # << >> /\ Len(address[1]) = AddressLength THEN address ELSE << >>

Input == HexDecode(IF IsPrefixed("input") THEN doc.input[1].digits ELSE << >>)

\* << >> if an expect of the code panics.
Value(step) ==
  CASE step.field = "to"    -> Recipient
    [] step.field = "input" -> Input
    [] OTHER -> IF doc[step.field] = << >> THEN << >> ELSE Parse(doc[step.field][1], step.max)

-----------------------------------------------------------------------------

JsonInit ==
  /\ doc \in Documents
  /\ parsed = << >>
  /\ panicked = FALSE

ReadField ==
  /\ ~panicked /\ Len(parsed) < Len(Order)
  /\ Value(Order[Len(parsed) + 1]) # << >>
  /\ parsed' = Append(parsed, Value(Order[Len(parsed) + 1])[1])
  /\ UNCHANGED <<doc, panicked>>

Panic ==
  /\ ~panicked /\ Len(parsed) < Len(Order)
  /\ Value(Order[Len(parsed) + 1]) = << >>
  /\ panicked' = TRUE
  /\ UNCHANGED <<doc, parsed>>

JsonNext == ReadField \/ Panic

JsonSpec == JsonInit /\ [][JsonNext]_jsonVars

-----------------------------------------------------------------------------

\* The digits are those of n, perhaps after zeros: rest[k] is left of n without
\* its last k digits.
WrittenIn(digits, radix, n) ==
  LET rest[k \in 0 .. Len(digits)] == IF k = 0 THEN n ELSE rest[k - 1] \div radix
  IN /\ rest[Len(digits)] = 0
     /\ \A k \in 1 .. Len(digits) : digits[Len(digits) + 1 - k] = rest[k - 1] % radix

Radix(text) == IF text.prefixed THEN 16 ELSE 10

\* A field says n in its notation, and the type holds n.
Says(step, n) ==
  /\ doc[step.field] # << >> /\ doc[step.field][1].digits # << >>
  /\ n <= step.max /\ WrittenIn(doc[step.field][1].digits, Radix(doc[step.field][1]), n)

\* Two digits for a byte, those of the document or what stands for none.
BytesAsWritten(bytes, field, default) ==
  LET digits == IF IsPrefixed(field) THEN doc[field][1].digits ELSE default
  IN /\ Len(digits) = 2 * Len(bytes)
     /\ \A i \in DOMAIN bytes : WrittenIn(SubSeq(digits, 2 * i - 1, 2 * i), 16, bytes[i])

\* Every number of the transaction is the one its text says in its own
\* notation, whatever the other fields are; no text that is empty, says more
\* than the type holds or has a foreign character gets past, and none stops the
\* program that says a number the type holds. The recipient is the address of
\* the document, all of its bytes, or else the zero address, and so the input.
AsWritten ==
  /\ parsed # << >> => /\ Len(parsed[1]) = AddressLength
                       /\ BytesAsWritten(parsed[1], "to", ZeroAddress)
  /\ \A k \in 2 .. 7 : k <= Len(parsed) => Says(Order[k], parsed[k])
  /\ Len(parsed) = 8 => BytesAsWritten(parsed[8], "input", << >>)
  /\ panicked => \A k \in 2 .. 7 :
       k = Len(parsed) + 1 => \A n \in 0 .. Order[k].max : ~Says(Order[k], n)
=============================================================================
