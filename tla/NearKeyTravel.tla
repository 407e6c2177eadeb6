--------------------------- MODULE NearKeyTravel ---------------------------
(***************************************************************************)
(* A public key, a signature or a block hash on its way through contracts  *)
(* and clients: each holder writes it in one of its forms, the next reads  *)
(* it there.  Somewhere on the way it may be spoilt once.                  *)
(***************************************************************************)
EXTENDS NearKeys

CONSTANTS
  Cells,     \* bytes
  MaxLength, \* bound on the bytes of a spoilt value
  MaxHops    \* bound on the hops

ByteStrings == UNION {[1 .. n -> Cells] : n \in 0 .. MaxLength}

VARIABLES
  kind,    \* "key", "signature" or "hash"
  value,   \* what the last holder has
  message, \* << >>, or what is under way
  spoilt,  \* whether some message was not what its writer wrote
  failed,  \* the last read was an error
  panicked,
  hops,
  origin   \* what the first holder had

travelVars == <<kind, value, message, spoilt, failed, panicked, hops, origin>>

PublicKeys ==
  {Ed25519(b) : b \in [1 .. ED25519_PUBLIC_KEY_LENGTH -> Cells]}
    \cup {Secp256k1(b) : b \in [1 .. SECP256K1_PUBLIC_KEY_LENGTH -> Cells]}

Components == [1 .. COMPONENT_SIZE -> Cells]

Signatures ==
  {Ed25519(halves) : halves \in Components \X Components}
    \cup {Secp256k1(b) : b \in [1 .. SECP256K1_SIGNATURE_LENGTH -> Cells]}

Hashes == [1 .. HASH_LENGTH -> Cells]

TextForm(prefix, data) == [form |-> "text", text |-> [prefix |-> prefix, data |-> data]]
KeyEntry(name, bytes) == [name |-> name, bytes |-> bytes]
MapForm(entries) == [form |-> "map", entries |-> entries]

\* The form a person writes; the library writes it only for signatures.
Text(k, v) ==
  TextForm(IF k = "hash" THEN "none" ELSE IF v.variant = "ED25519" THEN "ed25519" ELSE "secp256k1",
           <<IF k = "hash" THEN v ELSE v.value>>)

Json(k, v) ==
  IF k = "key" THEN PublicKeyToJson(v)
  ELSE IF k = "signature" THEN SignatureToJson(v) ELSE BlockHashToJson(v)

Borsh(k, v) ==
  [form |-> "borsh",
   bytes |-> IF k = "key" THEN PublicKeyToBorsh(v)
             ELSE IF k = "signature" THEN SignatureToBorsh(v) ELSE v]

Spellings(k, v) == {Json(k, v), Borsh(k, v)} \cup (IF k = "signature" THEN {} ELSE {Text(k, v)})

Parsed(k, m) ==
  IF m.form = "borsh"
  THEN IF k = "key" THEN PublicKeyFromBorsh(m.bytes)
       ELSE IF k = "signature" THEN SignatureFromBorsh(m.bytes) ELSE BlockHashFromBorsh(m.bytes)
  ELSE IF k = "key" THEN PublicKeyFromJson(m)
       ELSE IF k = "signature" THEN SignatureFromJson(m) ELSE BlockHashFromJson(m)

-----------------------------------------------------------------------------

TravelInit ==
  /\ \/ kind = "key" /\ value \in PublicKeys
     \/ kind = "signature" /\ value \in Signatures
     \/ kind = "hash" /\ value \in Hashes
  /\ origin = value
  /\ message = << >>
  /\ spoilt = FALSE /\ failed = FALSE /\ panicked = FALSE
  /\ hops = 0

Write ==
  /\ message = << >> /\ ~failed /\ ~panicked /\ hops < MaxHops
  /\ \E m \in Spellings(kind, value) : message' = <<m>>
  /\ hops' = hops + 1
  /\ UNCHANGED <<kind, value, spoilt, failed, panicked, origin>>

\* Another prefix, name or tag, other bytes, a second entry.
Spoilings(m) ==
  IF m.form = "text"
  THEN {TextForm(prefix, m.text.data) : prefix \in {"ed25519", "secp256k1", "other", "none"}}
         \cup {TextForm(m.text.prefix, data) : data \in {<< >>} \cup {<<b>> : b \in ByteStrings}}
  ELSE IF m.form = "map"
  THEN {MapForm(<<KeyEntry(name, m.entries[1].bytes)>>) : name \in {"ED25519", "SECP256K1", "other"}}
         \cup {MapForm(<<KeyEntry(m.entries[1].name, b)>>) : b \in ByteStrings}
         \cup {MapForm(<< >>), MapForm(m.entries \o m.entries)}
  ELSE {[form |-> m.form, bytes |-> b] : b \in ByteStrings}

Spoil ==
  /\ message # << >> /\ ~spoilt
  /\ \E m \in Spoilings(message[1]) : m # message[1] /\ message' = <<m>>
  /\ spoilt' = TRUE
  /\ UNCHANGED <<kind, value, failed, panicked, hops, origin>>

Read ==
  /\ message # << >>
  /\ LET result == Parsed(kind, message[1]) IN
       /\ failed' = (result.value = << >> /\ ~result.panicked)
       /\ panicked' = result.panicked
       /\ value' = IF result.value = << >> THEN value ELSE result.value[1]
  /\ message' = << >>
  /\ UNCHANGED <<kind, spoilt, hops, origin>>

TravelNext == Write \/ Spoil \/ Read

TravelSpec == TravelInit /\ [][TravelNext]_travelVars

-----------------------------------------------------------------------------

\* However often it changed its form, a value that nobody spoilt is accepted
\* everywhere and is the one that was sent off.
TravelsUnchanged == ~spoilt => value = origin /\ ~failed /\ ~panicked

\* Whatever was read on the way, a holder has a value of its type, with the
\* length that belongs to its variant.
AcceptedWellFormed ==
  \/ kind = "key" /\ value \in PublicKeys
  \/ kind = "signature" /\ value \in Signatures
  \/ kind = "hash" /\ value \in Hashes

\* A text or Borsh message that is accepted is what the library itself, or the
\* person it read, would write for the value: there is one spelling of each.
AcceptedIsCanonical ==
  \A i \in DOMAIN message :
    LET result == Parsed(kind, message[i]) IN
      (result.value # << >> /\ message[i].form \in {"text", "borsh"}) =>
        message[i] \in Spellings(kind, result.value[1])

\* What a reader of one type makes of what the general reader returns.
Only(variant, result) ==
  IF result.value # << >> /\ result.value[1].variant = variant
  THEN Ok(result.value[1].value) ELSE Error

\* All functions that read a text agree: the one that names a type accepts what
\* the general one reads as that type, JSON accepts what they accept, and the
\* value is the same.
ReadersAgree ==
  \A i \in DOMAIN message :
    message[i].form = "text" =>
      LET text == message[i].text
          key == ToPublicKey(text)
          signature == ToSignature(text)
      IN /\ kind = "key" =>
              /\ PublicKeyFromJson(message[i]) = key
              /\ ToPublicKeyAsBytes(text) =
                   IF key.value = << >> THEN Error ELSE Ok(key.value[1].value)
              /\ TryEd25519KeyIntoBytes(text) = Only("ED25519", key)
              /\ TrySecp256k1KeyIntoBytes(text) = Only("SECP256K1", key)
         /\ kind = "signature" =>
              /\ SignatureFromJson(message[i]).value = signature.value
              /\ ToEd25519Signature(text) = Only("ED25519", signature)
              /\ ToSecp256k1Signature(text) = Only("SECP256K1", signature)
=============================================================================
