------------------------------ MODULE NearKeys ------------------------------
(***************************************************************************)
(* NEAR public keys, signatures and block hashes in their text, JSON and   *)
(* Borsh forms (near/types, near/utils).                                   *)
(*                                                                         *)
(* A text is the part before its colon ("none" if there is no colon) and   *)
(* the bytes its other part is base58 of, << >> if it is not base58.       *)
(* Lengths are constants.                                                  *)
(***************************************************************************)
EXTENDS Naturals, Sequences

CONSTANTS
  ED25519_PUBLIC_KEY_LENGTH,   \* 32
  SECP256K1_PUBLIC_KEY_LENGTH, \* 64
  COMPONENT_SIZE,              \* 32
  SECP256K1_SIGNATURE_LENGTH,  \* 65
  HASH_LENGTH                  \* 32

ED25519_SIGNATURE_LENGTH == COMPONENT_SIZE * 2

ASSUME LengthAssumption ==
  /\ COMPONENT_SIZE \in Nat /\ HASH_LENGTH \in Nat
  /\ ED25519_PUBLIC_KEY_LENGTH \in Nat /\ SECP256K1_PUBLIC_KEY_LENGTH \in Nat
  /\ SECP256K1_SIGNATURE_LENGTH \in Nat
  /\ ED25519_PUBLIC_KEY_LENGTH # SECP256K1_PUBLIC_KEY_LENGTH
  /\ ED25519_SIGNATURE_LENGTH # SECP256K1_SIGNATURE_LENGTH

\* What a reader returns: at most one value, or a panic.
Ok(value) == [value |-> <<value>>, panicked |-> FALSE]
Error     == [value |-> << >>, panicked |-> FALSE]
Panic     == [value |-> << >>, panicked |-> TRUE]

Ed25519(content)   == [variant |-> "ED25519", value |-> content]
Secp256k1(content) == [variant |-> "SECP256K1", value |-> content]

IsBase58(text) == text.data # << >>
Bytes(text) == text.data[1]

\* try_into an array
Array(bytes, length) == IF Len(bytes) = length THEN Ok(bytes) ELSE Error

\* decode_base58_to_fixed_bytes: the whole text, colon included, is decoded.
DecodeBase58ToFixedBytes(text, length) ==
  IF text.prefix = "none" /\ IsBase58(text) THEN Array(Bytes(text), length) ELSE Error

-----------------------------------------------------------------------------
(* Public keys.                                                            *)

ToPublicKeyAsBytes(text) ==
  IF ~IsBase58(text) THEN Error
  ELSE IF text.prefix = "ed25519" THEN Array(Bytes(text), ED25519_PUBLIC_KEY_LENGTH)
  ELSE IF text.prefix = "secp256k1" THEN Array(Bytes(text), SECP256K1_PUBLIC_KEY_LENGTH)
  ELSE Error

ToPublicKey(text) ==
  LET bytes == ToPublicKeyAsBytes(text) IN
  IF bytes.value = << >> THEN Error
  ELSE IF text.prefix = "ed25519" THEN Ok(Ed25519(bytes.value[1]))
  ELSE Ok(Secp256k1(bytes.value[1]))

TryEd25519KeyIntoBytes(text) ==
  IF text.prefix = "ed25519" /\ IsBase58(text)
  THEN Array(Bytes(text), ED25519_PUBLIC_KEY_LENGTH) ELSE Error

Faulty_TrySecp256k1KeyIntoBytes(text) ==
  IF IsBase58(text) THEN Array(Bytes(text), SECP256K1_PUBLIC_KEY_LENGTH) ELSE Error

TrySecp256k1KeyIntoBytes(text) ==
  IF text.prefix = "secp256k1" /\ IsBase58(text)
  THEN Array(Bytes(text), SECP256K1_PUBLIC_KEY_LENGTH) ELSE Error

\* TryFrom<&[u8]>: the length decides.
PublicKeyTryFrom(bytes) ==
  IF Len(bytes) = ED25519_PUBLIC_KEY_LENGTH THEN Ok(Ed25519(bytes))
  ELSE IF Len(bytes) = SECP256K1_PUBLIC_KEY_LENGTH THEN Ok(Secp256k1(bytes))
  ELSE Error

\* Deserialize: visit_str, or visit_map of a map from names to bytes, which
\* must have one entry.
PublicKeyFromJson(doc) ==
  IF doc.form = "text" THEN ToPublicKey(doc.text)
  ELSE IF /\ doc.form = "map"
          /\ Len(doc.entries) = 1
          /\ doc.entries[1].name \in {"ED25519", "SECP256K1"}
       THEN PublicKeyTryFrom(doc.entries[1].bytes)
       ELSE Error

PublicKeyToJson(key) ==
  [form |-> "map", entries |-> <<[name |-> key.variant, bytes |-> key.value]>>]

PublicKeyToBorsh(key) ==
  (IF key.variant = "ED25519" THEN <<0>> ELSE <<1>>) \o key.value

Faulty_PublicKeyFromBorsh(bytes) ==
  IF bytes = << >> THEN Error ELSE PublicKeyTryFrom(Tail(bytes))

\* BorshDeserialize, with try_from_slice: nothing may be left.
PublicKeyFromBorsh(bytes) ==
  IF bytes = << >> THEN Error
  ELSE IF bytes[1] = 0 /\ Len(bytes) = 1 + ED25519_PUBLIC_KEY_LENGTH THEN Ok(Ed25519(Tail(bytes)))
  ELSE IF bytes[1] = 1 /\ Len(bytes) = 1 + SECP256K1_PUBLIC_KEY_LENGTH THEN Ok(Secp256k1(Tail(bytes)))
  ELSE Error

-----------------------------------------------------------------------------
(* Signatures.                                                             *)

R(bytes) == SubSeq(bytes, 1, COMPONENT_SIZE)
S(bytes) == SubSeq(bytes, COMPONENT_SIZE + 1, Len(bytes))

\* ED25519Signature: r and s.
Halves(bytes) == <<R(bytes), S(bytes)>>

ToSignatureAsBytes(text) ==
  IF ~IsBase58(text) THEN Error
  ELSE IF text.prefix = "ed25519" THEN Array(Bytes(text), ED25519_SIGNATURE_LENGTH)
  ELSE IF text.prefix = "secp256k1" THEN Array(Bytes(text), SECP256K1_SIGNATURE_LENGTH)
  ELSE Error

ToSignature(text) ==
  LET bytes == ToSignatureAsBytes(text) IN
  IF bytes.value = << >> THEN Error
  ELSE IF text.prefix = "ed25519"
       THEN Ok(Ed25519(Halves(bytes.value[1])))
       ELSE Ok(Secp256k1(bytes.value[1]))

\* The type is not looked at again: the lengths tell the types apart.
TryEd25519SignatureIntoBytes(text) ==
  LET bytes == ToSignatureAsBytes(text) IN
  IF bytes.value = << >> THEN Error ELSE Array(bytes.value[1], ED25519_SIGNATURE_LENGTH)

TrySecp256k1SignatureIntoBytes(text) ==
  LET bytes == ToSignatureAsBytes(text) IN
  IF bytes.value = << >> THEN Error ELSE Array(bytes.value[1], SECP256K1_SIGNATURE_LENGTH)

ToEd25519Signature(text) ==
  LET bytes == TryEd25519SignatureIntoBytes(text) IN
  IF bytes.value = << >> THEN Error
  ELSE Ok(Halves(bytes.value[1]))

ToSecp256k1Signature(text) == TrySecp256k1SignatureIntoBytes(text)

\* Deserialize slices before it checks the length of the second half.
SignatureFromJson(doc) ==
  IF doc.form # "text" \/ ~IsBase58(doc.text) THEN Error
  ELSE LET bytes == Bytes(doc.text) IN
    IF doc.text.prefix = "ed25519" THEN
      IF Len(bytes) < COMPONENT_SIZE THEN Panic
      ELSE IF Len(S(bytes)) # COMPONENT_SIZE THEN Error
      ELSE Ok(Ed25519(Halves(bytes)))
    ELSE IF doc.text.prefix = "secp256k1" /\ Len(bytes) = SECP256K1_SIGNATURE_LENGTH
    THEN Ok(Secp256k1(bytes)) ELSE Error

Faulty_SignatureToJson(signature) ==
  [form |-> "text",
   text |-> [prefix |-> IF signature.variant = "ED25519" THEN "ed25519" ELSE "secp256k1",
             data   |-> <<IF signature.variant = "ED25519"
                          THEN signature.value[2] \o signature.value[1] ELSE signature.value>>]]

SignatureToJson(signature) ==
  [form |-> "text",
   text |-> [prefix |-> IF signature.variant = "ED25519" THEN "ed25519" ELSE "secp256k1",
             data   |-> <<IF signature.variant = "ED25519"
                          THEN signature.value[1] \o signature.value[2] ELSE signature.value>>]]

SignatureToBorsh(signature) ==
  IF signature.variant = "ED25519"
  THEN <<0>> \o signature.value[1] \o signature.value[2] ELSE <<1>> \o signature.value

SignatureFromBorsh(bytes) ==
  IF bytes = << >> THEN Error
  ELSE LET content == Tail(bytes) IN
    IF bytes[1] = 0 /\ Len(content) = ED25519_SIGNATURE_LENGTH
    THEN Ok(Ed25519(Halves(content)))
    ELSE IF bytes[1] = 1 /\ Len(content) = SECP256K1_SIGNATURE_LENGTH
    THEN Ok(Secp256k1(content)) ELSE Error

-----------------------------------------------------------------------------
(* Block hashes: base58 or an array in JSON, the plain bytes in Borsh.     *)

ToBlockHash(text) == DecodeBase58ToFixedBytes(text, HASH_LENGTH)

Faulty_BlockHashFromJson(doc) ==
  IF doc.form = "text" THEN ToBlockHash(doc.text)
  ELSE IF doc.form = "array" THEN Ok(doc.bytes) ELSE Error

BlockHashFromJson(doc) ==
  IF doc.form = "text" THEN ToBlockHash(doc.text)
  ELSE IF doc.form = "array" THEN Array(doc.bytes, HASH_LENGTH) ELSE Error

BlockHashToJson(hash) == [form |-> "array", bytes |-> hash]

BlockHashFromBorsh(bytes) == Array(bytes, HASH_LENGTH)
=============================================================================
