--------------------------- MODULE SignatureScript ---------------------------
(***************************************************************************)
(* The signature helpers of bitcoin/utils.rs: DER, the sighash type and    *)
(* the pushes of a script_sig.  Bytes are real, components are             *)
(* ComponentSize bytes instead of 32.                                      *)
(***************************************************************************)
EXTENDS Integers, Sequences, FiniteSets

CONSTANTS
  ComponentSize,  \* bytes of r and of s, 32 in the code
  Answers,        \* what the signer may answer: big_r and s, and whether they are hexadecimal
  Keys            \* serialized public keys

Byte == 0 .. 255

ASSUME ScriptSigAssumption ==
  /\ ComponentSize \in Nat /\ 1 <= ComponentSize /\ ComponentSize <= 32
  /\ \A a \in Answers : a.big_r \in Seq(Byte) /\ a.s \in Seq(Byte)
  \* The code asserts the sum of the lengths: the signer divides it equally.
  /\ \A a \in Answers : Len(a.big_r) + Len(a.s) = 2 * ComponentSize + 1 => Len(a.s) = ComponentSize
  /\ \A key \in Keys : key \in Seq(Byte) /\ 1 <= Len(key) /\ Len(key) <= 65

SIGHASH_ALL == 1

Faulty_EncodeAsn1Integer(bytes) == <<2, Len(bytes) % 256>> \o bytes

EncodeAsn1Integer(bytes) ==
  LET integer == IF bytes[1] >= 128 THEN <<0>> \o bytes ELSE bytes
  IN <<2, Len(integer) % 256>> \o integer

\* Of 2 * ComponentSize bytes; anything else fails an assertion.
EncodeSignatureAsDer(signature) ==
  LET r == EncodeAsn1Integer(SubSeq(signature, 1, ComponentSize))
      s == EncodeAsn1Integer(SubSeq(signature, ComponentSize + 1, 2 * ComponentSize))
  IN <<48, (Len(r) + Len(s)) % 256>> \o r \o s

SerializeEcdsaSignature(signature, sighash_type) ==
  EncodeSignatureAsDer(signature) \o <<sighash_type>>

\* The compression byte of the point is dropped.
SignatureBytes(a) == SubSeq(a.big_r, 2, Len(a.big_r)) \o a.s

BuildScriptSig(der_signature, public_key) ==
  <<Len(der_signature) % 256>> \o der_signature \o <<Len(public_key) % 256>> \o public_key
==============================================================================
