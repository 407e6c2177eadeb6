----------------------------- MODULE NearBorsh -----------------------------
(***************************************************************************)
(* Borsh over the types of NearTransaction, and the two functions that     *)
(* make bytes of a transaction.  The derived codecs are the borsh crate's. *)
(* A byte is a number below Radix; a length, a tag and a u64 take one      *)
(* byte, a u128 takes two.                                                 *)
(***************************************************************************)
EXTENDS NearTransaction

CONSTANTS
  Radix,   \* bound on a byte, 256 in the code
  MaxDepth \* bound on types inside types: a delegate action in an action takes four

ASSUME RadixAssumption == Radix \in Nat /\ Radix > 11
ASSUME DepthAssumption == MaxDepth \in Nat \ {0}

Byte == 0 .. Radix - 1
ByteString == Seq(Byte)

-----------------------------------------------------------------------------
(* A codec is the values of a type, how they are written, and how they are *)
(* read from the front of a byte string: << >>, or the value and the bytes *)
(* left.  Each needs the codecs of the type's parts.                       *)

Short(items) == {s \in Seq(items) : Len(s) < Radix}
Of(variant, contents) == [variant : {variant}, value : contents]
Component == [1 .. COMPONENT_SIZE -> Byte]

\* Types whose parts have the values inner.
ValuesOver(inner) ==
  [U64 |-> Byte, U128 |-> 0 .. Radix * Radix - 1,
   BlockHash |-> [1 .. HASH_LENGTH -> Byte],
   PublicKey |-> Of("ED25519", [1 .. ED25519_PUBLIC_KEY_LENGTH -> Byte])
                   \cup Of("SECP256K1", [1 .. SECP256K1_PUBLIC_KEY_LENGTH -> Byte]),
   Signature |-> Of("ED25519", Component \X Component)
                   \cup Of("SECP256K1", [1 .. SECP256K1_SIGNATURE_LENGTH -> Byte]),
   Base64VecU8 |-> Short(Byte), VecU8 |-> Short(Byte), String |-> Short(Byte),
   AccountId   |-> Short(Byte) \ {<< >>}, \* validated: here, not empty
   Unit        |-> {NoFields},
   OptionU128  |-> {s \in Seq(inner.U128) : Len(s) <= 1},
   VecString   |-> Short(inner.String),
   VecAction   |-> Short(inner.Action), VecNonDelegateAction |-> Short(inner.Action),
   Action      |->
     Of("CreateAccount", inner.CreateAccountAction) \cup Of("DeployContract", inner.DeployContractAction)
       \cup Of("FunctionCall", inner.FunctionCallAction) \cup Of("Transfer", inner.TransferAction)
       \cup Of("Stake", inner.StakeAction) \cup Of("AddKey", inner.AddKeyAction)
       \cup Of("DeleteKey", inner.DeleteKeyAction) \cup Of("DeleteAccount", inner.DeleteAccountAction)
       \cup Of("Delegate", inner.SignedDelegateAction)
       \cup Of("DeployGlobalContract", inner.DeployGlobalContractAction)
       \cup Of("UseGlobalContract", inner.UseGlobalContractAction),
   CreateAccountAction  |-> {NoFields},
   DeployContractAction |-> [code : inner.Base64VecU8],
   FunctionCallAction   |->
     [method_name : inner.String, args : inner.VecU8, gas : inner.U64, deposit : inner.U128],
   TransferAction |-> [deposit : inner.U128],
   StakeAction    |-> [stake : inner.U128, public_key : inner.PublicKey],
   AddKeyAction   |-> [public_key : inner.PublicKey, access_key : inner.AccessKey],
   AccessKey      |-> [nonce : inner.U64, permission : inner.AccessKeyPermission],
   AccessKeyPermission |->
     Of("FunctionCall", inner.FunctionCallPermission) \cup Of("FullAccess", inner.Unit),
   FunctionCallPermission |->
     [allowance : inner.OptionU128, receiver_id : inner.String, method_names : inner.VecString],
   DeleteKeyAction     |-> [public_key : inner.PublicKey],
   DeleteAccountAction |-> [beneficiary_id : inner.AccountId],
   DelegateAction |->
     [sender_id : inner.AccountId, receiver_id : inner.AccountId, actions : inner.VecNonDelegateAction,
      nonce : inner.U64, max_block_height : inner.U64, public_key : inner.PublicKey],
   SignedDelegateAction |-> [delegate_action : inner.DelegateAction, signature : inner.Signature],
   DeployGlobalContractAction |->
     [code : inner.Base64VecU8, deploy_mode : inner.GlobalContractDeployMode],
   UseGlobalContractAction  |-> [contract_identifier : inner.GlobalContractIdentifier],
   GlobalContractDeployMode |-> Of("CodeHash", inner.Unit) \cup Of("AccountId", inner.Unit),
   GlobalContractIdentifier |-> Of("CodeHash", inner.BlockHash) \cup Of("AccountId", inner.AccountId),
   NearTransaction |->
     [signer_id : inner.AccountId, signer_public_key : inner.PublicKey, nonce : inner.U64,
      receiver_id : inner.AccountId, block_hash : inner.BlockHash, actions : inner.VecAction],
   SignedTransaction |-> [transaction : inner.NearTransaction, signature : inner.Signature]]

\* The values of all types that are at most d deep.  A sequence, which TLC
\* makes once.
Values ==
  LET values[d \in 0 .. MaxDepth + 1] ==
        IF d = 0 THEN [type \in TypeNames |-> {}] ELSE ValuesOver(values[d - 1])
  IN [d \in 1 .. MaxDepth + 1 |-> values[d]] \o << >>

CodecsOf(parts, inner) == [i \in DOMAIN parts |-> inner[parts[i].type]]
Copies(n, codec) == [i \in 1 .. n |-> codec]

\* One value after another, each with its codec.
WriteAll(codecs, values) ==
  LET written[k \in 0 .. Len(codecs)] ==
        IF k = 0 THEN << >> ELSE written[k - 1] \o codecs[k].write[values[k]]
  IN written[Len(codecs)]

WriteItems(codec, items) == <<Len(items)>> \o WriteAll(Copies(Len(items), codec), items)

\* BorshSerialize
BorshSerialize(t, v, inner) ==
  CASE t.kind = "struct" -> WriteAll(CodecsOf(t.parts, inner), FieldsOf(t.parts, v))
    [] t.kind = "enum" ->
         LET i == IndexOf(t.parts, v.variant)
         IN <<i - 1>> \o inner[t.parts[i].type].write[v.value]
    [] t.kind \in {"list", "option"} -> WriteItems(inner[t.parts[1].type], v)
    [] t.kind = "PublicKey" -> PublicKeyToBorsh(v)
    [] t.kind = "Signature" -> SignatureToBorsh(v)
    [] t.kind = "BlockHash" -> v
    [] t.kind = "U64"  -> <<v>>
    [] t.kind = "U128" -> <<v % Radix, v \div Radix>>
    [] t.kind = "Unit" -> << >>
    [] t.kind \in {"Base64VecU8", "VecU8", "String", "AccountId"} -> <<Len(v)>> \o v

Got(value, rest) == <<[value |-> value, rest |-> rest]>>

Fixed(b, n) == IF Len(b) < n THEN << >> ELSE Got(SubSeq(b, 1, n), SubSeq(b, n + 1, Len(b)))

Counted(b) == IF b = << >> THEN << >> ELSE Fixed(Tail(b), b[1])

\* What one of the readers in NearKeys makes of the first n bytes.
First(b, n, FromBorsh(_)) ==
  IF Len(b) < n \/ FromBorsh(SubSeq(b, 1, n)).value = << >> THEN << >>
  ELSE Got(FromBorsh(SubSeq(b, 1, n)).value[1], SubSeq(b, n + 1, Len(b)))

KeyLength(tag)       == IF tag = 0 THEN ED25519_PUBLIC_KEY_LENGTH ELSE SECP256K1_PUBLIC_KEY_LENGTH
SignatureLength(tag) == IF tag = 0 THEN ED25519_SIGNATURE_LENGTH ELSE SECP256K1_SIGNATURE_LENGTH

\* One more value behind the ones so far.
ReadNext(so_far, codec) ==
  IF so_far = << >> THEN << >>
  ELSE LET got == codec.read[so_far[1].rest]
       IN IF got = << >> THEN << >> ELSE Got(Append(so_far[1].value, got[1].value), got[1].rest)

ReadAll(codecs, b) ==
  LET got[k \in 0 .. Len(codecs)] ==
        IF k = 0 THEN Got(<< >>, b) ELSE ReadNext(got[k - 1], codecs[k])
  IN got[Len(codecs)]

ReadItems(codec, max, b) ==
  IF b = << >> \/ b[1] > max THEN << >> ELSE ReadAll(Copies(b[1], codec), Tail(b))

AsStruct(got, parts) ==
  IF got = << >> THEN << >> ELSE Got(RecordOf(parts, got[1].value), got[1].rest)

AsVariant(got, name) ==
  IF got = << >> THEN << >> ELSE Got([variant |-> name, value |-> got[1].value], got[1].rest)

\* BorshDeserialize
BorshDeserialize(t, b, inner) ==
  CASE t.kind = "struct" -> AsStruct(ReadAll(CodecsOf(t.parts, inner), b), t.parts)
    [] t.kind = "enum" ->
         IF b = << >> \/ b[1] >= Len(t.parts) THEN << >>
         ELSE LET part == t.parts[b[1] + 1]
              IN AsVariant(inner[part.type].read[Tail(b)], part.name)
    [] t.kind = "list"   -> ReadItems(inner[t.parts[1].type], Radix - 1, b)
    [] t.kind = "option" -> ReadItems(inner[t.parts[1].type], 1, b)
    [] t.kind = "PublicKey" ->
         IF b = << >> THEN << >> ELSE First(b, 1 + KeyLength(b[1]), PublicKeyFromBorsh)
    [] t.kind = "Signature" ->
         IF b = << >> THEN << >> ELSE First(b, 1 + SignatureLength(b[1]), SignatureFromBorsh)
    [] t.kind = "BlockHash" -> Fixed(b, HASH_LENGTH)
    [] t.kind = "U64"  -> IF b = << >> THEN << >> ELSE Got(b[1], Tail(b))
    [] t.kind = "U128" -> IF Len(b) < 2 THEN << >> ELSE Got(b[1] + Radix * b[2], SubSeq(b, 3, Len(b)))
    [] t.kind = "Unit" -> Got(NoFields, b)
    [] t.kind = "AccountId" -> \* validated: here, not empty
         IF b = << >> \/ b[1] = 0 THEN << >> ELSE Counted(b)
    [] t.kind \in {"Base64VecU8", "VecU8", "String"} -> Counted(b)

Codec(types, type, values, inner) ==
  [write |-> [v \in values |-> BorshSerialize(types[type], v, inner)],
   read  |-> [b \in ByteString |-> BorshDeserialize(types[type], b, inner)]]

NoCodec == [write |-> [v \in {} |-> << >>], read |-> [b \in ByteString |-> << >>]]

\* The codecs of all types, for values that are at most d deep.
Codecs(types) ==
  LET codecs[d \in 0 .. MaxDepth + 1] ==
        IF d = 0 THEN [type \in TypeNames |-> NoCodec]
        ELSE [type \in TypeNames |-> Codec(types, type, Values[d][type], codecs[d - 1])]
  IN codecs

-----------------------------------------------------------------------------

Depth(type) == IF type = "SignedTransaction" THEN MaxDepth + 1 ELSE MaxDepth

CodecOf(types, type) == Codecs(types)[Depth(type)][type]

BorshOf(types, type, v) == CodecOf(types, type).write[v]

\* try_from_slice: nothing may be left.
BorshFrom(types, type, b) ==
  LET got == CodecOf(types, type).read[b]
  IN IF got = << >> \/ got[1].rest # << >> THEN << >> ELSE <<got[1].value>>

\* build_for_signing
BuildForSigning(tx) == BorshOf(Types, "NearTransaction", tx)

Faulty_BuildWithSignature(tx, signature) ==
  BuildForSigning(tx) \o SubSeq(SignatureToBorsh(signature), 2, Len(SignatureToBorsh(signature)))

BuildWithSignature(tx, signature) ==
  BorshOf(Types, "SignedTransaction", [transaction |-> tx, signature |-> signature])
=============================================================================
