--------------------------- MODULE EvmTransaction ---------------------------
(***************************************************************************)
(* EVMTransaction (evm/evm_transaction.rs): the calls that its two         *)
(* builders make on an RLP stream, in order.  A transaction is a record    *)
(* with the names of the code; to is << >> or one address; numbers stay    *)
(* below TLC's, addresses and storage keys have the lengths of the code.   *)
(***************************************************************************)
EXTENDS RlpStream

EIP_1559_TYPE == 2

AppendBytes(bytes) == [call |-> "append", bytes |-> bytes]
AppendNumber(n) == AppendBytes(BigEndian[n])
BeginList == [call |-> "begin"]
FinalizeList == [call |-> "finalize"]

Faulty_EncodeAccess(access) ==
  <<BeginList, AppendBytes(access.address)>>
    \o (IF access.keys = << >> THEN << >> ELSE <<BeginList>>)
    \o [i \in DOMAIN access.keys |-> AppendBytes(access.keys[i])]
    \o (IF access.keys = << >> THEN << >> ELSE <<FinalizeList>>)
    \o <<FinalizeList>>

Faulty_EncodeAccess_Unclosed(access) ==
  <<BeginList, AppendBytes(access.address), BeginList>>
    \o [i \in DOMAIN access.keys |-> AppendBytes(access.keys[i])]
    \o <<FinalizeList>>

\* One address with its storage keys.
EncodeAccess(access) ==
  <<BeginList, AppendBytes(access.address), BeginList>>
    \o [i \in DOMAIN access.keys |-> AppendBytes(access.keys[i])]
    \o <<FinalizeList, FinalizeList>>

EncodeAccessList(access_list) ==
  <<BeginList>> \o FlattenSeq([i \in DOMAIN access_list |-> EncodeAccess(access_list[i])])
                \o <<FinalizeList>>

Faulty_EncodeFields(tx) ==
  <<AppendNumber(tx.chain_id), AppendNumber(tx.nonce),
    AppendNumber(tx.max_fee_per_gas), AppendNumber(tx.max_priority_fee_per_gas),
    AppendNumber(tx.gas_limit),
    AppendBytes(FlattenSeq(tx.to)),
    AppendNumber(tx.value), AppendBytes(tx.input)>>
    \o EncodeAccessList(tx.access_list)

EncodeFields(tx) ==
  <<AppendNumber(tx.chain_id), AppendNumber(tx.nonce),
    AppendNumber(tx.max_priority_fee_per_gas), AppendNumber(tx.max_fee_per_gas),
    AppendNumber(tx.gas_limit),
    AppendBytes(FlattenSeq(tx.to)),
    AppendNumber(tx.value), AppendBytes(tx.input)>>
    \o EncodeAccessList(tx.access_list)

\* build_for_signing
CallsForSigning(tx) ==
  <<AppendNumber(EIP_1559_TYPE), BeginList>> \o EncodeFields(tx) \o <<FinalizeList>>

Faulty_CallsWithSignature(tx, signature) ==
  <<AppendNumber(EIP_1559_TYPE), BeginList>>
    \o EncodeFields(tx)
    \o <<AppendNumber(signature.v), AppendBytes(signature.s), AppendBytes(signature.r)>>
    \o <<FinalizeList>>

\* build_with_signature: v is a number, r and s are byte strings.
CallsWithSignature(tx, signature) ==
  <<AppendNumber(EIP_1559_TYPE), BeginList>>
    \o EncodeFields(tx)
    \o <<AppendNumber(signature.v), AppendBytes(signature.r), AppendBytes(signature.s)>>
    \o <<FinalizeList>>

\* One call on the stream.
Call(stream, call) ==
  CASE call.call = "append"   -> AppendValue(stream, call.bytes)
    [] call.call = "begin"    -> BeginUnboundedList(stream)
    [] call.call = "finalize" -> FinalizeUnboundedList(stream)

\* All of them in order.
Run(stream, calls) ==
  LET after[k \in 0 .. Len(calls)] ==
        IF k = 0 THEN stream ELSE Call(after[k - 1], calls[k])
  IN after[Len(calls)]

Out(calls) == Run(NewStream, calls).buffer

BuildForSigning(tx) == Out(CallsForSigning(tx))

BuildWithSignature(tx, signature) == Out(CallsWithSignature(tx, signature))
=============================================================================
