---------------------------- MODULE EvmEncoding ----------------------------
(***************************************************************************)
(* build_for_signing and build_with_signature, call by call on the stream. *)
(***************************************************************************)
EXTENDS EvmNode

CONSTANTS
  Transactions,  \* EVMTransaction values
  Signatures     \* evm::types::Signature values, numbers without leading zeros

VARIABLES
  transaction,  \* the transaction
  signature,    \* << >>, or the signature to encode with it
  todo,         \* the calls that are still to be made
  stream,       \* the RlpStream
  out           \* the bytes returned

ASSUME EncodingAssumption ==
  /\ Transactions \subseteq EVMTransaction
  /\ \A s \in Signatures : s \in Signature /\ Unpadded(s)
  /\ \A t \in Transactions : /\ IsLength(Len(BuildForSigning(t)))
                             /\ \A s \in Signatures : IsLength(Len(BuildWithSignature(t, s)))

encodingVars == <<transaction, signature, todo, stream, out>>

EncodingInit ==
  /\ transaction \in Transactions
  /\ \/ signature = << >> /\ todo = CallsForSigning(transaction)
     \/ \E s \in Signatures : signature = <<s>> /\ todo = CallsWithSignature(transaction, s)
  /\ stream = NewStream
  /\ out = << >>

Step(call) ==
  /\ todo # << >>
  /\ Head(todo).call = call
  /\ call = "finalize" => ~IsFinished(stream)
  /\ stream' = Call(stream, Head(todo))
  /\ todo' = Tail(todo)
  /\ UNCHANGED <<transaction, signature, out>>

AppendOne == Step("append")
Begin     == Step("begin")
Finalize  == Step("finalize")

Return ==
  /\ todo = << >> /\ out = << >>
  /\ IsFinished(stream)
  /\ out' = stream.buffer
  /\ UNCHANGED <<transaction, signature, todo, stream>>

EncodingNext == AppendOne \/ Begin \/ Finalize \/ Return

EncodingSpec == EncodingInit /\ [][EncodingNext]_encodingVars /\ WF_encodingVars(EncodingNext)

-----------------------------------------------------------------------------

\* What is returned is the transaction, with the signature or without one,
\* to a reader that knows nothing of the stream.
ReadsBack ==
  out # << >> => ReadTransaction(out) = <<[tx |-> transaction, signature |-> signature]>>

\* Every transaction gets its bytes: no list is left open or closed twice
\* (either would panic), whatever lists are empty.
Finishes == <>(out # << >>)
=============================================================================
