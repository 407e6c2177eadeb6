------------------------------ MODULE NearNode ------------------------------
(***************************************************************************)
(* A NEAR node that reads a signed transaction with the types of the       *)
(* protocol, in the protocol's order.  External: the tests of              *)
(* near_transaction.rs take near-primitives for it.                        *)
(***************************************************************************)
EXTENDS NearBorsh

\* The fields and variants as the protocol orders them.
ProtocolOrder ==
  [NearTransaction |-> <<"signer_id", "signer_public_key", "nonce", "receiver_id", "block_hash", "actions">>,
   SignedTransaction |-> <<"transaction", "signature">>,
   Action |-> <<"CreateAccount", "DeployContract", "FunctionCall", "Transfer", "Stake", "AddKey",
                "DeleteKey", "DeleteAccount", "Delegate", "DeployGlobalContract", "UseGlobalContract">>,
   FunctionCallAction |-> <<"method_name", "args", "gas", "deposit">>,
   StakeAction |-> <<"stake", "public_key">>,
   AddKeyAction |-> <<"public_key", "access_key">>,
   AccessKey |-> <<"nonce", "permission">>,
   AccessKeyPermission |-> <<"FunctionCall", "FullAccess">>,
   FunctionCallPermission |-> <<"allowance", "receiver_id", "method_names">>,
   DelegateAction |-> <<"sender_id", "receiver_id", "actions", "nonce", "max_block_height", "public_key">>,
   SignedDelegateAction |-> <<"delegate_action", "signature">>,
   DeployGlobalContractAction |-> <<"code", "deploy_mode">>,
   GlobalContractDeployMode |-> <<"CodeHash", "AccountId">>,
   GlobalContractIdentifier |-> <<"CodeHash", "AccountId">>]

InOrder(t, names) ==
  [kind |-> t.kind, parts |-> [i \in DOMAIN names |-> t.parts[IndexOf(t.parts, names[i])]]]

\* The types of the library put in the order of the protocol.
ProtocolTypes ==
  [type \in TypeNames |->
     IF type \in DOMAIN ProtocolOrder THEN InOrder(Types[type], ProtocolOrder[type]) ELSE Types[type]]

\* A delegate action inside a delegate action is refused.
Nested(tx) ==
  \E action \in ToSet(tx.actions) :
    /\ action.variant = "Delegate"
    /\ \E inner \in ToSet(action.value.delegate_action.actions) : inner.variant = "Delegate"

\* The transaction that a node reads, if it does.
NodeReadsTransaction(bytes) ==
  {tx \in ToSet(BorshFrom(ProtocolTypes, "NearTransaction", bytes)) : ~Nested(tx)}

\* The same of a signed transaction.
NodeReads(bytes) ==
  {signed \in ToSet(BorshFrom(ProtocolTypes, "SignedTransaction", bytes)) : ~Nested(signed.transaction)}

\* What the signature of a transaction is checked against.
SigningBytes(tx) == BorshOf(ProtocolTypes, "NearTransaction", tx)
=============================================================================
