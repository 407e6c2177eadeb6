-------------------------- MODULE NearTransaction --------------------------
(***************************************************************************)
(* The types of a NEAR transaction (near/types/actions.rs,                 *)
(* near/near_transaction.rs): the fields of a struct and the variants of   *)
(* an enum, in the order of their declaration, on which Borsh depends.     *)
(* What Borsh does with them is in NearBorsh, JSON in NearJson.            *)
(*                                                                         *)
(* A value of a struct is a record, of an enum a record with its variant   *)
(* and its value, of a type without fields NoFields.                       *)
(***************************************************************************)
EXTENDS NearKeys, SequencesExt

Part(name, type) == [name |-> name, type |-> type]

Struct(parts)   == [kind |-> "struct", parts |-> parts]
Enum(variants)  == [kind |-> "enum", parts |-> variants]
List(type)      == [kind |-> "list", parts |-> <<Part("item", type)>>]
Option(type)    == [kind |-> "option", parts |-> <<Part("item", type)>>]
Primitive(name) == [kind |-> name, parts |-> << >>]

NoFields == << >>

IndexOf(parts, name) == CHOOSE i \in DOMAIN parts : parts[i].name = name

\* The values of the fields of a struct in their order, and back.
FieldsOf(parts, v) == [i \in DOMAIN parts |-> v[parts[i].name]]

RecordOf(parts, x) ==
  [name \in {parts[i].name : i \in DOMAIN parts} |-> x[IndexOf(parts, name)]]

-----------------------------------------------------------------------------

\* An action is put in before another.
Faulty_Action ==
  Enum(<<Part("CreateAccount", "CreateAccountAction"), Part("DeployContract", "DeployContractAction"),
         Part("FunctionCall", "FunctionCallAction"), Part("Transfer", "TransferAction"),
         Part("Stake", "StakeAction"), Part("AddKey", "AddKeyAction"),
         Part("DeleteKey", "DeleteKeyAction"), Part("DeleteAccount", "DeleteAccountAction"),
         Part("DeployGlobalContract", "DeployGlobalContractAction"),
         Part("UseGlobalContract", "UseGlobalContractAction"),
         Part("Delegate", "SignedDelegateAction")>>)

Action ==
  Enum(<<Part("CreateAccount", "CreateAccountAction"), Part("DeployContract", "DeployContractAction"),
         Part("FunctionCall", "FunctionCallAction"), Part("Transfer", "TransferAction"),
         Part("Stake", "StakeAction"), Part("AddKey", "AddKeyAction"),
         Part("DeleteKey", "DeleteKeyAction"), Part("DeleteAccount", "DeleteAccountAction"),
         Part("Delegate", "SignedDelegateAction"),
         Part("DeployGlobalContract", "DeployGlobalContractAction"),
         Part("UseGlobalContract", "UseGlobalContractAction")>>)

DeployGlobalContractAction ==
  Struct(<<Part("code", "Base64VecU8"), Part("deploy_mode", "GlobalContractDeployMode")>>)
UseGlobalContractAction == Struct(<<Part("contract_identifier", "GlobalContractIdentifier")>>)
GlobalContractDeployMode == Enum(<<Part("CodeHash", "Unit"), Part("AccountId", "Unit")>>)
GlobalContractIdentifier == Enum(<<Part("CodeHash", "BlockHash"), Part("AccountId", "AccountId")>>)

CreateAccountAction == Struct(<< >>)
DeployContractAction == Struct(<<Part("code", "Base64VecU8")>>)
FunctionCallAction ==
  Struct(<<Part("method_name", "String"), Part("args", "VecU8"), Part("gas", "U64"),
           Part("deposit", "U128")>>)
TransferAction == Struct(<<Part("deposit", "U128")>>)
StakeAction == Struct(<<Part("stake", "U128"), Part("public_key", "PublicKey")>>)
DeleteKeyAction == Struct(<<Part("public_key", "PublicKey")>>)
DeleteAccountAction == Struct(<<Part("beneficiary_id", "AccountId")>>)

AddKeyAction == Struct(<<Part("public_key", "PublicKey"), Part("access_key", "AccessKey")>>)
AccessKey == Struct(<<Part("nonce", "U64"), Part("permission", "AccessKeyPermission")>>)
AccessKeyPermission ==
  Enum(<<Part("FunctionCall", "FunctionCallPermission"), Part("FullAccess", "Unit")>>)
FunctionCallPermission ==
  Struct(<<Part("allowance", "OptionU128"), Part("receiver_id", "String"),
           Part("method_names", "VecString")>>)

DelegateAction ==
  Struct(<<Part("sender_id", "AccountId"), Part("receiver_id", "AccountId"),
           Part("actions", "VecNonDelegateAction"), Part("nonce", "U64"),
           Part("max_block_height", "U64"), Part("public_key", "PublicKey")>>)
SignedDelegateAction ==
  Struct(<<Part("delegate_action", "DelegateAction"), Part("signature", "Signature")>>)

\* A newtype: its derived codecs are those of an Action.
VecNonDelegateAction == List("Action")

\* Two fields change places.
Faulty_NearTransaction ==
  Struct(<<Part("signer_id", "AccountId"), Part("signer_public_key", "PublicKey"),
           Part("nonce", "U64"), Part("block_hash", "BlockHash"),
           Part("receiver_id", "AccountId"), Part("actions", "VecAction")>>)

NearTransaction ==
  Struct(<<Part("signer_id", "AccountId"), Part("signer_public_key", "PublicKey"),
           Part("nonce", "U64"), Part("receiver_id", "AccountId"),
           Part("block_hash", "BlockHash"), Part("actions", "VecAction")>>)
SignedTransaction ==
  Struct(<<Part("transaction", "NearTransaction"), Part("signature", "Signature")>>)

\* Newtypes of u64 and u128.
U64  == Primitive("U64")
U128 == Primitive("U128")

Types ==
  [U64 |-> U64, U128 |-> U128, BlockHash |-> Primitive("BlockHash"),
   PublicKey |-> Primitive("PublicKey"), Signature |-> Primitive("Signature"),
   Base64VecU8 |-> Primitive("Base64VecU8"), VecU8 |-> Primitive("VecU8"),
   String |-> Primitive("String"), AccountId |-> Primitive("AccountId"), Unit |-> Primitive("Unit"),
   OptionU128 |-> Option("U128"), VecString |-> List("String"), VecAction |-> List("Action"),
   VecNonDelegateAction |-> VecNonDelegateAction, Action |-> Action,
   CreateAccountAction |-> CreateAccountAction, DeployContractAction |-> DeployContractAction,
   FunctionCallAction |-> FunctionCallAction, TransferAction |-> TransferAction,
   StakeAction |-> StakeAction, AddKeyAction |-> AddKeyAction, AccessKey |-> AccessKey,
   AccessKeyPermission |-> AccessKeyPermission, FunctionCallPermission |-> FunctionCallPermission,
   DeleteKeyAction |-> DeleteKeyAction, DeleteAccountAction |-> DeleteAccountAction,
   DelegateAction |-> DelegateAction, SignedDelegateAction |-> SignedDelegateAction,
   DeployGlobalContractAction |-> DeployGlobalContractAction,
   UseGlobalContractAction |-> UseGlobalContractAction,
   GlobalContractDeployMode |-> GlobalContractDeployMode,
   GlobalContractIdentifier |-> GlobalContractIdentifier,
   NearTransaction |-> NearTransaction, SignedTransaction |-> SignedTransaction]

TypeNames == DOMAIN Types

\* NonDelegateAction::try_from
NonDelegateTryFrom(action) == IF action.variant = "Delegate" THEN Error ELSE Ok(action)
=============================================================================
