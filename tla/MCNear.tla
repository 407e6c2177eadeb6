------------------------------- MODULE MCNear -------------------------------
(***************************************************************************)
(* The three NEAR specifications, one of them in each behaviour; the       *)
(* others stay in an initial state.  The lengths are in the proportions    *)
(* of the code: a key of one type is as long as a signature of the other.  *)
(*   travel    two values of a byte, up to four of them in a spoilt value. *)
(*   handover  one transaction for each action, of each shape it can have, *)
(*             two with several, one with an amount above u64::MAX; a      *)
(*             front end also writes what no program can build.            *)
(*   session   two requests, and two fields that change.                   *)
(***************************************************************************)
EXTENDS NearSession, NearHandover, NearKeyTravel

ASSUME RealLengthsAssumption ==
  /\ ED25519_PUBLIC_KEY_LENGTH = COMPONENT_SIZE /\ HASH_LENGTH = COMPONENT_SIZE
  /\ SECP256K1_PUBLIC_KEY_LENGTH = ED25519_SIGNATURE_LENGTH
  /\ SECP256K1_SIGNATURE_LENGTH = ED25519_SIGNATURE_LENGTH + 1

VARIABLE part

vars == <<part, travelVars, handoverVars, sessionVars>>

-----------------------------------------------------------------------------

EdKey   == Ed25519(<<3>>)
SecpKey == Secp256k1(<<4, 5>>)

Act(variant, content) == [variant |-> variant, value |-> content]
Unit(variant) == Act(variant, NoFields)

Transfer(n) == Act("Transfer", [deposit |-> n])
AddKey(key, permission) ==
  Act("AddKey", [public_key |-> key, access_key |-> [nonce |-> 9, permission |-> permission]])
Limited(allowance, names) ==
  Act("FunctionCall", [allowance |-> allowance, receiver_id |-> <<7>>, method_names |-> names])

Delegate(actions, signature) ==
  Act("Delegate", [delegate_action |->
        [sender_id |-> <<1>>, receiver_id |-> <<2>>, actions |-> actions, nonce |-> 1,
         max_block_height |-> 2, public_key |-> EdKey],
      signature |-> signature])

EdSignature   == Ed25519(<<<<6>>, <<7>>>>)
SecpSignature == Secp256k1(<<6, 7, 1>>)

Actions ==
  <<Unit("CreateAccount"), Act("DeployContract", [code |-> <<0, 1>>]),
    Act("FunctionCall", [method_name |-> <<1>>, args |-> <<>>, gas |-> 11, deposit |-> 0]),
    Transfer(11), Act("Stake", [stake |-> 5, public_key |-> SecpKey]),
    AddKey(EdKey, Unit("FullAccess")), AddKey(SecpKey, Limited(<<>>, <<>>)),
    AddKey(EdKey, Limited(<<0>>, <<<<1>>, <<>>>>)),
    Act("DeleteKey", [public_key |-> EdKey]), Act("DeleteAccount", [beneficiary_id |-> <<8>>]),
    Act("DeployGlobalContract", [code |-> <<3>>, deploy_mode |-> Unit("CodeHash")]),
    Act("DeployGlobalContract", [code |-> <<>>, deploy_mode |-> Unit("AccountId")]),
    Act("UseGlobalContract", [contract_identifier |-> Act("CodeHash", <<2>>)]),
    Act("UseGlobalContract", [contract_identifier |-> Act("AccountId", <<2>>)]),
    Delegate(<<>>, EdSignature), Delegate(<<Transfer(3), Unit("CreateAccount")>>, SecpSignature)>>

Transaction(key, actions) ==
  [signer_id |-> <<1, 2>>, signer_public_key |-> key, nonce |-> 1, receiver_id |-> <<2>>,
   block_hash |-> <<1>>, actions |-> actions]

Hosted == Actions[14]

-----------------------------------------------------------------------------

MCTransactions ==
  {Transaction(EdKey, <<Actions[i]>>) : i \in DOMAIN Actions}
    \cup {Transaction(SecpKey, << >>), Transaction(SecpKey, <<Transfer(1), Actions[8], Transfer(2)>>),
           Transaction(EdKey, <<Transfer(MaxU64 + 1)>>)}

MCForeign == {Transaction(EdKey, <<Delegate(<<Delegate(<<>>, EdSignature)>>, EdSignature)>>)}

MCForms == {{}, {"U64"}, {"U128", "BlockHash"}, {"PublicKey"}, {"U64", "U128", "BlockHash", "PublicKey"}}

MCInitial == {Transaction(SecpKey, <<Hosted>>)}
MCAssignable == [nonce |-> {1, 2}, signer_public_key |-> {EdKey, SecpKey}]
MCAnswers == {Secp256k1(<<k, 0, 1>>) : k \in 1 .. 3}

-----------------------------------------------------------------------------

TravelIdle   == TravelInit /\ kind = "hash" /\ value = <<0>>
HandoverIdle ==
  first = << >> /\ held = << >> /\ letter = << >> /\ changed = FALSE /\ refused = FALSE /\ posts = 0
SessionIdle  == tx = << >> /\ requests = << >> /\ answers = << >> /\ sent = << >> /\ executed = {}

Init ==
  \/ part = "travel" /\ TravelInit /\ HandoverIdle /\ SessionIdle
  \/ part = "handover" /\ HandoverInit /\ TravelIdle /\ SessionIdle
  \/ part = "session" /\ SessionInit /\ TravelIdle /\ HandoverIdle

TravelStep   == part = "travel" /\ TravelNext /\ UNCHANGED <<part, handoverVars, sessionVars>>
HandoverStep == part = "handover" /\ HandoverNext /\ UNCHANGED <<part, travelVars, sessionVars>>
SessionStep  == part = "session" /\ SessionNext /\ UNCHANGED <<part, travelVars, handoverVars>>

Next == TravelStep \/ HandoverStep \/ SessionStep

Spec == Init /\ [][Next]_vars
=============================================================================
