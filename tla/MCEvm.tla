------------------------------- MODULE MCEvm -------------------------------
(***************************************************************************)
(* The three EVM specifications, one of them in each behaviour; the        *)
(* variables of the others are idle.                                       *)
(*   encoding  real lengths: an access with one key makes a list of more   *)
(*             than 55 bytes, one without keys a list of 22, and inputs of *)
(*             55 and 56 bytes are on both sides of the short strings.     *)
(*   session   two requests, and fields of each kind that changes.         *)
(*   json      addresses of two bytes, u64 and u128 cut to 99 and 999, two *)
(*             fields of any form and the others regular.                  *)
(***************************************************************************)
EXTENDS EvmEncoding, EvmSession, EvmFromJson, FiniteSets

VARIABLE part

vars == <<part, encodingVars, sessionVars, jsonVars>>

-----------------------------------------------------------------------------

AddressOf(b) == [i \in 1 .. 20 |-> b]
KeyOf(b) == [i \in 1 .. 32 |-> b]
Data(n, b) == [i \in 1 .. n |-> b]

NoAccess == << >>
Bare == [address |-> AddressOf(1), keys |-> << >>]
OneKey == [address |-> AddressOf(2), keys |-> <<KeyOf(3)>>]
TwoKeys == [address |-> AddressOf(0), keys |-> <<KeyOf(0), KeyOf(200)>>]

MCTransactions ==
  [chain_id : {1}, nonce : {0, 127, 128, 256}, to : {<< >>, <<AddressOf(0)>>},
   value : {0, 300}, input : {<< >>, <<0>>, <<127>>, <<128>>, Data(55, 7), Data(56, 7)},
   gas_limit : {21000}, max_fee_per_gas : {9}, max_priority_fee_per_gas : {0, 3},
   access_list : {NoAccess, <<Bare>>, <<OneKey>>, <<Bare, TwoKeys>>, <<OneKey, Bare, OneKey>>}]

MCSignatures == {[v |-> v, r |-> <<1, 0>>, s |-> Data(32, 129)] : v \in {0, 1}}

MCInitial ==
  {[chain_id |-> 1, nonce |-> 0, to |-> to, value |-> 256, input |-> <<1, 2>>,
    gas_limit |-> 21000, max_fee_per_gas |-> 9, max_priority_fee_per_gas |-> 3,
    access_list |-> NoAccess] : to \in {<< >>, <<AddressOf(9)>>}}

MCAssignable == [nonce |-> {0, 1}, access_list |-> {NoAccess, <<OneKey>>}]

MCAnswers ==
  {[v |-> 0, r |-> <<7, 0>>, s |-> <<1, 0>>], [v |-> 1, r |-> <<7, 0>>, s |-> <<1, 0>>],
   [v |-> 1, r |-> <<0, 7>>, s |-> <<1, 0>>]}

-----------------------------------------------------------------------------

Decimal(digits) == <<[prefixed |-> FALSE, digits |-> digits]>>
Hexadecimal(digits) == <<[prefixed |-> TRUE, digits |-> digits]>>

Texts ==
  {<< >>} \cup {Decimal(d) : d \in {<< >>, <<0>>, <<1, 0>>, <<9, 9>>, <<1, 0, 0>>, <<1, 0, 0, 0>>, <<1, 10>>, <<16, 1>>}}
          \cup {Hexadecimal(d) : d \in {<< >>, <<0, 1>>, <<1, 0>>, <<6, 3>>, <<6, 4>>, <<3, 14, 8>>, <<0, 10, 11, 12>>, <<0, 0, 0, 16>>}}

Names == {"to", "nonce", "value", "gasLimit", "maxPriorityFeePerGas", "maxFeePerGas", "chainId", "input"}

Regular == [f \in Names |-> IF f = "to" THEN Hexadecimal(<<1, 0, 15, 15>>) ELSE Decimal(<<1, 2>>)]

MCDocuments == {[Regular EXCEPT ![f] = a, ![g] = b] : f, g \in Names, a, b \in Texts}

-----------------------------------------------------------------------------

EncodingIdle ==
  transaction = << >> /\ signature = << >> /\ todo = << >> /\ stream = NewStream /\ out = << >>
SessionIdle ==
  tx = << >> /\ requests = << >> /\ answers = << >> /\ sent = << >> /\ executed = {}
JsonIdle == doc = << >> /\ parsed = << >> /\ panicked = FALSE

Init ==
  \/ part = "encoding" /\ EncodingInit /\ SessionIdle /\ JsonIdle
  \/ part = "session" /\ SessionInit /\ EncodingIdle /\ JsonIdle
  \/ part = "json" /\ JsonInit /\ EncodingIdle /\ SessionIdle

EncodingStep == part = "encoding" /\ EncodingNext /\ UNCHANGED <<part, sessionVars, jsonVars>>
SessionStep  == part = "session" /\ SessionNext /\ UNCHANGED <<part, encodingVars, jsonVars>>
JsonStep     == part = "json" /\ JsonNext /\ UNCHANGED <<part, encodingVars, sessionVars>>

Next == EncodingStep \/ SessionStep \/ JsonStep

Spec == Init /\ [][Next]_vars /\ WF_vars(EncodingStep)

-----------------------------------------------------------------------------

\* EvmEncoding: every transaction gets its bytes; no list is left open.
Termination == part = "encoding" => Finishes
=============================================================================
