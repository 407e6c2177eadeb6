--------------------------- MODULE MCBitcoinParts ---------------------------
(***************************************************************************)
(* The specifications of what stands around a Bitcoin transaction, one of  *)
(* them in each behaviour; the variables of the others are idle.           *)
(*   handover  numbers on both sides of every bound, one field at a time,  *)
(*             in every style.                                             *)
(*   ledger    a u64 of 6 bits: zero, one, a middle and the largest.       *)
(*   script    components of 2 bytes, on either side of the sign bit and   *)
(*             of zero, and answers of other lengths.                      *)
(*   builders  two values and up to three assignments for some fields, one *)
(*             for the others: enough to fill all, and to change what was  *)
(*             built.                                                      *)
(***************************************************************************)
EXTENDS BitcoinHandover, AmountLedger, ScriptSig, TxBuilders

CONSTANTS a, b  \* values of a field

VARIABLE part

vars == <<part, handoverVars, ledgerVars, scriptVars, builderVars>>

-----------------------------------------------------------------------------

Input(txid, vout) ==
  [previous_output |-> [txid |-> txid, vout |-> vout], script_sig |-> << >>, sequence |-> MaxU32,
   witness |-> <<<<2, 3>>, << >>>>]

Base ==
  [version |-> 1, lock_time |-> 0, input |-> <<Input(<<0, 255>>, 0), Input(<<1, 2>>, 3)>>,
   output |-> <<[value |-> 1, script_pubkey |-> <<118, 0>>]>>]

\* Numbers whose lower half is a height, a time and zero.
Wide == {MaxU32, MaxU32 + 1, MaxU32 + 3, MaxU32 + 1 + LOCK_TIME_THRESHOLD, 2 * MaxU32 + 1, 2 * MaxU32 + 2}

Meant ==
  {[Base EXCEPT !.version = n] : n \in {-1, 0, 2, 3, MaxU32 + 2}}
    \cup {[Base EXCEPT !.lock_time = n] :
            n \in {-1, 0, LOCK_TIME_THRESHOLD - 1, LOCK_TIME_THRESHOLD, MaxU64 + 1} \cup Wide}
    \cup {[Base EXCEPT !.input[1].previous_output.vout = n] : n \in {-1, MaxU64 + 1} \cup Wide}
    \cup {[Base EXCEPT !.input[2].previous_output.txid = txid] :
            txid \in {<<256, 0>>, <<1>>, <<1, 2, 3>>}}
    \cup {[Base EXCEPT !.input[1].sequence = n] : n \in {-1, 0, MaxU32 + 1}}
    \cup {[Base EXCEPT !.output[1].value = n] : n \in {-1, MaxU64, MaxU64 + 1}}
    \cup {[Base EXCEPT !.output[1].script_pubkey = bytes] : bytes \in {<< >>, <<256>>}}
    \cup {[Base EXCEPT !.input = << >>], [Base EXCEPT !.output = << >>]}

MCStyles ==
  [version : Numerals, lock_time : Numerals, vout : Numerals,
   txid : {"hex", "array"}, script : {"hex", "array"},
   keys : {<<"txid", "vout">>, <<"vout", "txid", "vout">>, <<"txid">>, <<"vout", "txid", "n">>}]

MCOrders == {o \in [meant : Meant, style : MCStyles] : Writable(o.meant, o.style)}

-----------------------------------------------------------------------------

MCAmounts == {0, 1, 31, MaxAmount}
MCCoins   == {0, 9, 10, MaxAmount}

\* No signer answers zero.
Components == ({0, 1, 127, 128, 255} \X {0, 127, 128, 255}) \ {<<0, 0>>}

MCAnswers ==
  {[hex |-> TRUE, big_r |-> <<p>> \o r, s |-> s] : p \in {2, 3}, r, s \in Components}
    \cup {[hex |-> TRUE, big_r |-> <<2, 1>> , s |-> <<1, 1>>],
           [hex |-> TRUE, big_r |-> << >>, s |-> <<1, 1>>],
           [hex |-> TRUE, big_r |-> <<2, 1, 1>>, s |-> <<1, 1, 1>>],
           [hex |-> FALSE, big_r |-> <<2, 1, 1>>, s |-> <<1, 1>>]}

MCKeys == {[i \in 1 .. n |-> i + 1] : n \in {33, 65}}

BuilderFields ==
  {"version", "lock_time", "inputs", "outputs", "chain_id", "nonce", "to", "value", "input",
   "gas_limit", "max_fee_per_gas", "max_priority_fee_per_gas", "access_list",
   "signer_id", "signer_public_key", "receiver_id", "block_hash", "actions"}

MCSettable ==
  [f \in BuilderFields |->
     CASE f \in {"signer_id", "receiver_id"} -> {a, NoAccount}
       [] f \in {"nonce", "lock_time"} -> {a, b}
       [] OTHER -> {a}]

MCMaxSets ==
  [f \in BuilderFields |-> IF f \in {"signer_id", "nonce", "lock_time", "value"} THEN 3 ELSE 1]

-----------------------------------------------------------------------------

HandoverIdle ==
  order = << >> /\ message = << >> /\ tx = << >> /\ outcome = "pending" /\ reads = 0
LedgerIdle ==
  total = 0 /\ ideal = 0 /\ left_out = FALSE /\ none = FALSE /\ aborted = FALSE
ScriptIdle ==
  answer = << >> /\ key = << >> /\ der = << >> /\ script_sig = << >> /\ asserted = FALSE
BuildersIdle ==
  chain = "none" /\ builder = << >> /\ calls = << >> /\ built = << >> /\ panicked = FALSE

Init ==
  \/ part = "handover" /\ HandoverInit /\ LedgerIdle /\ ScriptIdle /\ BuildersIdle
  \/ part = "ledger" /\ LedgerInit /\ HandoverIdle /\ ScriptIdle /\ BuildersIdle
  \/ part = "script" /\ ScriptInit /\ HandoverIdle /\ LedgerIdle /\ BuildersIdle
  \/ part = "builders" /\ BuilderInit /\ HandoverIdle /\ LedgerIdle /\ ScriptIdle

HandoverStep ==
  part = "handover" /\ HandoverNext /\ UNCHANGED <<part, ledgerVars, scriptVars, builderVars>>
LedgerStep ==
  part = "ledger" /\ LedgerNext /\ UNCHANGED <<part, handoverVars, scriptVars, builderVars>>
ScriptStep ==
  part = "script" /\ ScriptNext /\ UNCHANGED <<part, handoverVars, ledgerVars, builderVars>>
BuilderStep ==
  part = "builders" /\ BuilderNext /\ UNCHANGED <<part, handoverVars, ledgerVars, scriptVars>>

Next == HandoverStep \/ LedgerStep \/ ScriptStep \/ BuilderStep

Spec == Init /\ [][Next]_vars
=============================================================================
