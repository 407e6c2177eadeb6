------------------------------ MODULE MCEncoding ------------------------------
(***************************************************************************)
(* The consensus encoding: two independent specifications, one of them in  *)
(* each behaviour.                                                         *)
(*   delivery  bytes 0 .. 4: one byte holds a count or a length of 0 and   *)
(*             1, so that two inputs, two script bytes or two witness      *)
(*             elements need a tag, and every byte of a field can be taken *)
(*             for any other.                                              *)
(*   chunks    chunks of 3 bytes: lengths below, at and above one, two and *)
(*             three chunks, and streams that end anywhere.                *)
(***************************************************************************)
EXTENDS WireDelivery, ChunkedRead

VARIABLE part

vars == <<part, deliveryVars, readVars>>

-----------------------------------------------------------------------------

MCLengths == 0 .. 10
MCStreams == 0 .. 11

MCScripts == {<< >>, <<1>>, <<0, 2>>}

MCWitnesses == {<< >>, << << >> >>, << <<1>>, <<3, 0>> >>}

MCTxIns == {[previous_output |-> [txid |-> <<0, 1>>, vout |-> vout],
           script_sig |-> script_sig, sequence |-> 4, witness |-> witness] :
            vout \in {0}, script_sig \in MCScripts, witness \in MCWitnesses}

MCTxOuts == {[value |-> 1, script_pubkey |-> script] : script \in MCScripts}

\* Up to two inputs and one output.
MCTransactions ==
  [version : {1, 2}, lock_time : {0},
   input : {<< >>} \cup {<<a>> : a \in MCTxIns} \cup {<<a, b>> : a, b \in MCTxIns},
   output : {<< >>} \cup {<<o>> : o \in MCTxOuts}]

-----------------------------------------------------------------------------

DeliveryIdle == DeliveryInit /\ tx = CHOOSE t \in Transactions : TRUE
ReadIdle     == ReadInit /\ requested = 0 /\ available = 0

Init ==
  \/ part = "delivery" /\ DeliveryInit /\ ReadIdle
  \/ part = "chunks" /\ ReadInit /\ DeliveryIdle

DeliveryStep == part = "delivery" /\ DeliveryNext /\ UNCHANGED <<part, readVars>>
ReadStep     == part = "chunks" /\ ReadNext /\ UNCHANGED <<part, deliveryVars>>

Next == DeliveryStep \/ ReadStep

\* The loop over the chunks runs until it returns: nothing in it waits.
Spec == Init /\ [][Next]_vars /\ WF_vars(ReadStep)

-----------------------------------------------------------------------------

\* ChunkedRead: the loop ends, whatever was announced.
Termination == part = "chunks" => ReadEnds
=============================================================================
