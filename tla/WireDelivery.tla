---------------------------- MODULE WireDelivery ----------------------------
(***************************************************************************)
(* A serialized transaction on its way to a reader: it may arrive whole,   *)
(* cut short, or with a byte changed (a marker taken for a count, a count  *)
(* or a tag that announces something else).                                *)
(***************************************************************************)
EXTENDS BitcoinWire

CONSTANT Transactions

-----------------------------------------------------------------------------
(* What a BitcoinTransaction can be.  No length is beyond a usize, no count *)
(* beyond a VarInt, and no script of an input beyond the bytes that its    *)
(* decoder looks at.                                                       *)

Bytes == Seq(Byte)
VarInts == 0 .. Power(8) - 1

Data == {d \in Bytes : Len(d) < Power(UsizeWidth)}
Scripts == {d \in Data : Len(EncodeBytes(d)) <= MaxVecSize}
Txids == {s \in Bytes : Len(s) = TxidWidth}
Witnesses == {w \in Seq(Data) : Len(w) \in VarInts}

TxIns == [previous_output : [txid : Txids, vout : Byte], script_sig : Scripts,
          sequence : Byte, witness : Witnesses]
TxOuts == [value : Byte, script_pubkey : Data]

BitcoinTransactions ==
  [version : {1, 2}, lock_time : Byte,
   input : {s \in Seq(TxIns) : Len(s) \in VarInts},
   output : {s \in Seq(TxOuts) : Len(s) \in VarInts}]

ASSUME TransactionsAssumption == Transactions \subseteq BitcoinTransactions

-----------------------------------------------------------------------------

VARIABLES
  tx,        \* the BitcoinTransaction
  wire,      \* its bytes
  intact,    \* nothing happened to them on the way
  arrived,   \* the reader has read them
  received   \* what it made of them

deliveryVars == <<tx, wire, intact, arrived, received>>

DeliveryInit ==
  /\ tx \in Transactions
  /\ wire = << >>
  /\ intact = TRUE
  /\ arrived = FALSE
  /\ received = Err

Serialize ==
  /\ wire = << >>
  /\ wire' = Encode(tx)
  /\ UNCHANGED <<tx, intact, arrived, received>>

OnTheWay == wire # << >> /\ intact /\ ~arrived

Cut(n) ==
  /\ OnTheWay
  /\ n < Len(wire)
  /\ wire' = SubSeq(wire, 1, n)
  /\ intact' = FALSE
  /\ UNCHANGED <<tx, arrived, received>>

Change(k, byte) ==
  /\ OnTheWay
  /\ wire[k] # byte
  /\ wire' = [wire EXCEPT ![k] = byte]
  /\ intact' = FALSE
  /\ UNCHANGED <<tx, arrived, received>>

Receive ==
  /\ wire # << >> /\ ~arrived
  /\ arrived' = TRUE
  /\ received' = ReadTransaction(wire)
  /\ UNCHANGED <<tx, wire, intact>>

Delivered == arrived /\ UNCHANGED deliveryVars

DeliveryNext ==
  \/ Serialize
  \/ \E n \in 1 .. Len(wire) : Cut(n)
  \/ \E k \in 1 .. Len(wire), byte \in Byte : Change(k, byte)
  \/ Receive
  \/ Delivered

DeliverySpec == DeliveryInit /\ [][DeliveryNext]_deliveryVars

-----------------------------------------------------------------------------

\* What arrives whole is the transaction that was sent: the two formats are
\* never taken for each other, with no input or no witness, with both.
ArrivesWhole == intact /\ arrived => received.ok /\ received.value = tx

\* No part of a transaction passes for a whole one.
NoPrefixAccepted == received.ok => Len(wire) = Len(Encode(tx))

\* The decoders are strict: whatever bytes are accepted, they are the ones
\* serialize writes for what was read.
AcceptedIsCanonical == received.ok => Encode(received.value) = wire

\* Each vector of the transaction reads back with the bytes behind it left
\* alone; an input comes back without the witness, which is sent elsewhere.
PartsReadBack ==
  LET tail == <<tx.lock_time>>
  IN /\ DecodeVec("TxIn", EncodeVec("TxIn", tx.input) \o tail) =
          Ok([j \in DOMAIN tx.input |-> [tx.input[j] EXCEPT !.witness = << >>]], tail)
     /\ DecodeVec("TxOut", EncodeVec("TxOut", tx.output) \o tail) =
          Ok(tx.output, tail)
=============================================================================
