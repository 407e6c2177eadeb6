--------------------------- MODULE BitcoinSigning ---------------------------
(***************************************************************************)
(* One BitcoinTransaction between its caller, the signer and the network.  *)
(*                                                                         *)
(* The library signs nothing.  Its caller asks build_for_signing_* for a   *)
(* preimage, has it signed elsewhere (signer/types.rs: the MPC contract,   *)
(* which answers in later receipts and in any order), and attaches the     *)
(* answers with build_with_* to a transaction that may have changed since. *)
(*                                                                         *)
(* All inputs are owned by one key and have the same amount, as in         *)
(* tests/bitcoin_integration_test.rs, so that an input differs from        *)
(* another only by its previous output: the hardest case for signatures    *)
(* that come back in another order.                                        *)
(***************************************************************************)
EXTENDS BitcoinTransaction

CONSTANTS
  NumInputs,    \* inputs of the transaction
  MaxRequests,  \* bound: preimages a caller asks for
  OutPoints,    \* values of TxIn::previous_output
  Sequences,    \* values of TxIn::sequence
  Outputs,      \* values of BitcoinTransaction::output
  LockTimes,    \* values of BitcoinTransaction::lock_time
  Code,         \* the script code of every input
  Value,        \* the amount of every input
  Collect       \* TRUE: the caller collects every sighash, then attaches
                \* FALSE: the caller calls anything at any time

ASSUME SizeAssumption == /\ NumInputs \in Nat \ {0}
                         /\ MaxRequests \in Nat \ {0}

ASSUME CollectAssumption == Collect \in BOOLEAN

Inputs == 1 .. NumInputs

\* A signature names the request it answers.
Sig(k) == <<"sig", k>>
Requests == 1 .. MaxRequests

\* A script_sig or a witness: nothing, the script code, or a signature.
ASSUME CodeAssumption == Code # Empty /\ \A k \in Requests : Code # Sig(k)

Script == {Empty, Code} \cup {Sig(k) : k \in Requests}

TxIn == [previous_output : OutPoints, script_sig : Script,
         sequence : Sequences, witness : Script]

Transaction == [version : Version, lock_time : LockTimes,
                input : [Inputs -> TxIn], output : Outputs]

\* What the builders write.
EncodedTxIn == [previous_output : OutPoints, script_sig : Script,
                sequence : Sequences]

EncodedTx == [version : Version, marker : BOOLEAN,
              input : [Inputs -> EncodedTxIn], output : Outputs,
              witness : [Inputs -> Script] \cup {Empty}, lock_time : LockTimes]

LegacyPayload == [tx : EncodedTx, sighash_type : {SighashAll}]

SegwitPayload == [version : Version, marker : BOOLEAN,
                  prevouts : [Inputs -> OutPoints],
                  sequences : [Inputs -> Sequences],
                  outpoint : OutPoints, script_code : {Code}, value : {Value},
                  sequence : Sequences, outputs : Outputs,
                  lock_time : LockTimes, sighash_type : {SighashAll}]

SignRequest == [input : Inputs, segwit : BOOLEAN,
                payload : LegacyPayload \cup SegwitPayload]

VARIABLES
  tx,        \* the BitcoinTransaction
  segwit,    \* the inputs that spend a segwit output
  requests,  \* the preimages asked for, in order
  signed,    \* the requests the signer has answered
  status     \* "live", "panicked", or the network's verdict

vars == <<tx, segwit, requests, signed, status>>

Terminal == {"panicked", "accepted", "rejected"}

-----------------------------------------------------------------------------
(* The network's verdict on a signature and on a transaction.              *)

Spends(t, i) ==
  IF i \in segwit
  THEN /\ t.input[i].script_sig = Empty
       /\ \E k \in signed : /\ t.input[i].witness = Sig(k)
                            /\ requests[k].payload = Bip143(t, i, Code, Value)
  ELSE /\ t.input[i].witness = Empty
       /\ \E k \in signed : /\ t.input[i].script_sig = Sig(k)
                            /\ requests[k].payload = LegacySighash(t, i, Code)

\* A superfluous witness section makes a transaction malformed.
Accepts(w) ==
  /\ w.marker => \E j \in DOMAIN w.witness : w.witness[j] # Empty
  /\ \A i \in DOMAIN w.input : Spends(Received(w), i)

Verdict(w) == IF Accepts(w) THEN "accepted" ELSE "rejected"

-----------------------------------------------------------------------------
(* The caller that collects (test_p2wpkh_multiple_utxos): one preimage for *)
(* each input before the first signature is attached.  For a legacy input  *)
(* the script code stands in script_sig while its preimage is built        *)
(* (test_p2pkh_single_utxo), and in no other input at that time; it is     *)
(* taken out again, or stays until the answer is written over it.          *)

Requested(i) == \E k \in DOMAIN requests : requests[k].input = i

Attached(t, i) == IF i \in segwit
                  THEN t.input[i].witness # Empty
                  ELSE t.input[i].script_sig \notin {Empty, Code}

MayAssign(i, script_sig) ==
  Collect =>
    /\ i \notin segwit
    /\ \/ /\ ~Requested(i)
          /\ \A j \in Inputs : tx.input[j].script_sig = Empty
          /\ script_sig = Code
       \/ /\ Requested(i)
          /\ tx.input[i].script_sig = Code
          /\ script_sig = Empty

MayRequest(i) == Collect => i \in Inputs /\ ~Requested(i)

MayAttach(i, s, tx_type) ==
  Collect =>
    /\ \A j \in Inputs : Requested(j)
    /\ \E k \in signed : requests[k].input = i /\ s = Sig(k)
    /\ ~Attached(tx, i)
    /\ tx_type \in IF i \in segwit THEN SegwitTypes ELSE LegacyTypes

\* What the other caller sends is not modelled: it may send anything.
MayBroadcast(t) == Collect /\ \A i \in Inputs : Attached(t, i)

-----------------------------------------------------------------------------

Unsigned(in) == in.script_sig = Empty /\ in.witness = Empty

Init ==
  /\ tx \in Transaction
  /\ \A i \in Inputs : Unsigned(tx.input[i])
  /\ \A i, j \in Inputs :
       tx.input[i].previous_output = tx.input[j].previous_output => i = j
  /\ segwit \in SUBSET Inputs
  /\ requests = << >>
  /\ signed = {}
  /\ status = "live"

Panic ==
  /\ status' = "panicked"
  /\ UNCHANGED <<tx, segwit, requests, signed>>

Request(i, is_segwit, payload) ==
  /\ requests' = Append(requests, [input |-> i, segwit |-> is_segwit,
                                   payload |-> payload])
  /\ UNCHANGED <<tx, segwit, signed, status>>

\* The caller drops the bytes it is given, or sends them to the network.
Return(bytes, t) ==
  status' \in {"live"} \cup (IF MayBroadcast(t) THEN {Verdict(bytes)} ELSE {})

\* The caller writes the public field script_sig.
AssignScriptSig(i, script_sig) ==
  /\ MayAssign(i, script_sig)
  /\ tx' = WithScriptSig(tx, i, script_sig)
  /\ UNCHANGED <<segwit, requests, signed, status>>

BuildForSigningLegacy(i) ==
  /\ MayRequest(i)
  /\ Collect => i \notin segwit /\ tx.input[i].script_sig = Code
  /\ Len(requests) < MaxRequests
  /\ Request(i, FALSE, LegacyPreimage(tx))

BuildForSigningSegwit(i) ==
  /\ MayRequest(i)
  /\ Collect => i \in segwit
  /\ Len(requests) < MaxRequests
  /\ \/ /\ tx.version # 2 \/ i \notin Inputs
        /\ Panic
     \/ /\ tx.version = 2 /\ i \in Inputs
        /\ Request(i, TRUE, SegwitPreimage(tx, i, Code, Value))

\* The signer answers any request it has not answered yet.
SignerResponds(k) ==
  /\ status = "live"
  /\ k \in DOMAIN requests \ signed
  /\ signed' = signed \cup {k}
  /\ UNCHANGED <<tx, segwit, requests, status>>

BuildWithScriptSig(i, script_sig, tx_type) ==
  /\ MayAttach(i, script_sig, tx_type)
  /\ Collect => i \notin segwit
  /\ \/ /\ tx_type \notin LegacyTypes \/ i \notin Inputs
        /\ Panic
     \/ /\ tx_type \in LegacyTypes /\ i \in Inputs
        /\ tx' = WithScriptSig(tx, i, script_sig)
        /\ Return(Encode(tx'), tx')
        /\ UNCHANGED <<segwit, requests, signed>>

BuildWithWitness(i, witness, tx_type) ==
  /\ MayAttach(i, witness, tx_type)
  /\ Collect => i \in segwit
  /\ \/ /\ tx_type \notin SegwitTypes \/ i \notin Inputs
        /\ Panic
     \/ /\ tx_type \in SegwitTypes /\ i \in Inputs
        /\ tx' = WithWitness(tx, i, witness)
        /\ Return(Encode(tx'), tx')
        /\ UNCHANGED <<segwit, requests, signed>>

Serialize ==
  /\ Return(Encode(tx), tx)
  /\ UNCHANGED <<tx, segwit, requests, signed>>

-----------------------------------------------------------------------------

\* What build_with_* can be given: any answer, or nothing.
Attachable == {Empty} \cup {Sig(k) : k \in signed}

\* An index one past the end stands for every index out of range.
Indexes == 1 .. NumInputs + 1

CallerStep ==
  /\ status = "live"
  /\ \/ \E i \in Inputs, s \in {Empty, Code} : AssignScriptSig(i, s)
     \/ \E i \in Inputs : BuildForSigningLegacy(i)
     \/ \E i \in Indexes : BuildForSigningSegwit(i)
     \/ \E i \in Indexes, s \in Attachable, ty \in TransactionType :
          BuildWithScriptSig(i, s, ty)
     \/ \E i \in Indexes, s \in Attachable, ty \in TransactionType :
          BuildWithWitness(i, s, ty)
     \/ Serialize

SignerStep == \E k \in Requests : SignerResponds(k)

\* The session is over.
Finished == status \in Terminal /\ UNCHANGED vars

Next == CallerStep \/ SignerStep \/ Finished

Spec == Init /\ [][Next]_vars

\* The caller, a sequential program, goes on; the signer answers in the end.
Fairness == /\ WF_vars(CallerStep)
            /\ \A k \in Requests : WF_vars(SignerResponds(k))

FairSpec == Spec /\ Fairness

-----------------------------------------------------------------------------

\* Every variable holds a value of its type; the signer has answered only
\* what it was asked.
TypeOK ==
  /\ tx \in Transaction
  /\ segwit \in SUBSET Inputs
  /\ requests \in Seq(SignRequest)
  /\ Len(requests) <= MaxRequests
  /\ signed \in SUBSET DOMAIN requests
  /\ status \in Terminal \cup {"live"}

\* A segwit preimage taken while no input had a witness is the BIP-143
\* preimage of the transaction as it stands NOW: no later call, on this
\* input or another, in any order, makes an outstanding signature void.
SegwitPayloadsCommitted ==
  \A k \in DOMAIN requests :
    requests[k].segwit /\ ~requests[k].payload.marker =>
      requests[k].payload = Bip143(tx, requests[k].input, Code, Value)

\* The caller took the legacy preimage with the script code in the input it
\* is for, nothing in the others, and no witness anywhere.
Blanked(r) ==
  /\ ~r.segwit
  /\ ~r.payload.tx.marker
  /\ \A j \in Inputs :
       r.payload.tx.input[j].script_sig = IF j = r.input THEN Code ELSE Empty

\* Such a legacy preimage, too, stays the one the network computes from the
\* transaction, whatever is attached to it afterwards.
LegacyPayloadsCommitted ==
  \A k \in DOMAIN requests :
    Blanked(requests[k]) =>
      requests[k].payload = LegacySighash(tx, requests[k].input, Code)

\* Whatever a step attaches, an input it leaves alone that the network would
\* take before it, the network takes after it.
AttachIsLocal ==
  [][\A j \in Inputs : tx'.input[j] = tx.input[j] /\ Spends(tx, j)
                       => Spends(tx, j)']_vars

\* The caller that collects is never refused, for any mix of legacy and
\* segwit inputs and any order of answers.
NeverRejected == status # "rejected"

\* Its session implements the ideal one: the inputs the network would take
\* only grow, and a panic comes before any signature is attached.
Ideal == INSTANCE IdealSigning WITH
  valid <- {i \in Inputs : Spends(tx, i)},
  outcome <- IF status = "live" THEN "open"
             ELSE IF status = "panicked" THEN "aborted" ELSE status

ImplementsIdeal == Ideal!Spec

\* If the signer answers, the session of the caller that collects ends.
Termination == <>(status \in Terminal)

\* What the tests assert of every preimage they take: it is the one
\* rust-bitcoin builds for the same transaction and input.
SegwitPreimageIsBip143 ==
  \A k \in DOMAIN requests :
    requests[k].segwit =>
      requests[k].payload = Bip143(tx, requests[k].input, Code, Value)
=============================================================================
