------------------------ MODULE BitcoinSigningProofs ------------------------
(***************************************************************************)
(* Safety of BitcoinSigning for any number of inputs and requests.         *)
(*                                                                         *)
(* The argument: no call of the library changes what a digest is computed  *)
(* from (SameButScripts), requests are only appended, and what is appended *)
(* is the digest of the transaction at that moment.                        *)
(*                                                                         *)
(* For a caller that collects, each request is moreover the digest a node  *)
(* will recompute, at most one script is a code, and what is attached is   *)
(* the answer to such a request (CollectInv): so the network accepts the   *)
(* transaction, and the session is one of IdealSigning.                    *)
(***************************************************************************)
EXTENDS BitcoinSigning, SequenceTheorems, TLAPS

\* t and u agree on everything a sighash commits to.
SameButScripts(t, u) ==
  /\ u.version = t.version
  /\ u.lock_time = t.lock_time
  /\ u.output = t.output
  /\ DOMAIN u.input = DOMAIN t.input
  /\ \A j \in DOMAIN t.input :
       /\ u.input[j].previous_output = t.input[j].previous_output
       /\ u.input[j].sequence = t.input[j].sequence

-----------------------------------------------------------------------------
(* The operators the actions are built from.                               *)

\* A type test for the fields of a transaction.
LEMMA TransactionFields ==
  ASSUME NEW t \in Transaction
  PROVE  /\ t.version \in Version
         /\ t.lock_time \in LockTimes
         /\ t.output \in Outputs
         /\ t.input \in [Inputs -> TxIn]
         /\ DOMAIN t.input = Inputs
         /\ \A j \in Inputs : /\ t.input[j].previous_output \in OutPoints
                              /\ t.input[j].script_sig \in Script
                              /\ t.input[j].sequence \in Sequences
                              /\ t.input[j].witness \in Script
  BY DEF Transaction, TxIn

\* The two assignments of build_with_* keep the type of the transaction and
\* everything a digest commits to, and touch one field of one input.
LEMMA WithScriptSigEffect ==
  ASSUME NEW t \in Transaction, NEW i \in Inputs, NEW s \in Script
  PROVE  /\ WithScriptSig(t, i, s) \in Transaction
         /\ SameButScripts(t, WithScriptSig(t, i, s))
         /\ \A j \in Inputs :
              /\ WithScriptSig(t, i, s).input[j].script_sig
                   = IF j = i THEN s ELSE t.input[j].script_sig
              /\ WithScriptSig(t, i, s).input[j].witness = t.input[j].witness
<1> DEFINE in == [t.input[i] EXCEPT !.script_sig = s]
           u == [t.input EXCEPT ![i] = in]
<1>1. /\ in \in TxIn
      /\ in.previous_output = t.input[i].previous_output
      /\ in.sequence = t.input[i].sequence
      /\ in.script_sig = s /\ in.witness = t.input[i].witness
  BY TransactionFields DEF Transaction, TxIn
<1>2. u \in [Inputs -> TxIn]
  BY <1>1, TransactionFields
<1>3. WithScriptSig(t, i, s) = [t EXCEPT !.input = u]
  BY DEF WithScriptSig
<1>4. [t EXCEPT !.input = u] \in Transaction
  BY <1>2, TransactionFields DEF Transaction
<1>5. \A j \in Inputs : /\ u[j].previous_output = t.input[j].previous_output
                        /\ u[j].sequence = t.input[j].sequence
  BY <1>1, TransactionFields
<1>6. SameButScripts(t, [t EXCEPT !.input = u])
  <2> DEFINE w == [t EXCEPT !.input = u]
  <2>1. /\ w.version = t.version /\ w.lock_time = t.lock_time
        /\ w.output = t.output /\ w.input = u
    BY DEF Transaction
  <2> HIDE DEF w
  <2>2. DOMAIN u = Inputs
    BY <1>2
  <2> HIDE DEF u
  <2> QED  BY <2>1, <2>2, <1>5, TransactionFields DEF SameButScripts
<1>7. \A j \in Inputs : /\ u[j].script_sig = IF j = i THEN s ELSE t.input[j].script_sig
                        /\ u[j].witness = t.input[j].witness
  BY <1>1, TransactionFields
<1>8. [t EXCEPT !.input = u].input = u
  BY DEF Transaction
<1> HIDE DEF u
<1> QED  BY <1>3, <1>4, <1>6, <1>7, <1>8

LEMMA WithWitnessEffect ==
  ASSUME NEW t \in Transaction, NEW i \in Inputs, NEW s \in Script
  PROVE  /\ WithWitness(t, i, s) \in Transaction
         /\ SameButScripts(t, WithWitness(t, i, s))
         /\ \A j \in Inputs :
              /\ WithWitness(t, i, s).input[j].witness
                   = IF j = i THEN s ELSE t.input[j].witness
              /\ WithWitness(t, i, s).input[j].script_sig = t.input[j].script_sig
<1> DEFINE in == [t.input[i] EXCEPT !.witness = s]
           u == [t.input EXCEPT ![i] = in]
<1>1. /\ in \in TxIn
      /\ in.previous_output = t.input[i].previous_output
      /\ in.sequence = t.input[i].sequence
      /\ in.witness = s /\ in.script_sig = t.input[i].script_sig
  BY TransactionFields DEF Transaction, TxIn
<1>2. u \in [Inputs -> TxIn]
  BY <1>1, TransactionFields
<1>3. WithWitness(t, i, s) = [t EXCEPT !.input = u]
  BY DEF WithWitness
<1>4. [t EXCEPT !.input = u] \in Transaction
  BY <1>2, TransactionFields DEF Transaction
<1>5. \A j \in Inputs : /\ u[j].previous_output = t.input[j].previous_output
                        /\ u[j].sequence = t.input[j].sequence
  BY <1>1, TransactionFields
<1>6. SameButScripts(t, [t EXCEPT !.input = u])
  <2> DEFINE w == [t EXCEPT !.input = u]
  <2>1. /\ w.version = t.version /\ w.lock_time = t.lock_time
        /\ w.output = t.output /\ w.input = u
    BY DEF Transaction
  <2> HIDE DEF w
  <2>2. DOMAIN u = Inputs
    BY <1>2
  <2> HIDE DEF u
  <2> QED  BY <2>1, <2>2, <1>5, TransactionFields DEF SameButScripts
<1>7. \A j \in Inputs : /\ u[j].witness = IF j = i THEN s ELSE t.input[j].witness
                        /\ u[j].script_sig = t.input[j].script_sig
  BY <1>1, TransactionFields
<1>8. [t EXCEPT !.input = u].input = u
  BY DEF Transaction
<1> HIDE DEF u
<1> QED  BY <1>3, <1>4, <1>6, <1>7, <1>8

\* What encode writes has the type of an encoded transaction.
LEMMA EncodeType ==
  ASSUME NEW t \in Transaction
  PROVE  Encode(t) \in EncodedTx
<1>1. \A j \in Inputs : EncodeTxIn(t.input[j]) \in EncodedTxIn
  BY TransactionFields DEF EncodeTxIn, EncodedTxIn
<1>2. UsesSegwitSerialization(t) \in BOOLEAN
  BY DEF UsesSegwitSerialization, HasWitness
<1> QED  BY <1>1, <1>2, TransactionFields DEF Encode, EncodedTx, Empty

LEMMA LegacyPreimageType ==
  ASSUME NEW t \in Transaction
  PROVE  LegacyPreimage(t) \in LegacyPayload
  BY EncodeType DEF LegacyPreimage, LegacyPayload

LEMMA SegwitPreimageType ==
  ASSUME NEW t \in Transaction, NEW i \in Inputs
  PROVE  SegwitPreimage(t, i, Code, Value) \in SegwitPayload
<1>1. HasWitness(t) \in BOOLEAN
  BY DEF HasWitness
<1> QED  BY <1>1, TransactionFields DEF SegwitPreimage, SegwitPayload

-----------------------------------------------------------------------------
(* One step.                                                               *)

\* A request appended to a well-typed transaction's requests.
Appended(r) ==
  /\ tx' = tx
  /\ requests' = Append(requests, r)
  /\ r \in SignRequest
  /\ \/ r = [input |-> r.input, segwit |-> FALSE, payload |-> LegacyPreimage(tx)]
     \/ r = [input |-> r.input, segwit |-> TRUE,
             payload |-> SegwitPreimage(tx, r.input, Code, Value)]

\* The signer has answered requests within the bound, so what a caller can
\* attach has the type of a script.
LEMMA AttachableIsScript ==
  ASSUME TypeOK
  PROVE  /\ DOMAIN requests = 1 .. Len(requests)
         /\ DOMAIN requests \subseteq Requests
         /\ Attachable \subseteq Script
<1>1. DOMAIN requests = 1 .. Len(requests) /\ Len(requests) \in Nat
  BY LenProperties DEF TypeOK
<1>2. DOMAIN requests \subseteq Requests
  BY <1>1, SizeAssumption DEF TypeOK, Requests
<1>3. signed \subseteq Requests
  BY <1>2 DEF TypeOK
<1> QED  BY <1>1, <1>2, <1>3 DEF Attachable, Script

\* Every step either asks for one more preimage and leaves the transaction
\* as it is, or leaves the requests as they are and what they commit to.
LEMMA StepShape ==
  ASSUME TypeOK, [Next]_vars
  PROVE  /\ tx' \in Transaction
         /\ SameButScripts(tx, tx')
         /\ \/ requests' = requests
            \/ signed' = signed /\ Len(requests) < MaxRequests
                 /\ \E r \in SignRequest : Appended(r)
<1> USE DEF TypeOK
<1>0. SameButScripts(tx, tx)
  BY DEF SameButScripts
<1>1. ASSUME UNCHANGED vars  PROVE TRUE /\ tx' = tx /\ requests' = requests
  BY <1>1 DEF vars
<1>2. ASSUME NEW i \in Inputs, NEW s \in {Empty, Code}, AssignScriptSig(i, s)
      PROVE  /\ tx' \in Transaction /\ SameButScripts(tx, tx')
             /\ requests' = requests
  <2>1. s \in Script
    BY DEF Script
  <2> QED  BY <1>2, <2>1, WithScriptSigEffect DEF AssignScriptSig
<1>3. ASSUME NEW i \in Inputs, BuildForSigningLegacy(i)
      PROVE  /\ tx' = tx /\ signed' = signed /\ Len(requests) < MaxRequests
             /\ \E r \in SignRequest : Appended(r)
  <2> DEFINE r == [input |-> i, segwit |-> FALSE, payload |-> LegacyPreimage(tx)]
  <2>1. r \in SignRequest
    BY LegacyPreimageType DEF SignRequest
  <2>2. Appended(r)
    BY <1>3, <2>1 DEF Appended, BuildForSigningLegacy, Request
  <2> QED  BY <1>3, <2>1, <2>2 DEF BuildForSigningLegacy, Request
<1>4. ASSUME NEW i \in Indexes, BuildForSigningSegwit(i)
      PROVE  /\ tx' = tx /\ signed' = signed
             /\ \/ requests' = requests
                \/ /\ Len(requests) < MaxRequests
                   /\ \E r \in SignRequest : Appended(r)
  <2> DEFINE r == [input |-> i, segwit |-> TRUE,
                   payload |-> SegwitPreimage(tx, i, Code, Value)]
  <2>1. CASE Panic
    BY <2>1 DEF Panic
  <2>2. CASE i \in Inputs /\ Request(i, TRUE, SegwitPreimage(tx, i, Code, Value))
    <3>1. r \in SignRequest
      BY <2>2, SegwitPreimageType DEF SignRequest
    <3>2. Appended(r)
      BY <2>2, <3>1 DEF Appended, Request
    <3> QED  BY <1>4, <2>2, <3>1, <3>2 DEF BuildForSigningSegwit, Request
  <2> QED  BY <1>4, <2>1, <2>2 DEF BuildForSigningSegwit
<1>5. ASSUME NEW i \in Indexes, NEW s \in Attachable, NEW ty \in TransactionType,
             BuildWithScriptSig(i, s, ty)
      PROVE  /\ tx' \in Transaction /\ SameButScripts(tx, tx')
             /\ requests' = requests
  <2>1. s \in Script
    BY AttachableIsScript
  <2>2. CASE Panic
    BY <2>2, <1>0 DEF Panic
  <2>3. CASE i \in Inputs /\ tx' = WithScriptSig(tx, i, s) /\ requests' = requests
    BY <2>1, <2>3, WithScriptSigEffect
  <2> QED  BY <1>5, <2>2, <2>3 DEF BuildWithScriptSig
<1>6. ASSUME NEW i \in Indexes, NEW s \in Attachable, NEW ty \in TransactionType,
             BuildWithWitness(i, s, ty)
      PROVE  /\ tx' \in Transaction /\ SameButScripts(tx, tx')
             /\ requests' = requests
  <2>1. s \in Script
    BY AttachableIsScript
  <2>2. CASE Panic
    BY <2>2, <1>0 DEF Panic
  <2>3. CASE i \in Inputs /\ tx' = WithWitness(tx, i, s) /\ requests' = requests
    BY <2>1, <2>3, WithWitnessEffect
  <2> QED  BY <1>6, <2>2, <2>3 DEF BuildWithWitness
<1>7. ASSUME Serialize  PROVE tx' = tx /\ requests' = requests
  BY <1>7 DEF Serialize
<1>8. ASSUME SignerStep  PROVE tx' = tx /\ requests' = requests
  BY <1>8 DEF SignerStep, SignerResponds
<1>9. ASSUME CallerStep
      PROVE  \/ \E i \in Inputs, s \in {Empty, Code} : AssignScriptSig(i, s)
             \/ \E i \in Inputs : BuildForSigningLegacy(i)
             \/ \E i \in Indexes : BuildForSigningSegwit(i)
             \/ \E i \in Indexes, s \in Attachable, ty \in TransactionType :
                  BuildWithScriptSig(i, s, ty)
             \/ \E i \in Indexes, s \in Attachable, ty \in TransactionType :
                  BuildWithWitness(i, s, ty)
             \/ Serialize
  BY <1>9 DEF CallerStep
<1> HIDE DEF TypeOK
<1>10. CASE CallerStep
  BY <1>0, <1>2, <1>3, <1>4, <1>5, <1>6, <1>7, <1>9, <1>10 DEF TypeOK
<1>11. CASE ~CallerStep
  BY <1>0, <1>1, <1>8, <1>11 DEF TypeOK, Next, Finished
<1> QED  BY <1>10, <1>11

\* After a step, a request is an old one or the digest of the present moment.
LEMMA StepRequests ==
  ASSUME TypeOK, [Next]_vars, NEW k \in DOMAIN requests'
  PROVE  \/ k \in DOMAIN requests /\ requests'[k] = requests[k]
         \/ /\ tx' = tx
            /\ requests'[k].input \in Inputs
            /\ \/ /\ requests'[k].segwit = FALSE
                  /\ requests'[k].payload = LegacyPreimage(tx)
               \/ /\ requests'[k].segwit = TRUE
                  /\ requests'[k].payload =
                       SegwitPreimage(tx, requests'[k].input, Code, Value)
<1>1. CASE requests' = requests
  BY <1>1
<1>2. ASSUME NEW r \in SignRequest, Appended(r)
      PROVE  \/ k \in DOMAIN requests /\ requests'[k] = requests[k]
             \/ requests'[k] = r
  BY <1>2, AppendProperties DEF Appended, TypeOK
<1>3. ASSUME NEW r \in SignRequest, Appended(r), requests'[k] = r
      PROVE  /\ tx' = tx
             /\ r.input \in Inputs
             /\ \/ r.segwit = FALSE /\ r.payload = LegacyPreimage(tx)
                \/ /\ r.segwit = TRUE
                   /\ r.payload = SegwitPreimage(tx, r.input, Code, Value)
  BY <1>3 DEF Appended, SignRequest
<1> QED  BY <1>1, <1>2, <1>3, StepShape

LEMMA StepTypeOK == TypeOK /\ [Next]_vars => TypeOK'
<1> SUFFICES ASSUME TypeOK, [Next]_vars PROVE TypeOK'
  OBVIOUS
<1>1. tx' \in Transaction
  BY StepShape
<1>2. /\ requests' \in Seq(SignRequest)
      /\ Len(requests') <= MaxRequests
      /\ DOMAIN requests \subseteq DOMAIN requests'
  <2>1. CASE requests' = requests
    BY <2>1 DEF TypeOK
  <2>2. ASSUME NEW r \in SignRequest, Appended(r), Len(requests) < MaxRequests
        PROVE  <1>2!:
    <3>1. /\ requests' \in Seq(SignRequest)
          /\ Len(requests') = Len(requests) + 1
      BY <2>2, AppendProperties DEF Appended, TypeOK
    <3> QED  BY <2>2, <3>1, LenProperties, SizeAssumption DEF TypeOK
  <2> QED  BY <2>1, <2>2, StepShape
<1>3. segwit' = segwit
  BY DEF Next, vars, CallerStep, SignerStep, Finished, AssignScriptSig,
         BuildForSigningLegacy, BuildForSigningSegwit, BuildWithScriptSig,
         BuildWithWitness, Serialize, SignerResponds, Request, Panic
<1>4. signed' \in SUBSET DOMAIN requests
  BY DEF TypeOK, Next, vars, CallerStep, SignerStep, Finished, AssignScriptSig,
         BuildForSigningLegacy, BuildForSigningSegwit, BuildWithScriptSig,
         BuildWithWitness, Serialize, SignerResponds, Request, Panic
<1>5. status' \in Terminal \cup {"live"}
  BY DEF TypeOK, Next, vars, CallerStep, SignerStep, Finished, AssignScriptSig,
         BuildForSigningLegacy, BuildForSigningSegwit, BuildWithScriptSig,
         BuildWithWitness, Serialize, SignerResponds, Request, Panic,
         Return, Verdict, Terminal
<1> QED  BY <1>1, <1>2, <1>3, <1>4, <1>5 DEF TypeOK

\* Type correctness of every session, collecting or not.
THEOREM TypeCorrect == Spec => []TypeOK
<1>1. Init => TypeOK
  BY SizeAssumption, EmptySeq DEF Init, TypeOK
<1> QED  BY <1>1, StepTypeOK, PTL DEF Spec

-----------------------------------------------------------------------------
(* Outstanding preimages.                                                  *)

\* No step changes the digest of any input.
LEMMA StepDigests ==
  ASSUME TypeOK, [Next]_vars, NEW i \in Inputs
  PROVE  /\ Bip143(tx', i, Code, Value) = Bip143(tx, i, Code, Value)
         /\ LegacySighash(tx', i, Code) = LegacySighash(tx, i, Code)
<1>1. SameButScripts(tx, tx')
  BY StepShape
<1>2. i \in DOMAIN tx.input
  BY TransactionFields DEF TypeOK
<1> QED  BY <1>1, <1>2 DEF SameButScripts, Bip143, LegacySighash

LEMMA RequestInput ==
  ASSUME TypeOK, NEW k \in DOMAIN requests
  PROVE  requests[k].input \in Inputs
<1>1. requests[k] \in SignRequest
  BY ElementOfSeq, LenProperties DEF TypeOK
<1> QED  BY <1>1 DEF SignRequest

\* A segwit preimage without marker is the BIP-143 preimage.
LEMMA UnmarkedPreimage ==
  ASSUME NEW i, ~SegwitPreimage(tx, i, Code, Value).marker
  PROVE  SegwitPreimage(tx, i, Code, Value) = Bip143(tx, i, Code, Value)
<1>1. HasWitness(tx) = FALSE
  BY DEF SegwitPreimage, HasWitness
<1> QED  BY <1>1 DEF SegwitPreimage, Bip143

\* Every segwit preimage taken before a witness is attached stays the one
\* the network computes: later calls cannot void a signature.
THEOREM SegwitCommitment == Spec => []SegwitPayloadsCommitted
<1>1. Init => SegwitPayloadsCommitted
  BY DEF Init, SegwitPayloadsCommitted
<1>2. TypeOK /\ SegwitPayloadsCommitted /\ [Next]_vars => SegwitPayloadsCommitted'
  <2> SUFFICES ASSUME TypeOK, SegwitPayloadsCommitted, [Next]_vars,
                      NEW k \in DOMAIN requests',
                      requests'[k].segwit, ~requests'[k].payload.marker
               PROVE  requests'[k].payload
                        = Bip143(tx', requests'[k].input, Code, Value)
    BY DEF SegwitPayloadsCommitted
  <2>1. CASE k \in DOMAIN requests /\ requests'[k] = requests[k]
    <3>1. Bip143(tx', requests[k].input, Code, Value)
            = Bip143(tx, requests[k].input, Code, Value)
      BY <2>1, RequestInput, StepDigests
    <3> QED  BY <2>1, <3>1 DEF SegwitPayloadsCommitted
  <2>2. CASE /\ tx' = tx
             /\ requests'[k].payload =
                  SegwitPreimage(tx, requests'[k].input, Code, Value)
    BY <2>2, UnmarkedPreimage
  <2> QED  BY <2>1, <2>2, StepRequests
<1> QED  BY <1>1, <1>2, TypeCorrect, PTL DEF Spec

\* A legacy preimage taken blanked is the legacy digest.
LEMMA BlankedPreimage ==
  ASSUME TypeOK, NEW r, r.payload = LegacyPreimage(tx), r.input \in Inputs,
         Blanked(r)
  PROVE  r.payload = LegacySighash(tx, r.input, Code)
<1>1. UsesSegwitSerialization(tx) = FALSE
  <2>1. LegacyPreimage(tx).tx.marker = UsesSegwitSerialization(tx)
    BY DEF LegacyPreimage, Encode
  <2>2. UsesSegwitSerialization(tx) \in BOOLEAN
    BY DEF UsesSegwitSerialization, HasWitness
  <2>3. ~LegacyPreimage(tx).tx.marker
    BY DEF Blanked
  <2> QED  BY <2>1, <2>2, <2>3
<1>2. DOMAIN tx.input = Inputs
  BY TransactionFields DEF TypeOK
<1>3. \A j \in Inputs :
        tx.input[j].script_sig = IF j = r.input THEN Code ELSE Empty
  BY <1>2 DEF Blanked, LegacyPreimage, Encode, EncodeTxIn
<1>4. \A j \in Inputs :
        EncodeTxIn(tx.input[j]) =
          [previous_output |-> tx.input[j].previous_output,
           script_sig      |-> IF j = r.input THEN Code ELSE Empty,
           sequence        |-> tx.input[j].sequence]
  BY <1>3 DEF EncodeTxIn
<1> QED  BY <1>1, <1>2, <1>4 DEF LegacyPreimage, LegacySighash, Encode

\* The same for every legacy preimage taken with the other scripts blank.
THEOREM LegacyCommitment == Spec => []LegacyPayloadsCommitted
<1>1. Init => LegacyPayloadsCommitted
  BY DEF Init, LegacyPayloadsCommitted
<1>2. TypeOK /\ LegacyPayloadsCommitted /\ [Next]_vars => LegacyPayloadsCommitted'
  <2> SUFFICES ASSUME TypeOK, LegacyPayloadsCommitted, [Next]_vars,
                      NEW k \in DOMAIN requests', Blanked(requests'[k])
               PROVE  requests'[k].payload
                        = LegacySighash(tx', requests'[k].input, Code)
    BY DEF LegacyPayloadsCommitted, Blanked
  <2>1. CASE k \in DOMAIN requests /\ requests'[k] = requests[k]
    <3>1. LegacySighash(tx', requests[k].input, Code)
            = LegacySighash(tx, requests[k].input, Code)
      BY <2>1, RequestInput, StepDigests
    <3> QED  BY <2>1, <3>1 DEF LegacyPayloadsCommitted
  <2>2. CASE /\ tx' = tx
             /\ requests'[k].input \in Inputs
             /\ requests'[k].payload = LegacyPreimage(tx)
    BY <2>2, BlankedPreimage
  <2>3. requests'[k].segwit # TRUE
    BY DEF Blanked
  <2> QED  BY <2>1, <2>2, <2>3, StepRequests
<1> QED  BY <1>1, <1>2, TypeCorrect, PTL DEF Spec

-----------------------------------------------------------------------------
(* Attached signatures.                                                    *)

\* Requests and answers are kept.
LEMMA StepKeepsAnswers ==
  ASSUME TypeOK, [Next]_vars
  PROVE  /\ segwit' = segwit
         /\ signed \subseteq signed'
         /\ \A k \in DOMAIN requests : k \in DOMAIN requests'
                                       /\ requests'[k] = requests[k]
<1>1. segwit' = segwit /\ signed \subseteq signed'
  BY DEF Next, vars, CallerStep, SignerStep, Finished, AssignScriptSig,
         BuildForSigningLegacy, BuildForSigningSegwit, BuildWithScriptSig,
         BuildWithWitness, Serialize, SignerResponds, Request, Panic
<1>2. ASSUME NEW r \in SignRequest, Appended(r), NEW k \in DOMAIN requests
      PROVE  k \in DOMAIN requests' /\ requests'[k] = requests[k]
  BY <1>2, AppendProperties, LenProperties DEF Appended, TypeOK
<1> QED  BY <1>1, <1>2, StepShape

\* Attaching to one input never takes another input's signature away.
THEOREM AttachingIsLocal == Spec => AttachIsLocal
<1>1. ASSUME TypeOK, [Next]_vars, NEW j \in Inputs,
             tx'.input[j] = tx.input[j], Spends(tx, j)
      PROVE  Spends(tx, j)'
  <2>1. /\ Bip143(tx', j, Code, Value) = Bip143(tx, j, Code, Value)
        /\ LegacySighash(tx', j, Code) = LegacySighash(tx, j, Code)
    BY <1>1, StepDigests
  <2>2. \A k \in signed : k \in signed' /\ requests'[k] = requests[k]
    BY <1>1, StepKeepsAnswers DEF TypeOK
  <2>3. segwit' = segwit
    BY <1>1, StepKeepsAnswers
  <2> QED  BY <1>1, <2>1, <2>2, <2>3 DEF Spends
<1>2. TypeOK /\ [Next]_vars =>
        [\A j \in Inputs : tx'.input[j] = tx.input[j] /\ Spends(tx, j)
                           => Spends(tx, j)']_vars
  BY <1>1
<1> QED  BY <1>2, TypeCorrect, PTL DEF Spec, AttachIsLocal

-----------------------------------------------------------------------------
(* The caller that collects: what is true of its session at any moment.    *)

\* The answer to a request for input i stands where i's signature belongs.
Answered(i) ==
  \E k \in signed :
    /\ requests[k].input = i
    /\ Sig(k) = IF i \in segwit THEN tx.input[i].witness
                                ELSE tx.input[i].script_sig

\* Every preimage asked for is the one the network computes.
RequestsMeant ==
  \A k \in DOMAIN requests :
    requests[k].payload =
      IF requests[k].input \in segwit
      THEN Bip143(tx, requests[k].input, Code, Value)
      ELSE LegacySighash(tx, requests[k].input, Code)

\* An input holds nothing but its own answer and, before that, the script
\* code of a legacy input.
ScriptsMeant ==
  \A i \in Inputs :
    \/ /\ i \in segwit
       /\ tx.input[i].script_sig = Empty
       /\ tx.input[i].witness = Empty \/ Answered(i)
    \/ /\ i \notin segwit
       /\ tx.input[i].witness = Empty
       /\ tx.input[i].script_sig \in {Empty, Code} \/ Answered(i)

\* Every preimage is taken before the first answer is attached.
CollectedFirst ==
  (\E i \in Inputs : Answered(i)) => \A j \in Inputs : Requested(j)

OneCode ==
  \A i, j \in Inputs :
    tx.input[i].script_sig = Code /\ tx.input[j].script_sig = Code => i = j

StatusMeant ==
  /\ status # "rejected"
  /\ status = "accepted" => \A i \in Inputs : Answered(i)
  /\ status = "panicked" => \A i \in Inputs : ~Answered(i)

CollectInv == /\ RequestsMeant
              /\ ScriptsMeant
              /\ CollectedFirst
              /\ OneCode
              /\ StatusMeant

-----------------------------------------------------------------------------
(* Scripts, and what the network makes of them.                            *)

\* A signature is not the script code, not empty, and names one request.
LEMMA ScriptsDiffer ==
  /\ Code # Empty
  /\ \A k \in Requests : Sig(k) # Empty /\ Sig(k) # Code
  /\ \A k, m \in Requests : Sig(k) = Sig(m) => k = m
<1>1. \A k, m \in Requests : Sig(k) = Sig(m) => k = m
  BY DEF Sig
<1>2. \A k \in Requests : Sig(k) # Empty
  BY DEF Sig, Empty
<1> QED  BY <1>1, <1>2, CodeAssumption

\* The network reads the transaction that was written: the witnesses that
\* the format without marker leaves out are empty.
LEMMA ReceivedWhole ==
  ASSUME NEW t \in Transaction
  PROVE  /\ Received(Encode(t)) = t
         /\ DOMAIN Encode(t).input = Inputs
         /\ Encode(t).marker => \E j \in DOMAIN Encode(t).witness :
                                  Encode(t).witness[j] # Empty
<1> DEFINE w == Encode(t)
<1>1. DOMAIN t.input = Inputs /\ 1 \in Inputs
  BY TransactionFields, SizeAssumption DEF Inputs
<1>2. w.marker <=> \E j \in Inputs : t.input[j].witness # Empty
  <2>1. UsesSegwitSerialization(t) <=> \E j \in Inputs : t.input[j].witness # Empty
    BY <1>1 DEF UsesSegwitSerialization, HasWitness
  <2>2. w.marker = UsesSegwitSerialization(t)
    BY DEF Encode
  <2> QED  BY <2>1, <2>2
<1>3. /\ w.version = t.version
      /\ w.lock_time = t.lock_time
      /\ w.output = t.output
      /\ w.input = [j \in Inputs |-> EncodeTxIn(t.input[j])]
  BY <1>1 DEF Encode
<1>4. w.marker => w.witness = [j \in Inputs |-> t.input[j].witness]
  BY <1>1 DEF Encode
<1> HIDE DEF w
<1>5. DOMAIN w.input = Inputs
  BY <1>3
<1>6. \A j \in Inputs : /\ w.input[j].previous_output = t.input[j].previous_output
                        /\ w.input[j].script_sig = t.input[j].script_sig
                        /\ w.input[j].sequence = t.input[j].sequence
  BY <1>3 DEF EncodeTxIn
<1>7. \A j \in Inputs :
        (IF w.marker THEN w.witness[j] ELSE Empty) = t.input[j].witness
  BY <1>2, <1>4
<1> DEFINE in == [j \in DOMAIN w.input |->
                    [previous_output |-> w.input[j].previous_output,
                     script_sig      |-> w.input[j].script_sig,
                     sequence        |-> w.input[j].sequence,
                     witness         |-> IF w.marker THEN w.witness[j] ELSE Empty]]
<1>8. \A j \in Inputs : in[j] = t.input[j]
  <2> TAKE j \in Inputs
  <2>1. t.input[j] = [previous_output |-> t.input[j].previous_output,
                      script_sig      |-> t.input[j].script_sig,
                      sequence        |-> t.input[j].sequence,
                      witness         |-> t.input[j].witness]
    BY TransactionFields DEF TxIn
  <2>2. in[j] = [previous_output |-> t.input[j].previous_output,
                 script_sig      |-> t.input[j].script_sig,
                 sequence        |-> t.input[j].sequence,
                 witness         |-> t.input[j].witness]
    BY <1>5, <1>6, <1>7
  <2> QED  BY <2>1, <2>2
<1>9. in = t.input
  BY <1>5, <1>8, TransactionFields
<1>10. Received(w) = t
  <2>1. Received(w) = [version |-> t.version, lock_time |-> t.lock_time,
                       input |-> in, output |-> t.output]
    BY <1>3 DEF Received
  <2> HIDE DEF in
  <2> QED  BY <2>1, <1>9 DEF Transaction
<1>11. w.marker => \E j \in DOMAIN w.witness : w.witness[j] # Empty
  BY <1>2, <1>4
<1> QED  BY <1>5, <1>10, <1>11 DEF w

\* The network takes a transaction once it would take every input.
LEMMA AcceptedWhenSpendable ==
  ASSUME NEW t \in Transaction, \A i \in Inputs : Spends(t, i)
  PROVE  Verdict(Encode(t)) = "accepted"
BY ReceivedWhole DEF Accepts, Verdict

\* In a session that collects, the network would take an input exactly when
\* its own answer stands in it, and then nothing else does.
LEMMA SpendsIsAnswered ==
  ASSUME TypeOK, RequestsMeant, ScriptsMeant, NEW i \in Inputs
  PROVE  /\ Spends(tx, i) <=> Answered(i)
         /\ Attached(tx, i) <=> Answered(i)
<1>1. signed \subseteq DOMAIN requests /\ signed \subseteq Requests
  BY AttachableIsScript DEF TypeOK
<1>2. CASE i \in segwit
  <2>1. Answered(i) => Spends(tx, i)
    BY <1>1, <1>2 DEF Answered, Spends, RequestsMeant, ScriptsMeant
  <2>2. Spends(tx, i) => tx.input[i].witness # Empty
    BY <1>1, <1>2, ScriptsDiffer DEF Spends
  <2>3. Answered(i) => tx.input[i].witness # Empty
    BY <1>1, <1>2, ScriptsDiffer DEF Answered
  <2>4. /\ tx.input[i].script_sig = Empty
        /\ tx.input[i].witness = Empty \/ Answered(i)
    BY <1>2 DEF ScriptsMeant
  <2> QED  BY <1>2, <2>1, <2>2, <2>3, <2>4, ScriptsDiffer DEF Attached
<1>3. CASE i \notin segwit
  <2>1. Answered(i) => Spends(tx, i)
    BY <1>1, <1>3 DEF Answered, Spends, RequestsMeant, ScriptsMeant
  <2>2. Spends(tx, i) => tx.input[i].script_sig \notin {Empty, Code}
    BY <1>1, <1>3, ScriptsDiffer DEF Spends
  <2>3. Answered(i) => tx.input[i].script_sig \notin {Empty, Code}
    BY <1>1, <1>3, ScriptsDiffer DEF Answered
  <2>4. tx.input[i].script_sig \in {Empty, Code} \/ Answered(i)
    BY <1>3 DEF ScriptsMeant
  <2> QED  BY <1>3, <2>1, <2>2, <2>3, <2>4, ScriptsDiffer DEF Attached
<1> QED  BY <1>2, <1>3

-----------------------------------------------------------------------------
(* The caller that collects: one step.                                     *)

SameScripts(j) ==
  /\ tx'.input[j].script_sig = tx.input[j].script_sig
  /\ tx'.input[j].witness = tx.input[j].witness

Unmoved == \A j \in Inputs : Answered(j)' <=> Answered(j)

\* What a step is in the ideal session, in terms of Answered.
IdealStep ==
  \/ /\ Unmoved
     /\ status' = status
  \/ /\ status = "live"
     /\ \E i \in Inputs :
          /\ ~Answered(i)
          /\ Answered(i)'
          /\ \A j \in Inputs \ {i} : Answered(j)' <=> Answered(j)
     /\ \/ status' = "live"
        \/ status' = "accepted" /\ \A j \in Inputs : Answered(j)'
  \/ /\ status = "live"
     /\ \A j \in Inputs : Answered(j)
     /\ status' = "accepted"
     /\ Unmoved
  \/ /\ status = "live"
     /\ \A j \in Inputs : ~Answered(j)
     /\ status' = "panicked"
     /\ Unmoved

\* What was asked for stays what the network computes.
LEMMA OldRequestsMeant ==
  ASSUME TypeOK, [Next]_vars, RequestsMeant, NEW k \in DOMAIN requests
  PROVE  /\ requests'[k] = requests[k]
         /\ requests'[k].payload =
              IF requests'[k].input \in segwit'
              THEN Bip143(tx', requests'[k].input, Code, Value)
              ELSE LegacySighash(tx', requests'[k].input, Code)
<1>1. requests'[k] = requests[k] /\ segwit' = segwit
  BY StepKeepsAnswers
<1>2. requests[k].input \in Inputs
  BY RequestInput
<1>3. /\ Bip143(tx', requests[k].input, Code, Value)
           = Bip143(tx, requests[k].input, Code, Value)
      /\ LegacySighash(tx', requests[k].input, Code)
           = LegacySighash(tx, requests[k].input, Code)
  BY <1>2, StepDigests
<1> QED  BY <1>1, <1>3 DEF RequestsMeant

LEMMA NoRequestAdded ==
  ASSUME TypeOK, [Next]_vars, RequestsMeant, requests' = requests
  PROVE  RequestsMeant'
BY OldRequestsMeant DEF RequestsMeant

\* An input that no step writes to is answered after it exactly if before.
LEMMA AnswerStands ==
  ASSUME TypeOK, TypeOK', [Next]_vars, ScriptsMeant,
         NEW j \in Inputs, SameScripts(j)
  PROVE  Answered(j)' <=> Answered(j)
<1>1. /\ segwit' = segwit /\ signed \subseteq signed'
      /\ \A k \in signed : requests'[k] = requests[k]
  BY StepKeepsAnswers DEF TypeOK
<1>2. Answered(j) => Answered(j)'
  BY <1>1 DEF Answered, SameScripts
<1>3. signed' \subseteq Requests
  <2>1. DOMAIN requests' = 1 .. Len(requests') /\ Len(requests') \in Nat
    BY LenProperties DEF TypeOK
  <2> QED  BY <2>1, SizeAssumption DEF TypeOK, Requests
<1>4. ASSUME Answered(j)'  PROVE Answered(j)
  <2>1. PICK k \in signed' : Sig(k) = IF j \in segwit THEN tx.input[j].witness
                                                      ELSE tx.input[j].script_sig
    BY <1>1, <1>4 DEF Answered, SameScripts
  <2>2. Sig(k) \notin {Empty, Code}
    BY <1>3, <2>1, ScriptsDiffer
  <2> QED  BY <2>1, <2>2 DEF ScriptsMeant
<1> QED  BY <1>2, <1>4

\* ... and holds what it may hold.
LEMMA ScriptStands ==
  ASSUME TypeOK, TypeOK', [Next]_vars, ScriptsMeant,
         NEW j \in Inputs, SameScripts(j)
  PROVE  \/ /\ j \in segwit'
            /\ tx'.input[j].script_sig = Empty
            /\ tx'.input[j].witness = Empty \/ Answered(j)'
         \/ /\ j \notin segwit'
            /\ tx'.input[j].witness = Empty
            /\ tx'.input[j].script_sig \in {Empty, Code} \/ Answered(j)'
<1>1. segwit' = segwit
  BY StepKeepsAnswers
<1> QED  BY <1>1, AnswerStands DEF ScriptsMeant, SameScripts

LEMMA RequestedStands ==
  ASSUME TypeOK, [Next]_vars, NEW j \in Inputs, Requested(j)
  PROVE  Requested(j)'
BY StepKeepsAnswers DEF Requested

\* A step that leaves the transaction as it is answers no input.
LEMMA TxKept ==
  ASSUME TypeOK, TypeOK', [Next]_vars, CollectInv, tx' = tx
  PROVE  Unmoved /\ ScriptsMeant' /\ CollectedFirst' /\ OneCode'
<1>1. \A j \in Inputs : SameScripts(j)
  BY DEF SameScripts
<1>2. Unmoved /\ ScriptsMeant'
  BY <1>1, AnswerStands, ScriptStands DEF Unmoved, ScriptsMeant, CollectInv
<1>3. CollectedFirst'
  BY <1>2, RequestedStands DEF Unmoved, CollectedFirst, CollectInv
<1> QED  BY <1>2, <1>3 DEF OneCode, CollectInv

\* While an input has not been asked for, no input is answered, and only
\* the script code can stand in one.
LEMMA NothingAnswered ==
  ASSUME CollectInv, NEW i \in Inputs, ~Requested(i)
  PROVE  \A j \in Inputs : /\ ~Answered(j)
                           /\ tx.input[j].witness = Empty
                           /\ tx.input[j].script_sig \in {Empty, Code}
BY DEF CollectInv, CollectedFirst, ScriptsMeant

\* What SpendsIsAnswered says of a state, it says of the state after a step.
LEMMA SpendsIsAnsweredNow ==
  TypeOK /\ RequestsMeant /\ ScriptsMeant =>
    \A i \in Inputs : /\ Spends(tx, i) <=> Answered(i)
                      /\ Attached(tx, i) <=> Answered(i)
BY SpendsIsAnswered

LEMMA SpendsIsAnsweredNext ==
  (TypeOK /\ RequestsMeant /\ ScriptsMeant)' =>
    (\A i \in Inputs : /\ Spends(tx, i) <=> Answered(i)
                       /\ Attached(tx, i) <=> Answered(i))'
BY SpendsIsAnsweredNow, PTL

LEMMA AssignCollects ==
  ASSUME Collect, TypeOK, TypeOK', CollectInv, [Next]_vars, status = "live",
         NEW i \in Inputs, NEW s \in {Empty, Code}, AssignScriptSig(i, s)
  PROVE  CollectInv' /\ IdealStep
<1>1. /\ i \notin segwit /\ tx' = WithScriptSig(tx, i, s)
      /\ segwit' = segwit /\ requests' = requests /\ signed' = signed
      /\ status' = "live"
      /\ tx.input[i].script_sig \in {Empty, Code}
  BY DEF AssignScriptSig, MayAssign
<1>2. s \in Script /\ tx \in Transaction
  BY DEF Script, TypeOK
<1>3. \A j \in Inputs :
        /\ tx'.input[j].script_sig = IF j = i THEN s ELSE tx.input[j].script_sig
        /\ tx'.input[j].witness = tx.input[j].witness
  BY <1>1, <1>2, WithScriptSigEffect
<1>4. signed \subseteq Requests
  BY AttachableIsScript DEF TypeOK
<1>5. ~Answered(i) /\ ~Answered(i)'
  BY <1>1, <1>3, <1>4, ScriptsDiffer DEF Answered
<1>6. \A j \in Inputs \ {i} : SameScripts(j)
  BY <1>3 DEF SameScripts
<1>7. Unmoved
  BY <1>5, <1>6, AnswerStands DEF Unmoved, CollectInv
<1>8. RequestsMeant'
  BY <1>1, NoRequestAdded DEF CollectInv
<1>9. ScriptsMeant'
  <2>1. tx'.input[i].witness = Empty /\ tx'.input[i].script_sig \in {Empty, Code}
    BY <1>1, <1>3 DEF CollectInv, ScriptsMeant
  <2> QED  BY <1>1, <1>6, <2>1, ScriptStands DEF CollectInv, ScriptsMeant
<1>10. CollectedFirst'
  BY <1>7, RequestedStands DEF Unmoved, CollectInv, CollectedFirst
<1>11. OneCode'
  <2>1. CASE s = Empty
    BY <1>3, <2>1, ScriptsDiffer DEF CollectInv, OneCode
  <2>2. CASE s = Code
    <3>1. \A j \in Inputs : tx.input[j].script_sig = Empty
      BY <2>2, ScriptsDiffer DEF AssignScriptSig, MayAssign
    <3> QED  BY <1>3, <3>1, ScriptsDiffer DEF OneCode
  <2> QED  BY <2>1, <2>2
<1>12. StatusMeant'
  BY <1>1 DEF StatusMeant
<1>13. IdealStep
  BY <1>1, <1>7 DEF IdealStep
<1> QED  BY <1>8, <1>9, <1>10, <1>11, <1>12, <1>13 DEF CollectInv

\* A request for an input not asked for yet, with the digest the network
\* computes, keeps the session in order.
LEMMA RequestCollects ==
  ASSUME TypeOK, TypeOK', CollectInv, [Next]_vars, status = "live",
         NEW i \in Inputs, NEW b \in BOOLEAN, NEW p,
         ~Requested(i), Request(i, b, p),
         p = IF i \in segwit THEN Bip143(tx, i, Code, Value)
                             ELSE LegacySighash(tx, i, Code)
  PROVE  CollectInv' /\ IdealStep
<1> DEFINE r == [input |-> i, segwit |-> b, payload |-> p]
<1>1. /\ requests' = Append(requests, r) /\ tx' = tx
      /\ segwit' = segwit /\ status' = status
  BY DEF Request
<1>2. Unmoved /\ ScriptsMeant' /\ CollectedFirst' /\ OneCode'
  BY <1>1, TxKept
<1>3. RequestsMeant'
  <2> SUFFICES ASSUME NEW k \in DOMAIN requests'
               PROVE  requests'[k].payload =
                        IF requests'[k].input \in segwit'
                        THEN Bip143(tx', requests'[k].input, Code, Value)
                        ELSE LegacySighash(tx', requests'[k].input, Code)
    BY DEF RequestsMeant
  <2>1. k \in DOMAIN requests \/ requests'[k] = r
    BY <1>1, AppendProperties, LenProperties DEF TypeOK
  <2>2. CASE k \in DOMAIN requests
    BY <2>2, OldRequestsMeant DEF CollectInv
  <2>3. CASE requests'[k] = r
    BY <1>1, <2>3
  <2> QED  BY <2>1, <2>2, <2>3
<1>4. StatusMeant'
  BY <1>1 DEF StatusMeant
<1>5. IdealStep
  BY <1>1, <1>2 DEF IdealStep
<1> QED  BY <1>2, <1>3, <1>4, <1>5 DEF CollectInv

LEMMA LegacyCollects ==
  ASSUME Collect, TypeOK, TypeOK', CollectInv, [Next]_vars, status = "live",
         NEW i \in Inputs, BuildForSigningLegacy(i)
  PROVE  CollectInv' /\ IdealStep
<1> DEFINE r == [input |-> i, segwit |-> FALSE, payload |-> LegacyPreimage(tx)]
<1>1. /\ ~Requested(i) /\ i \notin segwit /\ tx.input[i].script_sig = Code
      /\ Request(i, FALSE, LegacyPreimage(tx))
  BY DEF BuildForSigningLegacy, MayRequest
<1>2. \A j \in Inputs : /\ tx.input[j].witness = Empty
                        /\ tx.input[j].script_sig \in {Empty, Code}
  BY <1>1, NothingAnswered
<1>3. \A j \in Inputs : tx.input[j].script_sig = IF j = i THEN Code ELSE Empty
  BY <1>1, <1>2, ScriptsDiffer DEF CollectInv, OneCode
<1>4. DOMAIN tx.input = Inputs /\ 1 \in Inputs
  BY TransactionFields, SizeAssumption DEF Inputs, TypeOK
<1>5. ~UsesSegwitSerialization(tx)
  BY <1>2, <1>4 DEF UsesSegwitSerialization, HasWitness
<1>6. Blanked(r)
  <2>1. ~LegacyPreimage(tx).tx.marker
    BY <1>5 DEF LegacyPreimage, Encode
  <2>2. \A j \in Inputs :
          LegacyPreimage(tx).tx.input[j].script_sig = IF j = i THEN Code ELSE Empty
    BY <1>3, <1>4 DEF LegacyPreimage, Encode, EncodeTxIn
  <2> QED  BY <2>1, <2>2 DEF Blanked
<1>7. LegacyPreimage(tx) = LegacySighash(tx, i, Code)
  <2> HIDE DEF r
  <2>1. r.payload = LegacyPreimage(tx) /\ r.input = i
    BY DEF r
  <2> QED  BY <1>6, <2>1, BlankedPreimage
<1> QED  BY <1>1, <1>7, RequestCollects

LEMMA SegwitCollects ==
  ASSUME Collect, TypeOK, TypeOK', CollectInv, [Next]_vars, status = "live",
         NEW i \in Indexes, BuildForSigningSegwit(i)
  PROVE  CollectInv' /\ IdealStep
<1>1. i \in Inputs /\ i \in segwit /\ ~Requested(i)
  BY DEF BuildForSigningSegwit, MayRequest
<1>2. \A j \in Inputs : tx.input[j].witness = Empty /\ ~Answered(j)
  BY <1>1, NothingAnswered
<1>3. CASE Panic
  <2>1. tx' = tx /\ requests' = requests /\ status' = "panicked"
    BY <1>3 DEF Panic
  <2>2. Unmoved /\ ScriptsMeant' /\ CollectedFirst' /\ OneCode'
    BY <2>1, TxKept
  <2>3. RequestsMeant'
    BY <2>1, NoRequestAdded DEF CollectInv
  <2>4. StatusMeant'
    BY <1>2, <2>1, <2>2 DEF StatusMeant, Unmoved
  <2>5. IdealStep
    BY <1>2, <2>1, <2>2 DEF IdealStep
  <2> QED  BY <2>2, <2>3, <2>4, <2>5 DEF CollectInv
<1>4. CASE Request(i, TRUE, SegwitPreimage(tx, i, Code, Value))
  <2>1. ~HasWitness(tx)
    BY <1>2, TransactionFields DEF HasWitness, TypeOK
  <2>2. SegwitPreimage(tx, i, Code, Value) = Bip143(tx, i, Code, Value)
    <3>1. HasWitness(tx) = FALSE
      BY <2>1 DEF HasWitness
    <3> QED  BY <3>1 DEF SegwitPreimage, Bip143
  <2> QED  BY <1>1, <1>4, <2>2, RequestCollects
<1> QED  BY <1>3, <1>4 DEF BuildForSigningSegwit

LEMMA RespondCollects ==
  ASSUME TypeOK, TypeOK', CollectInv, [Next]_vars,
         NEW k \in Requests, SignerResponds(k)
  PROVE  CollectInv' /\ IdealStep
<1>1. tx' = tx /\ requests' = requests /\ status' = status /\ status = "live"
  BY DEF SignerResponds
<1>2. Unmoved /\ ScriptsMeant' /\ CollectedFirst' /\ OneCode'
  BY <1>1, TxKept
<1>3. RequestsMeant'
  BY <1>1, NoRequestAdded DEF CollectInv
<1>4. StatusMeant'
  BY <1>1 DEF StatusMeant
<1>5. IdealStep
  BY <1>1, <1>2 DEF IdealStep
<1> QED  BY <1>2, <1>3, <1>4, <1>5 DEF CollectInv

LEMMA AttachCollects ==
  ASSUME Collect, TypeOK, TypeOK', CollectInv, [Next]_vars, status = "live",
         NEW i \in Inputs, NEW k \in signed,
         requests[k].input = i, ~Attached(tx, i), \A j \in Inputs : Requested(j),
         tx' = IF i \in segwit THEN WithWitness(tx, i, Sig(k))
                               ELSE WithScriptSig(tx, i, Sig(k)),
         Return(Encode(tx'), tx'), UNCHANGED <<segwit, requests, signed>>
  PROVE  CollectInv' /\ IdealStep
<1>1. Sig(k) \in Script /\ tx \in Transaction /\ tx' \in Transaction
  BY AttachableIsScript DEF Attachable, TypeOK
<1>2. /\ ~Answered(i) /\ Sig(k) \notin {Empty, Code}
  BY SpendsIsAnswered, AttachableIsScript, ScriptsDiffer DEF CollectInv, TypeOK
<1>3. \A j \in Inputs \ {i} : SameScripts(j)
  BY <1>1, WithScriptSigEffect, WithWitnessEffect DEF SameScripts
<1>4. IF i \in segwit
      THEN tx'.input[i].witness = Sig(k)
           /\ tx'.input[i].script_sig = tx.input[i].script_sig
      ELSE tx'.input[i].script_sig = Sig(k)
           /\ tx'.input[i].witness = tx.input[i].witness
  BY <1>1, WithScriptSigEffect, WithWitnessEffect
<1>5. Answered(i)'
  BY <1>4 DEF Answered
<1>6. \A j \in Inputs \ {i} : Answered(j)' <=> Answered(j)
  BY <1>3, AnswerStands DEF CollectInv
<1>7. RequestsMeant'
  BY NoRequestAdded DEF CollectInv
<1>8. ScriptsMeant'
  <2>1. IF i \in segwit' THEN tx'.input[i].script_sig = Empty
                         ELSE tx'.input[i].witness = Empty
    BY <1>4 DEF CollectInv, ScriptsMeant
  <2> QED  BY <1>3, <1>5, <2>1, ScriptStands DEF CollectInv, ScriptsMeant
<1>9. CollectedFirst'
  BY RequestedStands DEF CollectedFirst
<1>10. OneCode'
  <2>1. \A j \in Inputs : tx'.input[j].script_sig = Code
                          => tx.input[j].script_sig = Code
    BY <1>2, <1>3, <1>4 DEF SameScripts
  <2> QED  BY <2>1 DEF CollectInv, OneCode
<1>11. \/ status' = "live"
       \/ status' = "accepted" /\ \A j \in Inputs : Answered(j)'
  <2> SUFFICES ASSUME status' # "live"
               PROVE  status' = "accepted" /\ \A j \in Inputs : Answered(j)'
    OBVIOUS
  <2>1. status' = Verdict(Encode(tx')) /\ \A j \in Inputs : Attached(tx', j)
    BY DEF Return, MayBroadcast
  <2>2. \A j \in Inputs : Attached(tx', j) <=> Attached(tx, j)'
    BY DEF Attached
  <2>3. \A j \in Inputs : Answered(j)' /\ Spends(tx, j)'
    BY <1>7, <1>8, <2>1, <2>2, SpendsIsAnsweredNext
  <2>4. \A j \in Inputs : Spends(tx', j)
    BY <2>3 DEF Spends
  <2> QED  BY <1>1, <2>1, <2>3, <2>4, AcceptedWhenSpendable
<1>12. StatusMeant'
  BY <1>11 DEF StatusMeant
<1>13. IdealStep
  BY <1>2, <1>5, <1>6, <1>11 DEF IdealStep
<1> QED  BY <1>7, <1>8, <1>9, <1>10, <1>12, <1>13 DEF CollectInv

LEMMA WithScriptSigCollects ==
  ASSUME Collect, TypeOK, TypeOK', CollectInv, [Next]_vars, status = "live",
         NEW i \in Indexes, NEW s \in Attachable, NEW ty \in TransactionType,
         BuildWithScriptSig(i, s, ty)
  PROVE  CollectInv' /\ IdealStep
<1>1. PICK k \in signed : requests[k].input = i /\ s = Sig(k)
  BY DEF BuildWithScriptSig, MayAttach
<1>2. i \in Inputs
  BY <1>1, RequestInput DEF TypeOK
<1>3. /\ i \notin segwit /\ ty \in LegacyTypes /\ ~Attached(tx, i)
      /\ \A j \in Inputs : Requested(j)
  BY DEF BuildWithScriptSig, MayAttach
<1>4. /\ tx' = WithScriptSig(tx, i, s) /\ Return(Encode(tx'), tx')
      /\ UNCHANGED <<segwit, requests, signed>>
  BY <1>2, <1>3 DEF BuildWithScriptSig
<1> QED  BY <1>1, <1>2, <1>3, <1>4, AttachCollects

LEMMA WithWitnessCollects ==
  ASSUME Collect, TypeOK, TypeOK', CollectInv, [Next]_vars, status = "live",
         NEW i \in Indexes, NEW s \in Attachable, NEW ty \in TransactionType,
         BuildWithWitness(i, s, ty)
  PROVE  CollectInv' /\ IdealStep
<1>1. PICK k \in signed : requests[k].input = i /\ s = Sig(k)
  BY DEF BuildWithWitness, MayAttach
<1>2. i \in Inputs
  BY <1>1, RequestInput DEF TypeOK
<1>3. /\ i \in segwit /\ ty \in SegwitTypes /\ ~Attached(tx, i)
      /\ \A j \in Inputs : Requested(j)
  BY DEF BuildWithWitness, MayAttach
<1>4. /\ tx' = WithWitness(tx, i, s) /\ Return(Encode(tx'), tx')
      /\ UNCHANGED <<segwit, requests, signed>>
  BY <1>2, <1>3 DEF BuildWithWitness
<1> QED  BY <1>1, <1>2, <1>3, <1>4, AttachCollects

LEMMA SerializeCollects ==
  ASSUME Collect, TypeOK, TypeOK', CollectInv, [Next]_vars, status = "live",
         Serialize
  PROVE  CollectInv' /\ IdealStep
<1>1. /\ tx' = tx /\ requests' = requests
      /\ Return(Encode(tx), tx)
  BY DEF Serialize
<1>2. Unmoved /\ ScriptsMeant' /\ CollectedFirst' /\ OneCode'
  BY <1>1, TxKept
<1>3. RequestsMeant'
  BY <1>1, NoRequestAdded DEF CollectInv
<1>4. \/ status' = "live"
      \/ status' = "accepted" /\ \A j \in Inputs : Answered(j)
  <2> SUFFICES ASSUME status' # "live"
               PROVE  status' = "accepted" /\ \A j \in Inputs : Answered(j)
    OBVIOUS
  <2>1. status' = Verdict(Encode(tx)) /\ \A j \in Inputs : Attached(tx, j)
    BY <1>1 DEF Return, MayBroadcast
  <2>2. \A j \in Inputs : Answered(j) /\ Spends(tx, j)
    BY <2>1, SpendsIsAnswered DEF CollectInv
  <2> QED  BY <2>1, <2>2, AcceptedWhenSpendable DEF TypeOK
<1>5. StatusMeant'
  BY <1>2, <1>4 DEF StatusMeant, Unmoved
<1>6. IdealStep
  BY <1>2, <1>4 DEF IdealStep
<1> QED  BY <1>2, <1>3, <1>5, <1>6 DEF CollectInv

LEMMA CollectStep ==
  ASSUME Collect, TypeOK, TypeOK', CollectInv, [Next]_vars
  PROVE  CollectInv' /\ IdealStep
<1>1. CASE UNCHANGED vars
  <2>1. tx' = tx /\ requests' = requests /\ status' = status
    BY <1>1 DEF vars
  <2>2. Unmoved /\ ScriptsMeant' /\ CollectedFirst' /\ OneCode'
    BY <2>1, TxKept
  <2>3. RequestsMeant'
    BY <2>1, NoRequestAdded DEF CollectInv
  <2>4. StatusMeant'
    BY <2>1, <2>2 DEF CollectInv, StatusMeant, Unmoved
  <2> QED  BY <2>1, <2>2, <2>3, <2>4 DEF CollectInv, IdealStep
<1>2. CASE SignerStep
  BY <1>2, RespondCollects DEF SignerStep
<1>3. CASE CallerStep
  <2>1. status = "live"
    BY <1>3 DEF CallerStep
  <2>2. \/ \E i \in Inputs, s \in {Empty, Code} : AssignScriptSig(i, s)
        \/ \E i \in Inputs : BuildForSigningLegacy(i)
        \/ \E i \in Indexes : BuildForSigningSegwit(i)
        \/ \E i \in Indexes, s \in Attachable, ty \in TransactionType :
             BuildWithScriptSig(i, s, ty)
        \/ \E i \in Indexes, s \in Attachable, ty \in TransactionType :
             BuildWithWitness(i, s, ty)
        \/ Serialize
    BY <1>3 DEF CallerStep
  <2> QED  BY <2>1, <2>2, AssignCollects, LegacyCollects, SegwitCollects,
              WithScriptSigCollects, WithWitnessCollects, SerializeCollects
<1> QED  BY <1>1, <1>2, <1>3 DEF Next, Finished

LEMMA CollectInit == Init => CollectInv
<1> SUFFICES ASSUME Init PROVE CollectInv
  OBVIOUS
<1>1. /\ requests = << >> /\ signed = {} /\ status = "live"
      /\ \A i \in Inputs : /\ tx.input[i].script_sig = Empty
                           /\ tx.input[i].witness = Empty
  BY DEF Init, Unsigned
<1>2. \A i \in Inputs : ~Answered(i)
  BY <1>1 DEF Answered
<1>3. DOMAIN requests = {}
  BY <1>1
<1> QED  BY <1>1, <1>2, <1>3, ScriptsDiffer
         DEF CollectInv, RequestsMeant, ScriptsMeant, CollectedFirst, OneCode,
             StatusMeant

\* The session of a caller that collects stays in order.
THEOREM Collecting ==
  ASSUME Collect
  PROVE  Spec => []CollectInv
<1>1. TypeOK /\ TypeOK' /\ CollectInv /\ [Next]_vars => CollectInv'
  BY CollectStep
<1> QED  BY <1>1, CollectInit, TypeCorrect, PTL DEF Spec

\* The network never refuses a transaction whose caller collected every
\* preimage before attaching an answer: any number of inputs, any mix of
\* legacy and segwit, any order of answers and of attachments.
THEOREM CollectingNeverRejected ==
  ASSUME Collect
  PROVE  Spec => []NeverRejected
<1>1. CollectInv => NeverRejected
  BY DEF CollectInv, StatusMeant, NeverRejected
<1> QED  BY <1>1, Collecting, PTL

-----------------------------------------------------------------------------
(* The ideal session.                                                      *)

\* Such a session is one of the ideal specification: attaching an answer is
\* its Sign, the network's yes its Accept or a part of Sign, a panic its
\* Abort, and everything else leaves it alone.
THEOREM CollectingIsIdeal ==
  ASSUME Collect
  PROVE  Spec => ImplementsIdeal
<1> DEFINE valid == {i \in Inputs : Spends(tx, i)}
           outcome == IF status = "live" THEN "open"
                      ELSE IF status = "panicked" THEN "aborted" ELSE status
<1>1. TypeOK /\ CollectInv => \A i \in Inputs : Spends(tx, i) <=> Answered(i)
  BY SpendsIsAnswered DEF CollectInv
<1>2. Init => Ideal!Init
  <2>1. Init => \A i \in Inputs : ~Spends(tx, i)
    BY DEF Init, Spends
  <2> QED  BY <2>1 DEF Init, Ideal!Init
<1>3. TypeOK' /\ CollectInv' =>
        \A i \in Inputs : Spends(tx, i)' <=> Answered(i)'
  BY SpendsIsAnsweredNext DEF CollectInv
<1>4. TypeOK /\ TypeOK' /\ CollectInv /\ CollectInv' /\ [Next]_vars
        => [Ideal!Next]_Ideal!vars
  <2> SUFFICES ASSUME TypeOK, TypeOK', CollectInv, CollectInv', [Next]_vars
               PROVE  [Ideal!Next]_Ideal!vars
    OBVIOUS
  <2>1. \A i \in Inputs : /\ Spends(tx, i) <=> Answered(i)
                          /\ Spends(tx, i)' <=> Answered(i)'
    BY <1>1, <1>3
  <2>2. IdealStep
    BY CollectStep
  <2>3. CASE Unmoved /\ status' = status
    <3>1. valid' = valid /\ outcome' = outcome
      BY <2>1, <2>3 DEF Unmoved
    <3> QED  BY <3>1 DEF Ideal!vars
  <2>4. ASSUME status = "live", NEW i \in Inputs, ~Answered(i), Answered(i)',
               \A j \in Inputs \ {i} : Answered(j)' <=> Answered(j),
               \/ status' = "live"
               \/ status' = "accepted" /\ \A j \in Inputs : Answered(j)'
        PROVE  Ideal!Next
    <3>1. i \in Inputs \ valid /\ valid' = valid \cup {i}
      BY <2>1, <2>4
    <3>2. outcome = "open" /\ outcome' \in {"open"}
            \cup IF valid' = Inputs THEN {"accepted"} ELSE {}
      BY <2>1, <2>4
    <3> QED  BY <3>1, <3>2 DEF Ideal!Next, Ideal!Sign
  <2>5. ASSUME status = "live", \A j \in Inputs : Answered(j),
               status' = "accepted", Unmoved
        PROVE  Ideal!Next
    <3>1. valid = Inputs /\ valid' = valid
      BY <2>1, <2>5 DEF Unmoved
    <3>2. outcome = "open" /\ outcome' = "accepted"
      BY <2>5
    <3> QED  BY <3>1, <3>2 DEF Ideal!Next, Ideal!Accept
  <2>6. ASSUME status = "live", \A j \in Inputs : ~Answered(j),
               status' = "panicked", Unmoved
        PROVE  Ideal!Next
    <3>1. valid = {} /\ valid' = valid
      BY <2>1, <2>6 DEF Unmoved
    <3>2. outcome = "open" /\ outcome' = "aborted"
      BY <2>6
    <3> QED  BY <3>1, <3>2 DEF Ideal!Next, Ideal!Abort
  <2> QED  BY <2>2, <2>3, <2>4, <2>5, <2>6 DEF IdealStep
<1> QED  BY <1>2, <1>4, Collecting, TypeCorrect, PTL
         DEF Spec, ImplementsIdeal, Ideal!Spec
=============================================================================
