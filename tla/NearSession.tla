----------------------------- MODULE NearSession -----------------------------
(***************************************************************************)
(* A NEAR transaction, its caller, a signer and a node.  The fields are    *)
(* public: the caller may assign one between the request for a signature   *)
(* and the use of the answer, or use an older answer.  One byte of what    *)
(* was sent may change under way.                                          *)
(***************************************************************************)
EXTENDS NearNode

CONSTANTS
  Initial,      \* NearTransaction values to start from
  Assignable,   \* field name -> values it may be assigned
  SignerKey,    \* PublicKey of the signer
  Answers,      \* the signatures the signer may answer
  Noise,        \* what is added to a byte that changes
  MaxRequests   \* bound on the requests for a signature

VARIABLES
  tx,        \* NearTransaction
  requests,  \* what a signature was asked for: the transaction and its bytes
  answers,   \* for each request << >> or a Signature
  sent,      \* << >>, or the bytes under way, with what they were made from
  executed   \* the transactions the node took

sessionVars == <<tx, requests, answers, sent, executed>>

\* Whatever the transaction may become.
ValuesOfField(field) ==
  {t[field] : t \in Initial}
    \cup (IF field \in DOMAIN Assignable THEN Assignable[field] ELSE {})

Possible ==
  [signer_id : ValuesOfField("signer_id"), signer_public_key : ValuesOfField("signer_public_key"),
   nonce : ValuesOfField("nonce"), receiver_id : ValuesOfField("receiver_id"),
   block_hash : ValuesOfField("block_hash"), actions : ValuesOfField("actions")]

ASSUME SessionAssumption ==
  /\ Initial \subseteq Values[MaxDepth]["NearTransaction"]
  /\ Possible \subseteq Values[MaxDepth]["NearTransaction"]
  /\ \A t \in Possible : ~Nested(t)
  /\ Answers \subseteq Values[MaxDepth]["Signature"]
  /\ Noise \subseteq Nat

SessionInit ==
  /\ tx \in Initial
  /\ requests = << >>
  /\ answers = << >>
  /\ sent = << >>
  /\ executed = {}

Assign(field) ==
  /\ \E v \in Assignable[field] : tx' = [tx EXCEPT ![field] = v]
  /\ UNCHANGED <<requests, answers, sent, executed>>

RequestSignature ==
  /\ Len(requests) < MaxRequests
  /\ requests' = Append(requests, [tx |-> tx, bytes |-> BuildForSigning(tx)])
  /\ answers' = Append(answers, << >>)
  /\ UNCHANGED <<tx, sent, executed>>

\* No two requests get the same signature.
SignerResponds(k) ==
  /\ answers[k] = << >>
  /\ \E s \in Answers : /\ <<s>> \notin ToSet(answers)
                        /\ answers' = [answers EXCEPT ![k] = <<s>>]
  /\ UNCHANGED <<tx, requests, sent, executed>>

AttachAndSend(k) ==
  /\ answers[k] # << >>
  /\ sent = << >>
  /\ sent' = <<[bytes |-> BuildWithSignature(tx, answers[k][1]), tx |-> tx, request |-> k,
                changed |-> FALSE]>>
  /\ UNCHANGED <<tx, requests, answers, executed>>

Change ==
  /\ sent # << >> /\ ~sent[1].changed
  /\ \E i \in DOMAIN sent[1].bytes, n \in Noise :
       sent' = <<[sent[1] EXCEPT !.bytes[i] = (@ + n) % Radix, !.changed = TRUE]>>
  /\ UNCHANGED <<tx, requests, answers, executed>>

-----------------------------------------------------------------------------
\* A node.

Verifies(signed) ==
  /\ signed.transaction.signer_public_key = SignerKey
  /\ \E k \in DOMAIN answers :
       /\ answers[k] = <<signed.signature>>
       /\ requests[k].bytes = SigningBytes(signed.transaction)

Accepted(bytes) == {signed.transaction : signed \in {s \in NodeReads(bytes) : Verifies(s)}}

NodeReceives ==
  /\ sent # << >>
  /\ executed' = executed \cup Accepted(sent[1].bytes)
  /\ sent' = << >>
  /\ UNCHANGED <<tx, requests, answers>>

SessionNext ==
  \/ \E field \in DOMAIN Assignable : Assign(field)
  \/ RequestSignature
  \/ \E k \in DOMAIN requests : SignerResponds(k) \/ AttachAndSend(k)
  \/ Change
  \/ NodeReceives

SessionSpec == SessionInit /\ [][SessionNext]_sessionVars

-----------------------------------------------------------------------------

\* An answer is good for the transaction it was asked for and for no other:
\* whatever was assigned in between, the node takes bytes that nobody changed
\* exactly if they were made from the transaction as it was then, and its
\* public key is the signer's.
AcceptedExactlyIfFresh ==
  \A s \in ToSet(sent) :
    ~s.changed =>
      (Accepted(s.bytes) # {} <=> /\ s.tx = requests[s.request].tx
                                  /\ s.tx.signer_public_key = SignerKey)

\* Also of changed bytes, the node executes only what was asked for, field by
\* field: IdealAuthorization.
Ideal == INSTANCE IdealAuthorization
           WITH asked <- {requests[k].tx : k \in DOMAIN requests}

Authorized == Ideal!Spec
=============================================================================
