----------------------------- MODULE EvmSession -----------------------------
(***************************************************************************)
(* An EVM transaction, its caller, a signer and a node.  The fields are    *)
(* public: the caller may assign one between the request for a signature   *)
(* and the use of the answer, use an older answer, or use one twice.       *)
(***************************************************************************)
EXTENDS EvmNode

CONSTANTS
  Initial,      \* EVMTransaction values to start from
  Assignable,   \* field name -> values it may be assigned
  Answers,      \* the signatures the signer may answer
  MaxRequests   \* bound on the requests for a signature

VARIABLES
  tx,        \* EVMTransaction
  requests,  \* what a signature was asked for: the transaction and its bytes
  answers,   \* for each request << >> or a signature
  sent,      \* << >>, or the bytes under way, with what they were made from
  executed   \* the transactions the node took

sessionVars == <<tx, requests, answers, sent, executed>>

\* Whatever the transaction may become.
Values(field) ==
  {t[field] : t \in Initial}
    \cup (IF field \in DOMAIN Assignable THEN Assignable[field] ELSE {})

Possible ==
  [chain_id : Values("chain_id"), nonce : Values("nonce"), to : Values("to"),
   value : Values("value"), input : Values("input"), gas_limit : Values("gas_limit"),
   max_fee_per_gas : Values("max_fee_per_gas"),
   max_priority_fee_per_gas : Values("max_priority_fee_per_gas"),
   access_list : Values("access_list")]

ASSUME SessionAssumption ==
  /\ Initial \subseteq EVMTransaction /\ Possible \subseteq EVMTransaction
  /\ Answers \subseteq Signature
  /\ \A t \in Possible : /\ IsLength(Len(BuildForSigning(t)))
                         /\ \A s \in Answers : IsLength(Len(BuildWithSignature(t, s)))

SessionInit ==
  /\ tx \in Initial
  /\ requests = << >>
  /\ answers = << >>
  /\ sent = << >>
  /\ executed = {}

Assign(field) ==
  /\ \E v \in Assignable[field] : tx' = [tx EXCEPT ![field] = v]
  /\ UNCHANGED <<requests, answers, sent, executed>>

RequestSignature ==
  /\ Len(requests) < MaxRequests
  /\ requests' = Append(requests, [tx |-> tx, bytes |-> BuildForSigning(tx)])
  /\ answers' = Append(answers, << >>)
  /\ UNCHANGED <<tx, sent, executed>>

\* No two requests get the same signature.
SignerResponds(k) ==
  /\ answers[k] = << >>
  /\ \E s \in Answers : /\ <<s>> \notin ToSet(answers)
                        /\ answers' = [answers EXCEPT ![k] = <<s>>]
  /\ UNCHANGED <<tx, requests, sent, executed>>

AttachAndSend(k) ==
  /\ answers[k] # << >>
  /\ sent = << >>
  /\ sent' = <<[bytes |-> BuildWithSignature(tx, answers[k][1]), tx |-> tx, request |-> k]>>
  /\ UNCHANGED <<tx, requests, answers, executed>>

-----------------------------------------------------------------------------
\* A node.

Verifies(read) ==
  \E k \in DOMAIN answers :
    /\ answers[k] = read.signature
    /\ requests[k].bytes = SigningBytes(read.tx)

Accepts(bytes) ==
  \E read \in ToSet(ReadTransaction(bytes)) : read.signature # << >> /\ Verifies(read)

NodeReceives ==
  /\ sent # << >>
  /\ executed' = IF Accepts(sent[1].bytes)
                 THEN executed \cup {ReadTransaction(sent[1].bytes)[1].tx} ELSE executed
  /\ sent' = << >>
  /\ UNCHANGED <<tx, requests, answers>>

SessionNext ==
  \/ \E field \in DOMAIN Assignable : Assign(field)
  \/ RequestSignature
  \/ \E k \in DOMAIN requests : SignerResponds(k) \/ AttachAndSend(k)
  \/ NodeReceives

SessionSpec == SessionInit /\ [][SessionNext]_sessionVars

-----------------------------------------------------------------------------

\* An answer is good for the transaction it was asked for and for no other:
\* whatever was assigned in between, the node takes the bytes exactly if they
\* were made from the transaction as it was then, and r and s, as they came,
\* are numbers without leading zeros.
AcceptedExactlyIfFresh ==
  \A s \in ToSet(sent) :
    Accepts(s.bytes) <=> /\ s.tx = requests[s.request].tx
                         /\ Unpadded(answers[s.request][1])

\* The node executes only what was asked for, field by field: IdealAuthorization.
Ideal == INSTANCE IdealAuthorization
           WITH asked <- {requests[k].tx : k \in DOMAIN requests}

Authorized == Ideal!Spec
=============================================================================
