---------------------------- MODULE IdealSigning ----------------------------
(***************************************************************************)
(* What signing a transaction promises its caller, whatever the formats:   *)
(* inputs become spendable one at a time and stay so, the network takes    *)
(* the transaction once all are, it never refuses one, and giving up       *)
(* wastes no signature.                                                    *)
(***************************************************************************)
CONSTANT Inputs

VARIABLES
  valid,   \* the inputs whose signature the network would take
  outcome  \* "open", "accepted" or "aborted"

vars == <<valid, outcome>>

Init == valid = {} /\ outcome = "open"

\* The network may take the transaction with its last signature, or later.
Sign(i) ==
  /\ outcome = "open"
  /\ valid' = valid \cup {i}
  /\ outcome' \in {"open"} \cup IF valid' = Inputs THEN {"accepted"} ELSE {}

Accept ==
  /\ outcome = "open"
  /\ valid = Inputs
  /\ outcome' = "accepted"
  /\ UNCHANGED valid

Abort ==
  /\ outcome = "open"
  /\ valid = {}
  /\ outcome' = "aborted"
  /\ UNCHANGED valid

Next == (\E i \in Inputs \ valid : Sign(i)) \/ Accept \/ Abort

Spec == Init /\ [][Next]_vars
=============================================================================
