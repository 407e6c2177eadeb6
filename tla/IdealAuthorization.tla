------------------------- MODULE IdealAuthorization -------------------------
(***************************************************************************)
(* What signing through somebody else promises the account that pays: the  *)
(* network executes only what a signature was asked for, exactly as it was *)
(* when it was asked for.                                                  *)
(***************************************************************************)
VARIABLES
  asked,    \* the transactions a signature was requested for
  executed  \* the transactions the network took

Init == asked = {} /\ executed = {}

Ask == asked \subseteq asked' /\ executed' = executed

Execute ==
  /\ asked' = asked
  /\ executed \subseteq executed'
  /\ executed' \subseteq asked

Next == Ask \/ Execute

Spec == Init /\ [][Next]_<<asked, executed>>
=============================================================================
