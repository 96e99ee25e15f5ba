----------------------------- MODULE MCPollWatch -----------------------------
(* Small instances of PollWatch for TLC. *)
EXTENDS PollWatch

OneColumn ==
  [url |-> "set", tracking_query |-> "read", verify_peer |-> TRUE, first |-> "tracked"]
Refused ==
  {[OneColumn EXCEPT !.url = "blank"], [OneColumn EXCEPT !.tracking_query = "write"],
   [OneColumn EXCEPT !.tracking_query = "blank"], [OneColumn EXCEPT !.verify_peer = FALSE]}

OneColumnSpecs == {OneColumn} \cup Refused
=============================================================================
