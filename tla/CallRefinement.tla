--------------------------- MODULE CallRefinement ---------------------------
(***************************************************************************)
(* ClickHouseBackend implements CallContract.  A result is what the        *)
(* gateway is given when the call has returned, after its audit; span,     *)
(* label, counters, host and the server's answers are hidden.              *)
(***************************************************************************)
EXTENDS ClickHouseBackend

Asked == [c \in Calls |-> [binding |-> request[c].binding, kind |-> request[c].kind]]

Opened == {c \in Calls : phase[c] # "idle"}

Sent == [c \in Calls |-> {q.sql : q \in query[c]}]

Returned ==
  [c \in Calls |->
     IF phase[c] = "done"
     THEN {[status |-> r.status, body |-> r.body] : r \in reply[c]}
     ELSE {}]

Offers(p, kind) == PlansFor(p, kind) # {}

Contract == INSTANCE CallContract WITH
  registry <- profiles, asked <- Asked, opened <- Opened, taken <- snapshot,
  sent <- Sent, effect <- applied, result <- Returned

\* Every behaviour of the plugin, with registrations, deadlines, late answers
\* and audits in any order, is one of the contract: one profile, one statement,
\* one effect, one result, and no success without the effect.
ImplementsContract == Contract!Spec
=============================================================================
