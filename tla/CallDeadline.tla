---------------------------- MODULE CallDeadline ----------------------------
(***************************************************************************)
(* The two deadlines of a query.  The plugin drops a call when its         *)
(* max_execution_time_ms have passed (tokio::time::timeout, lib.rs) and    *)
(* does not tell the server; the server is given a budget of its own, in   *)
(* whole seconds (the max_execution_time setting, engine.rs).  Either end  *)
(* of a call is classified as retryable, so its caller may try again while *)
(* the server still works for the attempts before.                         *)
(*                                                                         *)
(* Time passes in ticks, Second of them to the second.  An event that is   *)
(* due happens before the next tick.  The server, the network and the      *)
(* caller's retries are external.                                          *)
(***************************************************************************)
EXTENDS Naturals, FiniteSets

CONSTANTS
  Second,       \* ticks in a second
  Ceilings,     \* max_execution_time_ms, in ticks
  Overrides,    \* settings["max_execution_time"], in seconds: Options
  Transit,      \* how long a request may be under way
  MaxAttempts,  \* bound: attempts of the caller
  Horizon       \* bound: the age at which an attempt is no longer timed

MaxOf(m, n) == IF m >= n THEN m ELSE n

\* The clock is not stopped while a plain attempt can still be timed.
ASSUME TimeAssumption ==
  /\ Second \in Nat \ {0}
  /\ Ceilings \subseteq Nat \ {0}
  /\ Transit \in Nat /\ MaxAttempts \in Nat /\ Horizon \in Nat
  /\ \A c \in Ceilings : Horizon >= MaxOf(c, Second) + Transit
  /\ \A o \in Overrides : o \subseteq Nat /\ Cardinality(o) <= 1

VARIABLES
  ceiling,   \* the timeout of the profile
  override,  \* the operator's own max_execution_time, if any
  attempts,  \* how often the caller has called
  caller,    \* what the caller has of each attempt
  server,    \* what the server does for each attempt
  age,       \* ticks since the attempt began, while either end is at it
  arrival    \* the age at which the server got it

vars == <<ceiling, override, attempts, caller, server, age, arrival>>

Attempts == 1 .. MaxAttempts

Waiting(i) == caller[i] = "waiting"
Busy(i) == server[i] \in {"travelling", "running"}

\* Mutant of Budget: as_secs() alone.
Budget_Truncated ==
  Second * (IF override = {} THEN ceiling \div Second ELSE CHOOSE s \in override : TRUE)

\* Mutant of Budget: the milliseconds are sent as seconds.
Budget_Milliseconds ==
  Second * (IF override = {} THEN ceiling ELSE CHOOSE s \in override : TRUE)

\* timeout.as_secs().max(1), unless the operator has set it; 0 is no budget.
Budget ==
  Second * (IF override = {} THEN MaxOf(1, ceiling \div Second)
                             ELSE CHOOSE s \in override : TRUE)

\* Types; and an answer is only ever under way to somebody who waits for it.
TypeOK ==
  /\ ceiling \in Ceilings /\ override \in Overrides
  /\ attempts \in 0 .. MaxAttempts
  /\ caller \in [Attempts -> {"idle", "waiting", "answered", "timeout"}]
  /\ server \in [Attempts -> {"idle", "travelling", "running", "finished", "aborted"}]
  /\ age \in [Attempts -> 0 .. Horizon]
  /\ arrival \in [Attempts -> 0 .. Horizon]
  /\ \A i \in Attempts : caller[i] = "idle" <=> i > attempts
  /\ \A i \in Attempts : server[i] \in {"finished", "aborted"} => Waiting(i)

Init ==
  /\ ceiling \in Ceilings /\ override \in Overrides
  /\ attempts = 0
  /\ caller = [i \in Attempts |-> "idle"]
  /\ server = [i \in Attempts |-> "idle"]
  /\ age = [i \in Attempts |-> 0]
  /\ arrival = [i \in Attempts |-> 0]

-----------------------------------------------------------------------------
(* The caller, and run_query for it *)

\* The first call, or a retry: the attempt before has ended in a timeout, which
\* classify_error calls retryable.
Attempt ==
  /\ attempts < MaxAttempts
  /\ attempts > 0 => caller[attempts] = "timeout"
  /\ attempts' = attempts + 1
  /\ caller' = [caller EXCEPT ![attempts + 1] = "waiting"]
  /\ server' = [server EXCEPT ![attempts + 1] = "travelling"]
  /\ UNCHANGED <<ceiling, override, age, arrival>>

ReceiveAnswer(i) ==
  /\ Waiting(i)
  /\ \/ server[i] = "finished" /\ caller' = [caller EXCEPT ![i] = "answered"]
     \/ server[i] = "aborted" /\ caller' = [caller EXCEPT ![i] = "timeout"]
  /\ server' = [server EXCEPT ![i] = "idle"]
  /\ UNCHANGED <<ceiling, override, attempts, age, arrival>>

\* Mutant of Timeout: the answer outlives the future.
Timeout_KeepsAnswer(i) ==
  /\ Waiting(i)
  /\ age[i] >= ceiling
  /\ caller' = [caller EXCEPT ![i] = "timeout"]
  /\ UNCHANGED <<ceiling, override, attempts, server, age, arrival>>

\* The future is dropped, with an answer on its way; one that is already there
\* may win.
Timeout(i) ==
  /\ Waiting(i)
  /\ age[i] >= ceiling
  /\ caller' = [caller EXCEPT ![i] = "timeout"]
  /\ server' = [server EXCEPT ![i] = IF Busy(i) THEN @ ELSE "idle"]
  /\ UNCHANGED <<ceiling, override, attempts, age, arrival>>

-----------------------------------------------------------------------------
(* The network and the server *)

Arrive(i) ==
  /\ server[i] = "travelling"
  /\ server' = [server EXCEPT ![i] = "running"]
  /\ arrival' = [arrival EXCEPT ![i] = age[i]]
  /\ UNCHANGED <<ceiling, override, attempts, caller, age>>

\* A dropped request may not have been written yet.
NeverSent(i) ==
  /\ server[i] = "travelling" /\ ~Waiting(i)
  /\ server' = [server EXCEPT ![i] = "idle"]
  /\ UNCHANGED <<ceiling, override, attempts, caller, age, arrival>>

\* An answer to nobody is lost.
Answer(i, a) ==
  /\ server' = [server EXCEPT ![i] = IF Waiting(i) THEN a ELSE "idle"]
  /\ UNCHANGED <<ceiling, override, attempts, caller, age, arrival>>

\* The statement succeeds, or fails for good.
Finish(i) ==
  /\ server[i] = "running"
  /\ Answer(i, "finished")

OutOfBudget(i) ==
  server[i] = "running" /\ Budget > 0 /\ age[i] - arrival[i] >= Budget

Abort(i) ==
  /\ OutOfBudget(i)
  /\ Answer(i, "aborted")

-----------------------------------------------------------------------------
Due(i) ==
  \/ Waiting(i) /\ age[i] >= ceiling
  \/ server[i] = "travelling" /\ age[i] >= Transit
  \/ OutOfBudget(i)

Timed(i) == Waiting(i) \/ Busy(i)

Tick ==
  /\ \A i \in Attempts : ~Due(i)
  /\ \E i \in Attempts : Timed(i) /\ age[i] < Horizon
  /\ age' = [i \in Attempts |->
               IF Timed(i) THEN (IF age[i] < Horizon THEN age[i] + 1 ELSE age[i]) ELSE 0]
  /\ arrival' = [i \in Attempts |-> IF Timed(i) THEN arrival[i] ELSE 0]
  /\ UNCHANGED <<ceiling, override, attempts, caller, server>>

Next ==
  \/ Attempt \/ Tick
  \/ \E i \in Attempts :
       \/ ReceiveAnswer(i) \/ Timeout(i)
       \/ Arrive(i) \/ NeverSent(i) \/ Finish(i) \/ Abort(i)

\* Time passes, the runtime's timer fires, a request arrives or is dropped, and
\* the server keeps to the budget it was given.
Fairness ==
  /\ WF_vars(Tick)
  /\ \A i \in Attempts :
       WF_vars(Timeout(i)) /\ WF_vars(Arrive(i)) /\ WF_vars(Abort(i))

Spec == Init /\ [][Next]_vars /\ Fairness

-----------------------------------------------------------------------------
(* How long the server may work for an attempt. *)
Lifetime == MaxOf(ceiling, Second) + Transit

\* The comment in engine.rs: "at least 1s when a sub-second timeout is configured".
\* Without an operator's override the server never works for a call that was
\* given up much longer than for the call itself: a second at most, and the time
\* the request was under way.
OrphansAreShort ==
  override = {} => \A i \in Attempts : Busy(i) => age[i] <= Lifetime

\* However often a caller follows the advice to retry, the attempts that load the
\* server at one time are bounded, also when the ceiling is well below a second.
RetriesDoNotPileUp ==
  override = {} => Cardinality({i \in Attempts : Busy(i)}) <= 1 + Lifetime \div ceiling

\* The server is rid of every query, with or without its caller, unless the
\* operator has asked for no budget.
ServerIsFreed ==
  \A i \in Attempts : server[i] = "running" /\ override # {0} ~> server[i] # "running"

-----------------------------------------------------------------------------
\* README.md, types.rs and engine.rs say the server's budget is the ceiling in
\* "seconds, rounded up": the server does not give up a query its caller would
\* still wait for.  Violated: it is rounded down.
BudgetIsRoundedUp ==
  override = {} => \A i \in Attempts : server[i] = "aborted" => age[i] >= ceiling
=============================================================================
