------------------------ MODULE CallDeadline_proofs ------------------------
(***************************************************************************)
(* Theorems about CallDeadline: its types, and how long the server may     *)
(* work for a call that was given up, for every ceiling, length of a       *)
(* second, transit time and number of retries.                             *)
(***************************************************************************)
EXTENDS CallDeadline, FiniteSetTheorems, TLAPS

\* An attempt that has not begun has no age.
FreshInv == \A i \in Attempts : i > attempts => server[i] = "idle" /\ age[i] = 0

\* A request arrives in time, and the server keeps to the budget it was given.
BudgetInv ==
  \A i \in Attempts :
    /\ server[i] = "travelling" => age[i] <= Transit
    /\ server[i] = "running" =>
         /\ arrival[i] <= Transit
         /\ override = {} => age[i] <= arrival[i] + Budget

IInv == TypeOK /\ FreshInv /\ BudgetInv

-----------------------------------------------------------------------------
(* The budget *)

LEMMA RoundedDown ==
  ASSUME NEW a \in Nat, NEW b \in Nat \ {0}
  PROVE  a \div b \in Nat /\ b * (a \div b) <= a
OBVIOUS

\* timeout.as_secs().max(1): at least a second, and no more than the ceiling
\* or a second.
LEMMA BudgetBounds ==
  ASSUME TypeOK, override = {}
  PROVE  Budget \in Nat \ {0} /\ Budget <= MaxOf(ceiling, Second)
<1>1. ceiling \in Nat \ {0} /\ Second \in Nat \ {0}
  BY TimeAssumption DEF TypeOK
<1> DEFINE seconds == ceiling \div Second
<1>2. seconds \in Nat /\ Second * seconds <= ceiling
  BY <1>1, RoundedDown
<1>3. Budget = Second * MaxOf(1, seconds)
  BY DEF Budget
<1> HIDE DEF seconds
<1>4. CASE seconds <= 1
  <2>1. MaxOf(1, seconds) = 1
    BY <1>2, <1>4 DEF MaxOf
  <2>2. Budget = Second
    BY <1>1, <1>3, <2>1
  <2> QED BY <1>1, <2>2 DEF MaxOf
<1>5. CASE seconds > 1
  <2>1. MaxOf(1, seconds) = seconds
    BY <1>2, <1>5 DEF MaxOf
  <2>2. Budget = Second * seconds
    BY <1>3, <2>1
  <2>3. Second * seconds \in Nat \ {0}
    BY <1>1, <1>2, <1>5
  <2> QED BY <1>1, <1>2, <2>2, <2>3 DEF MaxOf
<1> QED BY <1>2, <1>4, <1>5

-----------------------------------------------------------------------------
(* The initial states and the steps *)

LEMMA InitIInv == Init => IInv
<1> SUFFICES ASSUME Init PROVE IInv
  OBVIOUS
<1>1. TypeOK
  BY TimeAssumption DEF Init, TypeOK, Attempts, Waiting
<1>2. FreshInv /\ BudgetInv
  BY DEF Init, FreshInv, BudgetInv
<1> QED BY <1>1, <1>2 DEF IInv

LEMMA Ages ==
  ASSUME TypeOK, NEW i \in Attempts
  PROVE  /\ i \in Nat /\ attempts \in Nat /\ age[i] \in Nat /\ arrival[i] \in Nat
         /\ ceiling \in Nat \ {0} /\ Transit \in Nat /\ Horizon \in Nat
         /\ age[i] <= Horizon /\ arrival[i] <= Horizon
BY TimeAssumption DEF TypeOK, Attempts

\* The steps that concern one attempt and do not let time pass.
LEMMA AttemptStep ==
  ASSUME IInv, NEW i \in Attempts,
         ReceiveAnswer(i) \/ Timeout(i) \/ Arrive(i) \/ NeverSent(i) \/ Finish(i) \/ Abort(i)
  PROVE  IInv'
<1> USE DEF IInv
<1>1. /\ UNCHANGED <<ceiling, override, attempts, age>>
      /\ i <= attempts
      /\ \E c \in {caller[i], "answered", "timeout"} :
           caller' = [caller EXCEPT ![i] = c] /\ (caller[i] # "idle" => c # "idle")
      /\ \E s \in {server[i], "idle", "running", "finished", "aborted"} :
           /\ server' = [server EXCEPT ![i] = s]
           /\ s \in {"finished", "aborted"} => caller'[i] = "waiting"
           /\ s = "running" => \/ server[i] = "running" /\ UNCHANGED arrival
                               \/ /\ server[i] = "travelling"
                                  /\ arrival' = [arrival EXCEPT ![i] = age[i]]
           /\ s # "running" => UNCHANGED arrival
  <2>1. i <= attempts
    <3>1. caller[i] # "idle" \/ server[i] # "idle"
      BY DEF ReceiveAnswer, Timeout, Arrive, NeverSent, Finish, Abort, OutOfBudget, Waiting
    <3> QED BY <3>1, Ages DEF FreshInv, TypeOK
  <2>2. caller \in [Attempts -> {"idle", "waiting", "answered", "timeout"}]
        /\ caller = [caller EXCEPT ![i] = caller[i]]
    BY DEF TypeOK
  <2>3. server \in [Attempts -> {"idle", "travelling", "running", "finished", "aborted"}]
        /\ server = [server EXCEPT ![i] = server[i]]
    BY DEF TypeOK
  <2>4. CASE ReceiveAnswer(i)
    BY <2>1, <2>2, <2>3, <2>4 DEF ReceiveAnswer, Waiting
  <2>5. CASE Timeout(i)
    BY <2>1, <2>2, <2>3, <2>5 DEF Timeout, Waiting, Busy
  <2>6. CASE Arrive(i)
    BY <2>1, <2>2, <2>3, <2>6 DEF Arrive
  <2>7. CASE NeverSent(i)
    BY <2>1, <2>2, <2>3, <2>7 DEF NeverSent
  <2>8. CASE Finish(i) \/ Abort(i)
    BY <2>1, <2>2, <2>3, <2>8 DEF Finish, Abort, Answer, Waiting
  <2> QED BY <2>4, <2>5, <2>6, <2>7, <2>8
<1>2. PICK c \in {caller[i], "answered", "timeout"} :
        caller' = [caller EXCEPT ![i] = c] /\ (caller[i] # "idle" => c # "idle")
  BY <1>1
<1>3. PICK s \in {server[i], "idle", "running", "finished", "aborted"} :
           /\ server' = [server EXCEPT ![i] = s]
           /\ s \in {"finished", "aborted"} => caller'[i] = "waiting"
           /\ s = "running" => \/ server[i] = "running" /\ UNCHANGED arrival
                               \/ /\ server[i] = "travelling"
                                  /\ arrival' = [arrival EXCEPT ![i] = age[i]]
           /\ s # "running" => UNCHANGED arrival
  BY <1>1
<1>4. TypeOK'
  <2>1. caller[i] # "idle"
    BY <1>1, Ages DEF TypeOK
  <2>2. arrival' \in [Attempts -> 0 .. Horizon]
    BY <1>3 DEF TypeOK
  <2>3. \A j \in Attempts : (caller[j] = "idle" <=> j > attempts)'
    BY <1>1, <1>2, <2>1 DEF TypeOK
  <2>4. \A j \in Attempts : (server[j] \in {"finished", "aborted"} => Waiting(j))'
    BY <1>2, <1>3 DEF TypeOK, Waiting
  <2> QED BY <1>1, <1>2, <1>3, <2>2, <2>3, <2>4 DEF TypeOK
<1>5. FreshInv'
  BY <1>1, <1>3, Ages DEF FreshInv, TypeOK
<1>6. BudgetInv'
  <2> SUFFICES ASSUME NEW j \in Attempts
               PROVE  /\ server'[j] = "travelling" => age[j] <= Transit
                      /\ server'[j] = "running" =>
                           /\ arrival'[j] <= Transit
                           /\ override = {} => age[j] <= arrival'[j] + Budget
    BY <1>1 DEF BudgetInv, Budget
  <2>1. override = {} => Budget \in Nat
    BY BudgetBounds
  <2>2. CASE j # i
    BY <1>3, <2>2 DEF BudgetInv, TypeOK
  <2>3. CASE j = i
    <3>1. server'[i] = s
      BY <1>3 DEF TypeOK
    <3>2. CASE s = "running" /\ server[i] = "travelling" /\ arrival' = [arrival EXCEPT ![i] = age[i]]
      <4>1. arrival'[i] = age[i] /\ age[i] <= Transit
        BY <3>2 DEF BudgetInv, TypeOK
      <4> QED BY <2>1, <2>3, <3>1, <3>2, <4>1, Ages
    <3>3. CASE s = "running" /\ server[i] = "running" /\ UNCHANGED arrival
      BY <2>3, <3>1, <3>3 DEF BudgetInv
    <3>4. CASE s # "running"
      BY <1>3, <2>3, <3>1, <3>4 DEF BudgetInv
    <3> QED BY <1>3, <3>2, <3>3, <3>4
  <2> QED BY <2>2, <2>3
<1> QED BY <1>4, <1>5, <1>6

LEMMA StepIInv == IInv /\ [Next]_vars => IInv'
<1> SUFFICES ASSUME IInv, [Next]_vars PROVE IInv'
  OBVIOUS
<1> USE DEF IInv
<1>1. CASE Attempt
  <2> DEFINE new == attempts + 1
  <2>1. /\ attempts' = new /\ new \in Attempts /\ attempts \in Nat
        /\ caller' = [caller EXCEPT ![new] = "waiting"]
        /\ server' = [server EXCEPT ![new] = "travelling"]
        /\ UNCHANGED <<ceiling, override, age, arrival>>
    BY <1>1, TimeAssumption DEF Attempt, TypeOK, Attempts
  <2>2. new > attempts /\ new \in Nat /\ \A j \in Attempts : j \in Nat
    BY <2>1 DEF Attempts
  <2>3. TypeOK'
    <3>1. new \in 0 .. MaxAttempts
      BY <2>1 DEF Attempts
    <3>2. \A j \in Attempts : (caller[j] = "idle" <=> j > attempts)'
      BY <2>1, <2>2 DEF TypeOK
    <3>3. \A j \in Attempts : (server[j] \in {"finished", "aborted"} => Waiting(j))'
      BY <2>1 DEF TypeOK, Waiting
    <3> QED BY <2>1, <3>1, <3>2, <3>3 DEF TypeOK
  <2>4. FreshInv'
    BY <2>1, <2>2 DEF FreshInv, TypeOK
  <2>5. BudgetInv'
    <3>1. age[new] = 0
      BY <2>1, <2>2 DEF FreshInv
    <3>2. Budget' = Budget
      BY <2>1 DEF Budget
    <3>3. age[new] <= Transit
      BY <3>1, TimeAssumption
    <3> QED BY <2>1, <3>2, <3>3 DEF BudgetInv, TypeOK
  <2> QED BY <2>3, <2>4, <2>5
<1>2. CASE Tick
  <2>1. /\ \A i \in Attempts : ~Due(i)
        /\ age' = [i \in Attempts |->
               IF Timed(i) THEN (IF age[i] < Horizon THEN age[i] + 1 ELSE age[i]) ELSE 0]
        /\ arrival' = [i \in Attempts |-> IF Timed(i) THEN arrival[i] ELSE 0]
        /\ UNCHANGED <<ceiling, override, attempts, caller, server>>
    BY <1>2 DEF Tick
  <2>2. TypeOK'
    <3>1. ASSUME NEW i \in Attempts
          PROVE  age'[i] \in 0 .. Horizon /\ arrival'[i] \in 0 .. Horizon
      <4>1. /\ age[i] \in Nat /\ arrival[i] \in Nat /\ Horizon \in Nat
            /\ age[i] <= Horizon /\ arrival[i] <= Horizon
        BY Ages
      <4> QED BY <2>1, <4>1
    <3>2. age' \in [Attempts -> 0 .. Horizon] /\ arrival' \in [Attempts -> 0 .. Horizon]
      BY <2>1, <3>1
    <3> QED BY <2>1, <3>2 DEF TypeOK, Waiting
  <2>3. FreshInv'
    <3> SUFFICES ASSUME NEW i \in Attempts, i > attempts PROVE server[i] = "idle" /\ age'[i] = 0
      BY <2>1 DEF FreshInv
    <3>1. server[i] = "idle" /\ caller[i] = "idle"
      BY DEF FreshInv, TypeOK
    <3> QED BY <2>1, <3>1 DEF Timed, Waiting, Busy
  <2>4. BudgetInv'
    <3> SUFFICES ASSUME NEW i \in Attempts
                 PROVE  /\ server[i] = "travelling" => age'[i] <= Transit
                        /\ server[i] = "running" =>
                             /\ arrival'[i] <= Transit
                             /\ override = {} => age'[i] <= arrival'[i] + Budget
      BY <2>1 DEF BudgetInv, Budget
    <3>1. Busy(i) => age'[i] <= age[i] + 1 /\ arrival'[i] = arrival[i]
      BY <2>1, Ages DEF Timed
    <3>2. ASSUME server[i] = "travelling"
          PROVE  age'[i] <= Transit
      <4>1. ~(age[i] >= Transit)
        BY <2>1, <3>2 DEF Due
      <4>2. age'[i] \in Nat
        BY <2>2, Ages, TimeAssumption DEF TypeOK
      <4> QED BY <3>1, <3>2, <4>1, <4>2, Ages DEF Busy
    <3>3. ASSUME server[i] = "running"
          PROVE  arrival'[i] <= Transit
      BY <3>1, <3>3 DEF Busy, BudgetInv
    <3>4. ASSUME server[i] = "running", override = {}
          PROVE  age'[i] <= arrival'[i] + Budget
      <4>1. Budget \in Nat \ {0}
        BY <3>4, BudgetBounds
      <4>2. ~(age[i] - arrival[i] >= Budget)
        BY <2>1, <3>4, <4>1 DEF Due, OutOfBudget
      <4>3. age'[i] \in Nat
        BY <2>2, Ages, TimeAssumption DEF TypeOK
      <4>4. age[i] \in Nat /\ arrival[i] \in Nat
        BY Ages
      <4> QED BY <3>1, <3>4, <4>1, <4>2, <4>3, <4>4 DEF Busy
    <3> QED BY <3>2, <3>3, <3>4
  <2> QED BY <2>2, <2>3, <2>4
<1>3. CASE \E i \in Attempts :
             \/ ReceiveAnswer(i) \/ Timeout(i)
             \/ Arrive(i) \/ NeverSent(i) \/ Finish(i) \/ Abort(i)
  BY <1>3, AttemptStep
<1>4. CASE UNCHANGED vars
  BY <1>4 DEF vars, TypeOK, FreshInv, BudgetInv, Budget, Waiting
<1> QED BY <1>1, <1>2, <1>3, <1>4 DEF Next

LEMMA Invariance == Spec => []IInv
BY InitIInv, StepIInv, PTL DEF Spec

-----------------------------------------------------------------------------
\* The types of the attempts, and that an answer is only ever under way to a
\* caller that waits (run_query in lib.rs drops the future).
THEOREM TypeCorrect == Spec => []TypeOK
<1>1. IInv => TypeOK
  BY DEF IInv
<1> QED BY <1>1, Invariance, PTL

\* What an attempt has lived while the server is at it, and that it still ages.
LEMMA LifeBound ==
  ASSUME IInv, override = {}, NEW i \in Attempts, Busy(i)
  PROVE  /\ Lifetime \in Nat /\ Lifetime <= Horizon
         /\ age[i] <= Lifetime
         /\ ~Due(i) => age[i] < Lifetime
<1>1. Budget \in Nat \ {0} /\ Budget <= MaxOf(ceiling, Second)
  BY BudgetBounds DEF IInv
<1>2. MaxOf(ceiling, Second) \in Nat \ {0}
  BY TimeAssumption DEF IInv, TypeOK, MaxOf
<1>3. age[i] \in Nat /\ arrival[i] \in Nat /\ Transit \in Nat
  BY Ages DEF IInv
<1>4. Lifetime \in Nat /\ Lifetime <= Horizon
  BY <1>2, <1>3, TimeAssumption DEF IInv, TypeOK, Lifetime
<1>5. CASE server[i] = "travelling"
  BY <1>2, <1>3, <1>4, <1>5 DEF IInv, BudgetInv, Lifetime, Due
<1>6. CASE server[i] = "running"
  <2>1. arrival[i] <= Transit /\ age[i] <= arrival[i] + Budget
    BY <1>6 DEF IInv, BudgetInv
  <2>2. ~Due(i) => ~(age[i] - arrival[i] >= Budget)
    BY <1>1, <1>6 DEF Due, OutOfBudget
  <2> QED BY <1>1, <1>2, <1>3, <1>4, <2>1, <2>2 DEF Lifetime
<1> QED BY <1>5, <1>6 DEF Busy

\* Whatever the ceiling, the rounding of max_execution_time in engine.rs leaves
\* the server at most the larger of the ceiling and a second, and the transit.
THEOREM ShortOrphans == Spec => []OrphansAreShort
<1>1. IInv => OrphansAreShort
  BY LifeBound DEF OrphansAreShort
<1> QED BY <1>1, Invariance, PTL

-----------------------------------------------------------------------------
(* How many attempts the server works for at a time *)

\* An attempt that is still worked for after its caller's timeout is a ceiling
\* old, and so a ceiling older than every attempt after it.
SpacingInv ==
  override = {} =>
    /\ \A i \in Attempts : Busy(i) /\ caller[i] = "timeout" => age[i] >= ceiling
    /\ \A i \in Attempts, j \in Attempts :
         i < j /\ j <= attempts /\ Busy(i) => age[i] >= age[j] + ceiling

LEMMA InitSpacing == Init => SpacingInv
BY DEF Init, SpacingInv, Busy

LEMMA AttemptSpacing == ASSUME IInv, SpacingInv, Attempt PROVE SpacingInv'
<1> SUFFICES ASSUME override = {} PROVE SpacingInv'
  BY DEF Attempt, SpacingInv
<1> DEFINE new == attempts + 1
<1>1. /\ attempts' = new /\ new \in Attempts /\ attempts \in Nat
      /\ caller' = [caller EXCEPT ![new] = "waiting"]
      /\ server' = [server EXCEPT ![new] = "travelling"]
      /\ attempts > 0 => caller[attempts] = "timeout"
      /\ UNCHANGED <<ceiling, override, age>>
  BY TimeAssumption DEF Attempt, IInv, TypeOK, Attempts
<1>2. age[new] = 0 /\ ceiling \in Nat \ {0}
  BY <1>1, Ages DEF IInv, FreshInv
<1>3. ASSUME NEW i \in Attempts, Busy(i)', (caller[i] = "timeout")'
      PROVE  age[i] >= ceiling
  BY <1>1, <1>3 DEF SpacingInv, Busy, IInv, TypeOK
<1>4. ASSUME NEW i \in Attempts, NEW j \in Attempts, i < j, j <= new, Busy(i)'
      PROVE  age[i] >= age[j] + ceiling
  <2>1. i \in Nat \ {0} /\ j \in Nat /\ age[i] \in Nat /\ age[j] \in Nat
    BY Ages, TimeAssumption DEF IInv, Attempts
  <2>2. i <= attempts /\ Busy(i)
    BY <1>1, <1>4, <2>1 DEF Busy, IInv, TypeOK
  <2>3. CASE j <= attempts
    BY <1>4, <2>2, <2>3 DEF SpacingInv
  <2>4. CASE j = new
    <3>1. CASE i = attempts
      <4>1. caller[i] = "timeout"
        BY <1>1, <2>1, <3>1
      <4> QED BY <1>2, <2>1, <2>2, <2>4, <4>1 DEF SpacingInv
    <3>2. CASE i < attempts
      <4>1. attempts \in Attempts
        BY <1>1, <2>1, <3>2, TimeAssumption DEF Attempts
      <4>2. age[attempts] \in Nat
        BY <4>1, Ages DEF IInv
      <4>3. age[i] >= age[attempts] + ceiling
        BY <1>1, <2>2, <3>2, <4>1 DEF SpacingInv
      <4> QED BY <1>2, <2>1, <2>4, <4>2, <4>3
    <3> QED BY <1>1, <2>1, <2>2, <3>1, <3>2
  <2> QED BY <1>1, <1>4, <2>1, <2>3, <2>4
<1> QED BY <1>1, <1>3, <1>4 DEF SpacingInv

LEMMA TickSpacing == ASSUME IInv, SpacingInv, Tick PROVE SpacingInv'
<1> SUFFICES ASSUME override = {} PROVE SpacingInv'
  BY DEF Tick, SpacingInv
<1>1. /\ \A i \in Attempts : ~Due(i)
      /\ age' = [i \in Attempts |->
             IF Timed(i) THEN (IF age[i] < Horizon THEN age[i] + 1 ELSE age[i]) ELSE 0]
      /\ UNCHANGED <<ceiling, override, attempts, caller, server>>
  BY DEF Tick
<1>2. ASSUME NEW i \in Attempts
      PROVE  age[i] \in Nat /\ age'[i] \in Nat /\ age'[i] <= age[i] + 1
  BY <1>1, Ages DEF IInv
<1>3. ASSUME NEW i \in Attempts, Busy(i)
      PROVE  age'[i] = age[i] + 1
  <2>1. Timed(i) /\ age[i] < Lifetime /\ Lifetime <= Horizon /\ Lifetime \in Nat
    BY <1>1, <1>3, LifeBound DEF Timed
  <2> QED BY <1>1, <1>2, <2>1, TimeAssumption
<1>4. ceiling \in Nat
  BY TimeAssumption DEF IInv, TypeOK
<1>5. ASSUME NEW i \in Attempts, Busy(i), caller[i] = "timeout"
      PROVE  age'[i] >= ceiling
  BY <1>2, <1>3, <1>4, <1>5 DEF SpacingInv
<1>6. ASSUME NEW i \in Attempts, NEW j \in Attempts, i < j, j <= attempts, Busy(i)
      PROVE  age'[i] >= age'[j] + ceiling
  <2>1. age[i] >= age[j] + ceiling
    BY <1>6 DEF SpacingInv
  <2>2. age[j] \in Nat /\ age'[j] \in Nat /\ age'[j] <= age[j] + 1 /\ age[i] \in Nat
    BY <1>2
  <2> QED BY <1>3, <1>4, <1>6, <2>1, <2>2
<1> QED BY <1>1, <1>5, <1>6 DEF SpacingInv, Busy

\* The steps of one attempt never make it busy; its caller gives it up at the
\* ceiling, or is told by a server that is no longer busy.
LEMMA OneSpacing ==
  ASSUME IInv, SpacingInv, NEW k \in Attempts,
         ReceiveAnswer(k) \/ Timeout(k) \/ Arrive(k) \/ NeverSent(k) \/ Finish(k) \/ Abort(k)
  PROVE  SpacingInv'
<1>1. UNCHANGED <<ceiling, override, attempts, age>>
  BY DEF ReceiveAnswer, Timeout, Arrive, NeverSent, Finish, Abort, Answer
<1>2. ASSUME NEW i \in Attempts, Busy(i)' PROVE Busy(i)
  BY <1>2 DEF ReceiveAnswer, Timeout, Arrive, NeverSent, Finish, Abort, Answer, OutOfBudget,
              Waiting, Busy, IInv, TypeOK
<1>3. ASSUME NEW i \in Attempts, Busy(i)', (caller[i] = "timeout")'
      PROVE  caller[i] = "timeout" \/ age[i] >= ceiling
  <2>1. CASE i # k
    BY <1>3, <2>1 DEF ReceiveAnswer, Timeout, Arrive, NeverSent, Finish, Abort, Answer, IInv, TypeOK
  <2>2. CASE i = k
    BY <1>3, <2>2 DEF ReceiveAnswer, Timeout, Arrive, NeverSent, Finish, Abort, Answer,
                      Busy, IInv, TypeOK
  <2> QED BY <2>1, <2>2
<1> QED BY <1>1, <1>2, <1>3 DEF SpacingInv

LEMMA StepSpacing == IInv /\ SpacingInv /\ [Next]_vars => SpacingInv'
<1> SUFFICES ASSUME IInv, SpacingInv, [Next]_vars PROVE SpacingInv'
  OBVIOUS
<1>1. CASE Attempt
  BY <1>1, AttemptSpacing
<1>2. CASE Tick
  BY <1>2, TickSpacing
<1>3. CASE \E i \in Attempts :
             \/ ReceiveAnswer(i) \/ Timeout(i)
             \/ Arrive(i) \/ NeverSent(i) \/ Finish(i) \/ Abort(i)
  BY <1>3, OneSpacing
<1>4. CASE UNCHANGED vars
  BY <1>4 DEF vars, SpacingInv, Busy
<1> QED BY <1>1, <1>2, <1>3, <1>4 DEF Next

LEMMA QuotientsGrow ==
  ASSUME NEW a \in Nat, NEW b \in Nat, NEW c \in Nat \ {0}
  PROVE  /\ a \div c \in Nat
         /\ a <= b => a \div c <= b \div c
         /\ a >= b + c => a \div c > b \div c
OBVIOUS

\* The attempts the server works for lie a ceiling apart, within a lifetime.
LEMMA FewBusy ==
  ASSUME IInv, SpacingInv, override = {}
  PROVE  Cardinality({i \in Attempts : Busy(i)}) <= 1 + Lifetime \div ceiling
<1> DEFINE busy == {i \in Attempts : Busy(i)}
           most == Lifetime \div ceiling
           slot == [i \in busy |-> age[i] \div ceiling]
<1>1. ceiling \in Nat \ {0} /\ Lifetime \in Nat
  BY TimeAssumption DEF IInv, TypeOK, Lifetime, MaxOf
<1>2. most \in Nat
  BY <1>1, QuotientsGrow
<1>3. ASSUME NEW i \in busy
      PROVE  slot[i] \in 0 .. most
  <2>1. age[i] \in Nat /\ age[i] <= Lifetime
    BY LifeBound, Ages DEF IInv
  <2>2. age[i] \div ceiling \in Nat /\ age[i] \div ceiling <= most
    BY <1>1, <2>1, QuotientsGrow
  <2> QED BY <1>2, <2>2
<1>4. ASSUME NEW i \in busy, NEW j \in busy, i < j
      PROVE  slot[i] > slot[j]
  <2>1. age[i] \in Nat /\ age[j] \in Nat /\ attempts \in Nat /\ j \in Nat
    BY Ages DEF IInv
  <2>2. j <= attempts
    BY <2>1 DEF IInv, FreshInv, Busy
  <2>3. age[i] >= age[j] + ceiling
    BY <1>4, <2>2 DEF SpacingInv
  <2> QED BY <1>1, <2>1, <2>3, QuotientsGrow
<1>5. \A i \in busy : i \in Nat
  BY Ages DEF IInv
<1>6. IsFiniteSet(0 .. most) /\ Cardinality(0 .. most) = most + 1
  BY <1>2, FS_Interval
<1> HIDE DEF most
<1>7. slot \in [busy -> 0 .. most]
  BY <1>3
<1>8. slot \in Injection(busy, 0 .. most)
  <2> SUFFICES ASSUME NEW i \in busy, NEW j \in busy, slot[i] = slot[j]
               PROVE  i = j
    BY <1>7 DEF Injection, IsInjective
  <2>1. slot[i] \in Nat /\ slot[j] \in Nat
    BY <1>2, <1>3
  <2>2. i \in Nat /\ j \in Nat
    BY <1>5
  <2>3. ~(i < j) /\ ~(j < i)
    BY <1>4, <2>1
  <2> QED BY <2>2, <2>3
<1> HIDE DEF busy, slot
<1>9. Cardinality(busy) <= Cardinality(0 .. most)
  BY <1>6, <1>8, FS_Injection
<1> QED BY <1>2, <1>6, <1>9 DEF busy, most

\* However often a caller retries, the attempts the server works for at one time
\* are bounded by the ceiling and the server's budget (engine.rs), also below a
\* second.
THEOREM BoundedLoad == Spec => []RetriesDoNotPileUp
<1>1. Spec => []SpacingInv
  BY InitSpacing, StepSpacing, Invariance, PTL DEF Spec
<1>2. IInv /\ SpacingInv => RetriesDoNotPileUp
  BY FewBusy DEF RetriesDoNotPileUp
<1> QED BY <1>1, <1>2, Invariance, PTL
=============================================================================
