-------------------------- MODULE PollWatch_proofs --------------------------
(***************************************************************************)
(* Theorems about PollWatch: its types, and that a watcher never signals   *)
(* more often than the table has changed.                                  *)
(***************************************************************************)
EXTENDS PollWatch, TLAPS

\* A row is never ahead of the table, and one that is up to date shows it.
RowInv ==
  \A r \in row : r.seen <= writes /\ (r.seen = writes => r.tracked = mark)

\* Before the first row has been taken there is no cursor and no signal.
StartInv ==
  /\ baseline = {} => cursor = {} /\ signals = 0
  /\ phase = "idle" => baseline = {} /\ row = {}

\* What the loop would record, were the scalar v.
Seen(s, v) == CursorOf(s, [tracked |-> v, other |-> OtherValue, seen |-> 0])

\* Up to a moment when the table had changed n times and its scalar was v there
\* were no more signals than changes since the baseline; if there were as many,
\* nothing has changed since the last row, and v is no news.
Covered(n, v) ==
  \A b \in baseline :
    /\ b + signals <= n
    /\ b + signals = n => \A s \in spec : cursor = Seen(s, v)

CountInv == Covered(writes, mark) /\ \A r \in row : Covered(r.seen, r.tracked)

IInv == TypeOK /\ RowInv /\ StartInv /\ CountInv

-----------------------------------------------------------------------------
(* What the loop reads off a row *)

LEMMA OptionElements ==
  ASSUME NEW S, NEW o \in Option(S), NEW x \in o
  PROVE  x \in S /\ o = {x}
BY DEF Option

LEMMA OptionOf ==
  ASSUME NEW S, NEW x \in S
  PROVE  {x} \in Option(S)
BY DEF Option

LEMMA NoOption ==
  ASSUME NEW S
  PROVE  {} \in Option(S)
BY DEF Option

LEMMA OptionTypes ==
  ASSUME TypeOK
  PROVE  /\ \A r \in row : r.seen \in Nat
         /\ \A b \in baseline : b \in Nat
<1>1. \A r \in row : r \in Rows
  <2> SUFFICES ASSUME NEW r \in row PROVE r \in Rows
    OBVIOUS
  <2>1. row \in Option(Rows)
    BY DEF TypeOK
  <2> QED BY <2>1, OptionElements
<1>2. \A b \in baseline : b \in 0 .. MaxWrites
  <2> SUFFICES ASSUME NEW b \in baseline PROVE b \in 0 .. MaxWrites
    OBVIOUS
  <2>1. baseline \in Option(0 .. MaxWrites)
    BY DEF TypeOK
  <2> QED BY <2>1, OptionElements
<1> QED BY <1>1, <1>2 DEF Rows

\* A row gives no cursor or one in the range of the scalars.
LEMMA CursorType ==
  ASSUME NEW s \in WatchSpecType, NEW r \in Rows
  PROVE  CursorOf(s, r) \in Option(1 .. OtherValue)
<1> DEFINE scalar == IF s.first = "tracked" THEN r.tracked ELSE r.other
<1>1. scalar \in 0 .. OtherValue
  BY BoundsAssumption DEF Rows, Marks, OtherValue
<1>2. CASE scalar = 0
  <2>1. CursorOf(s, r) = {}
    BY <1>2 DEF CursorOf
  <2> QED BY <2>1 DEF Option
<1>3. CASE scalar # 0
  <2>1. CursorOf(s, r) = {scalar}
    BY <1>3 DEF CursorOf
  <2>2. scalar \in 1 .. OtherValue
    BY <1>1, <1>3, BoundsAssumption DEF OtherValue
  <2> QED BY <2>1, <2>2, OptionOf
<1> QED BY <1>2, <1>3

\* It depends on the scalar alone.
LEMMA SeenIsCursor ==
  ASSUME NEW s, NEW r \in Rows
  PROVE  CursorOf(s, r) = Seen(s, r.tracked)
<1>1. r.other = OtherValue
  BY DEF Rows
<1> QED BY <1>1 DEF Seen, CursorOf

-----------------------------------------------------------------------------
(* The initial states and the steps *)

LEMMA InitIInv == Init => IInv
<1> SUFFICES ASSUME Init PROVE IInv
  OBVIOUS
<1>1. TypeOK
  <2>1. 0 \in 0 .. MaxWrites
    BY BoundsAssumption
  <2> QED BY <2>1, NoOption DEF Init, TypeOK
<1>2. RowInv /\ StartInv /\ CountInv
  BY DEF Init, RowInv, StartInv, CountInv, Covered
<1> QED BY <1>1, <1>2 DEF IInv

\* The steps of the loop on a row, as one: whatever it signals, the row is gone
\* and the cursor has not changed or is the row's.
LEMMA TakeRow ==
  ASSUME IInv, TickDone
  PROVE  IInv'
<1>1. PICK s \in spec, r \in row :
        /\ \/ /\ CursorOf(s, r) = {} \/ CursorOf(s, r) = cursor
              /\ UNCHANGED <<cursor, signals>>
              /\ baseline' = IF baseline = {} THEN {r.seen} ELSE baseline
           \/ /\ cursor = {} /\ CursorOf(s, r) # {}
              /\ cursor' = CursorOf(s, r) /\ signals' = signals
              /\ baseline' = IF baseline = {} THEN {r.seen} ELSE baseline
           \/ /\ baseline # {} /\ baseline' = baseline
              /\ CursorOf(s, r) # cursor
              /\ cursor' = CursorOf(s, r) /\ signals' = signals + 1
        /\ phase' = "sleeping" /\ row' = {}
        /\ UNCHANGED <<mark, writes, spec, stop>>
  BY DEF TickDone, TickNoChange, TickBaseline, TickSignals, table
<1> USE DEF IInv
<1>2. /\ s \in WatchSpecType /\ spec = {s}
      /\ r \in Rows /\ row = {r}
  BY <1>1, OptionElements DEF TypeOK
<1>3. CursorOf(s, r) \in Option(1 .. OtherValue)
  BY <1>2, CursorType
<1>4. /\ writes \in 0 .. MaxWrites /\ MaxWrites \in Nat /\ signals \in Nat
      /\ r.seen \in Nat /\ r.seen <= writes
      /\ r.seen = writes => r.tracked = mark
  BY <1>2, BoundsAssumption DEF TypeOK, Rows, RowInv
<1>5. CursorOf(s, r) = Seen(s, r.tracked)
  BY <1>2, SeenIsCursor
<1>6. baseline' \in Option(0 .. MaxWrites) /\ baseline' # {}
  <2>1. r.seen \in 0 .. MaxWrites
    BY <1>4
  <2> QED BY <1>1, <2>1, OptionOf DEF TypeOK
<1>7. TypeOK'
  <2>1. cursor' \in Option(1 .. OtherValue) /\ signals' \in Nat
    BY <1>1, <1>3 DEF TypeOK
  <2> QED BY <1>1, <1>6, <2>1 DEF TypeOK, Option
<1>8. RowInv' /\ StartInv'
  BY <1>1, <1>6 DEF RowInv, StartInv
<1>9. Covered(writes, mark)'
  <2> SUFFICES ASSUME NEW b \in baseline'
               PROVE  /\ b + signals' <= writes
                      /\ b + signals' = writes => cursor' = Seen(s, mark)
    BY <1>1, <1>2 DEF Covered, Seen, CursorOf
  <2>1. b \in Nat
    BY <1>6, OptionElements, <1>4
  <2>2. CASE baseline = {}
    <3>1. b = r.seen /\ signals' = 0 /\ cursor' = CursorOf(s, r)
      BY <1>1, <2>2 DEF StartInv
    <3> QED BY <3>1, <2>1, <1>4, <1>5
  <2>3. CASE baseline # {}
    <3>1. b \in baseline
      BY <1>1, <2>3
    <3>2. /\ b + signals <= r.seen
          /\ b + signals = r.seen => cursor = Seen(s, r.tracked)
      BY <3>1, <1>2 DEF CountInv, Covered
    <3>3. /\ b + signals <= writes
          /\ b + signals = writes => cursor = Seen(s, mark)
      BY <3>1, <1>2 DEF CountInv, Covered
    <3>4. CASE UNCHANGED <<cursor, signals>>
      BY <3>3, <3>4
    <3>5. CASE signals' = signals /\ cursor' = CursorOf(s, r)
      BY <3>2, <3>5, <2>1, <1>4, <1>5
    <3>6. CASE /\ signals' = signals + 1
               /\ cursor' = CursorOf(s, r) /\ CursorOf(s, r) # cursor
      <4>1. b + signals # r.seen
        BY <3>2, <3>6, <1>5
      <4>2. b + signals' <= r.seen
        BY <3>2, <3>6, <4>1, <2>1, <1>4
      <4> QED BY <4>2, <3>6, <2>1, <1>4, <1>5
    <3> QED BY <1>1, <3>4, <3>5, <3>6
  <2> QED BY <2>2, <2>3
<1>10. CountInv'
  BY <1>1, <1>9 DEF CountInv, Covered
<1> QED BY <1>7, <1>8, <1>10

LEMMA StepIInv == IInv /\ [Next]_vars => IInv'
<1> SUFFICES ASSUME IInv, [Next]_vars PROVE IInv'
  OBVIOUS
<1> USE DEF IInv
<1>1. CASE Write
  <2>1. /\ writes' = writes + 1 /\ mark' \in Marks /\ UNCHANGED <<watcher, row>>
        /\ writes < MaxWrites
    BY <1>1 DEF Write
  <2>2. writes \in Nat /\ writes' \in 0 .. MaxWrites
    BY <2>1, BoundsAssumption DEF TypeOK
  <2>3. TypeOK'
    BY <2>1, <2>2 DEF TypeOK, watcher
  <2>4. RowInv' /\ StartInv'
    <3>1. \A r \in row : r.seen \in Nat
      BY OptionTypes
    <3> QED BY <2>1, <2>2, <3>1 DEF RowInv, StartInv, watcher
  <2>5. CountInv'
    <3>1. \A b \in baseline : b \in Nat
      BY OptionTypes
    <3>2. \A b \in baseline : b + signals <= writes
      BY DEF CountInv, Covered
    <3>3. \A b \in baseline : b + signals <= writes' /\ b + signals # writes'
      BY <2>1, <2>2, <3>1, <3>2 DEF TypeOK
    <3>4. Covered(writes, mark)'
      BY <2>1, <3>3 DEF Covered, watcher
    <3>5. \A r \in row : Covered(r.seen, r.tracked)'
      BY <2>1 DEF CountInv, Covered, watcher
    <3> QED BY <2>1, <3>4, <3>5 DEF CountInv
  <2> QED BY <2>3, <2>4, <2>5
<1>2. CASE Watch
  <2>1. PICK s \in WatchSpecs : spec' = {s}
    BY <1>2 DEF Watch
  <2>2. /\ phase = "idle" /\ phase' = "sleeping"
        /\ UNCHANGED <<mark, writes, stop, row, cursor, signals, baseline>>
    BY <1>2 DEF Watch, table
  <2>3. TypeOK'
    <3>1. spec' \in Option(WatchSpecType)
      BY <2>1, WatchSpecsAssumption, OptionOf
    <3> QED BY <2>2, <3>1 DEF TypeOK
  <2> QED BY <2>2, <2>3 DEF RowInv, StartInv, CountInv, Covered
<1>3. CASE ServerComputes
  <2> DEFINE r == [tracked |-> mark, other |-> OtherValue, seen |-> writes]
  <2>1. /\ row' = {r} /\ phase = "querying"
        /\ UNCHANGED <<table, watcher>>
    BY <1>3 DEF ServerComputes
  <2>2. r \in Rows
    BY BoundsAssumption DEF TypeOK, Rows
  <2>3. TypeOK'
    <3>1. row' \in Option(Rows)
      BY <2>1, <2>2, OptionOf
    <3> QED BY <2>1, <3>1 DEF TypeOK, table, watcher
  <2>4. RowInv' /\ StartInv'
    BY <2>1, BoundsAssumption DEF RowInv, StartInv, table, watcher, TypeOK
  <2>5. CountInv'
    BY <2>1 DEF CountInv, Covered, table, watcher
  <2> QED BY <2>3, <2>4, <2>5
<1>4. CASE TickDone
  BY <1>4, TakeRow
<1>5. CASE Tick \/ TickFails \/ Cancel \/ Stop \/ UNCHANGED vars
  <2>1. /\ UNCHANGED <<mark, writes, spec, cursor, signals, baseline>>
        /\ row' \in {row, {}}
        /\ phase' \in {phase, "querying", "sleeping", "stopped"}
        /\ stop' \in BOOLEAN
    BY <1>5 DEF Tick, TickFails, Cancel, Stop, vars, table, watcher, TypeOK
  <2>2. TypeOK'
    BY <2>1 DEF TypeOK, Option
  <2>3. RowInv' /\ StartInv'
    BY <2>1 DEF RowInv, StartInv
  <2>4. CountInv'
    BY <2>1 DEF CountInv, Covered
  <2> QED BY <2>2, <2>3, <2>4
<1> QED BY <1>1, <1>2, <1>3, <1>4, <1>5 DEF Next

LEMMA Invariance == Spec => []IInv
BY InitIInv, StepIInv, PTL DEF Spec

-----------------------------------------------------------------------------
\* The types of a watcher (watch.rs), for every bound and every set of specs: the
\* recorded cursor is never NULL, whatever columns the statement projects.
THEOREM TypeCorrect == Spec => []TypeOK
<1>1. IInv => TypeOK
  BY DEF IInv
<1> QED BY <1>1, Invariance, PTL

\* A watcher signals at most once per change since its first tick, for every
\* number of changes, with failed and late ticks and empty results in any order.
THEOREM SignalsAreChanges == Spec => []NoSpuriousSignal
<1>1. IInv => NoSpuriousSignal
  <2> SUFFICES ASSUME IInv PROVE NoSpuriousSignal
    OBVIOUS
  <2>1. signals > 0 => baseline # {}
    BY DEF IInv, StartInv
  <2>2. \A b \in baseline : signals <= writes - b
    <3> SUFFICES ASSUME NEW b \in baseline PROVE signals <= writes - b
      OBVIOUS
    <3>1. b \in Nat
      BY OptionTypes DEF IInv
    <3>2. b + signals <= writes
      BY DEF IInv, CountInv, Covered
    <3> QED BY <3>1, <3>2 DEF IInv, TypeOK
  <2> QED BY <2>1, <2>2 DEF NoSpuriousSignal
<1> QED BY <1>1, Invariance, PTL
=============================================================================
