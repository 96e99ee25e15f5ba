------------------------------ MODULE PollWatch ------------------------------
(***************************************************************************)
(* The clickhouse_poll watch strategy (src/src/watch.rs): one watcher that *)
(* polls a scalar high-water query and signals a change of the scalar.     *)
(*                                                                         *)
(* The poll loop lives in the SDK (spawn_polling_watch, external) and is   *)
(* modelled from what watch.rs and the README say of it: the first tick    *)
(* records a baseline, a later one signals when the scalar differs, no     *)
(* scalar means no change, a failed tick is logged and retried on the next *)
(* one, and a stop is seen between two ticks.  They do not say whether the *)
(* first scalar after ticks without one is a change: it may be.            *)
(***************************************************************************)
EXTENDS BindingSpec

CONSTANTS
  WatchSpecs,  \* the specs a watcher may be started with
  MaxMark,     \* bound: the largest value of the scalar
  MaxWrites    \* bound: how often the table changes

\* first: which of the projected columns the row's map has first.  "tracked" is
\* the first one the statement projects; serde_json's map, with the features
\* Cargo.toml asks for, is ordered by column name.
WatchSpecType ==
  [url : {"blank", "set"}, tracking_query : SqlTexts, verify_peer : BOOLEAN,
   first : {"tracked", "other"}]

ASSUME WatchSpecsAssumption == WatchSpecs \subseteq WatchSpecType
ASSUME BoundsAssumption == MaxMark \in Nat \ {0} /\ MaxWrites \in Nat

VARIABLES
  mark,     \* the scalar in the database, 0 when there is none (no row, NULL)
  writes,   \* how often it has changed
  spec,     \* Option(spec of the watcher)
  phase,    \* idle, sleeping, querying, stopped
  stop,     \* the watcher has been cancelled
  row,      \* Option(row the server has computed for the current tick)
  cursor,   \* Option(the last cursor the loop has recorded)
  signals,  \* notifications sent
  baseline  \* Option(writes when the row of the first tick was computed)

table == <<mark, writes>>
watcher == <<spec, phase, stop, cursor, signals, baseline>>
vars == <<table, watcher, row>>

Marks == 0 .. MaxMark

\* The column that is not tracked does not follow the table.
OtherValue == MaxMark + 1
Rows == [tracked : Marks, other : {OtherValue}, seen : Nat]

TypeOK ==
  /\ mark \in Marks
  /\ writes \in 0 .. MaxWrites
  /\ spec \in Option(WatchSpecType)
  /\ phase \in {"idle", "sleeping", "querying", "stopped"}
  /\ stop \in BOOLEAN
  /\ row \in Option(Rows)
  /\ cursor \in Option(1 .. OtherValue)
  /\ signals \in Nat
  /\ baseline \in Option(0 .. MaxWrites)

Init ==
  /\ mark \in Marks
  /\ writes = 0
  /\ spec = {}
  /\ phase = "idle"
  /\ stop = FALSE
  /\ row = {}
  /\ cursor = {}
  /\ signals = 0
  /\ baseline = {}

-----------------------------------------------------------------------------
(* The database *)

Write ==
  /\ writes < MaxWrites
  /\ \E m \in Marks \ {mark} : mark' = m
  /\ writes' = writes + 1
  /\ UNCHANGED <<watcher, row>>

-----------------------------------------------------------------------------
(* The watcher *)

WatchAccepts(s) ==
  /\ s.url # "blank"
  /\ s.tracking_query # "blank"
  /\ GuardPasses(s.tracking_query)
  /\ s.verify_peer

Watch ==
  /\ phase = "idle"
  /\ \E s \in WatchSpecs : WatchAccepts(s) /\ spec' = {s}
  /\ phase' = "sleeping"
  /\ UNCHANGED <<table, stop, row, cursor, signals, baseline>>

\* Mutant of Tick: the loop looks at the stop signal once it has nothing to do.
Tick_IgnoresStop ==
  /\ phase = "sleeping"
  /\ phase' = "querying"
  /\ UNCHANGED <<table, spec, stop, row, cursor, signals, baseline>>

Tick ==
  /\ phase = "sleeping" /\ ~stop
  /\ phase' = "querying"
  /\ UNCHANGED <<table, spec, stop, row, cursor, signals, baseline>>

\* The server computes the row; the answer is still on its way.
ServerComputes ==
  /\ phase = "querying" /\ row = {}
  /\ row' = {[tracked |-> mark, other |-> OtherValue, seen |-> writes]}
  /\ UNCHANGED <<table, watcher>>

\* Mutant of CursorOf: NULL is rendered like any other value.
CursorOf_NullIsAValue(s, r) ==
  {IF s.first = "tracked" THEN r.tracked ELSE r.other}

\* Mutant of CursorOf: the last value of the row's map.
CursorOf_LastColumn(s, r) ==
  LET scalar == IF s.first = "tracked" THEN r.other ELSE r.tracked
  IN  {scalar} \ {0}

\* cursor_from_outcome: the first value of the row's map, none for NULL.
CursorOf(s, r) ==
  LET scalar == IF s.first = "tracked" THEN r.tracked ELSE r.other
  IN  {scalar} \ {0}

TickNoChange ==
  /\ phase = "querying"
  /\ \E s \in spec, r \in row :
       /\ CursorOf(s, r) = {} \/ CursorOf(s, r) = cursor
       /\ baseline' = IF baseline = {} THEN {r.seen} ELSE baseline
  /\ phase' = "sleeping"
  /\ row' = {}
  /\ UNCHANGED <<table, spec, stop, cursor, signals>>

\* The first cursor is recorded.
TickBaseline ==
  /\ phase = "querying" /\ cursor = {}
  /\ \E s \in spec, r \in row :
       /\ CursorOf(s, r) # {}
       /\ cursor' = CursorOf(s, r)
       /\ baseline' = IF baseline = {} THEN {r.seen} ELSE baseline
  /\ phase' = "sleeping"
  /\ row' = {}
  /\ UNCHANGED <<table, spec, stop, signals>>

TickSignals ==
  /\ phase = "querying" /\ baseline # {}
  /\ \E s \in spec, r \in row :
       /\ CursorOf(s, r) # {} /\ CursorOf(s, r) # cursor
       /\ cursor' = CursorOf(s, r)
  /\ signals' = signals + 1
  /\ phase' = "sleeping"
  /\ row' = {}
  /\ UNCHANGED <<table, spec, stop, baseline>>

\* Mutant of TickFails: the text of the error is returned as the row's scalar.
TickFails_TextIsCursor ==
  /\ phase = "querying"
  /\ cursor' = {OtherValue}
  /\ signals' = IF cursor \in {{}, {OtherValue}} THEN signals ELSE signals + 1
  /\ baseline' = IF baseline = {} THEN {writes} ELSE baseline
  /\ phase' = "sleeping"
  /\ row' = {}
  /\ UNCHANGED <<table, spec, stop>>

\* The connection or the query fails, also once the row is computed.
TickFails ==
  /\ phase = "querying"
  /\ phase' = "sleeping"
  /\ row' = {}
  /\ UNCHANGED <<table, spec, stop, cursor, signals, baseline>>

Cancel ==
  /\ phase \in {"sleeping", "querying"} /\ ~stop
  /\ stop' = TRUE
  /\ UNCHANGED <<table, spec, phase, row, cursor, signals, baseline>>

Stop ==
  /\ phase = "sleeping" /\ stop
  /\ phase' = "stopped"
  /\ UNCHANGED <<table, spec, stop, row, cursor, signals, baseline>>

-----------------------------------------------------------------------------
TickDone == TickNoChange \/ TickBaseline \/ TickSignals
Next ==
  \/ Write \/ Watch \/ Cancel
  \/ Tick \/ ServerComputes \/ TickDone \/ TickFails \/ Stop

\* The poll thread runs: a sleeping watcher ticks or stops, and an answer that
\* has arrived is taken.
LoopFairness == WF_vars(Tick \/ Stop) /\ WF_vars(row # {} /\ (TickDone \/ TickFails))

\* Also: among infinitely many ticks some reach the server, and among infinitely
\* many computed rows some are delivered.
ServerFairness == SF_vars(ServerComputes) /\ SF_vars(TickDone)

Spec == Init /\ [][Next]_vars /\ LoopFairness /\ ServerFairness

\* Nothing is assumed of the server.
SilentServerSpec == Init /\ [][Next]_vars /\ LoopFairness

-----------------------------------------------------------------------------
(* Safety *)

\* A watcher never signals more often than the table has changed since its first
\* tick, whatever fails or is late in between: no signal at startup, none for a
\* retried tick, none for an empty result.
NoSpuriousSignal ==
  /\ signals > 0 => baseline # {}
  /\ \A b \in baseline : signals <= writes - b

-----------------------------------------------------------------------------
(* Liveness *)

\* The recorded cursor is behind the table.
Behind == cursor # {} /\ mark # 0 /\ {mark} # cursor

\* Once there is a baseline, a change of the scalar that lasts is signalled,
\* failed ticks notwithstanding, unless the watcher is cancelled.
ChangeIsSignalled ==
  \A n \in 0 .. MaxWrites :
    Behind /\ signals = n ~> signals > n \/ ~Behind \/ stop

\* A cancelled watcher's thread ends, a tick in flight notwithstanding.
CancelledWatcherStops == stop ~> phase = "stopped"

-----------------------------------------------------------------------------
(* What the repository says and the code does not do: each is violated. *)

\* "Per-tick query budget (server-side + wall-clock)": a tick ends even if the
\* server never answers.
TickEndsInBudget == phase = "querying" ~> phase # "querying"
=============================================================================
