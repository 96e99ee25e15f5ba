# Verification of the ClickHouse backend plugin

TLA+ models of the plugin in this repository, TLC configurations that check them
on small instances, and theorems about them that TLAPS checks for every value of
their constants. Paths are relative to the repository's root (`src/lib.rs` is
written `src/src/lib.rs` in `PROJECT.json`, whose root is one level up).

## The system

The plugin turns a *binding* (an operator-written spec: a ClickHouse endpoint, a
fixed statement, how its parameters are computed, what surface it serves) into
the backend of an MCP tool, resource or prompt. The gateway registers bindings
and calls them, concurrently, through a C ABI bridge; each call sends at most
one query to ClickHouse over HTTP.

| component | state | operations | interacts with | what is hard | what makes it correct |
|---|---|---|---|---|---|
| binding spec, `register_profile` (`types.rs`, `lib.rs`) | none | parse, validate, compile | writes the registry | many independent checks over combinations of operation, surface, flags and texts | whatever it accepts can be served |
| profile registry, host handle (`lib.rs`) | `RwLock<BTreeMap>`, `OnceLock` | insert, clone, set once | every call | registration while calls are in flight | a call sees one profile |
| `execute` (`lib.rs`) | per call | look up, decode, bind, query, shape, observe | engine, host | six ways out, an await outside the deadline | each way out is observed once; each call returns |
| query engine (`engine.rs`, `lib.rs:347`) | none | GET or POST, deadline, row cap | server | the server goes on after the deadline; POST reads no rows | read-only means read-only; success means applied |
| result marshaller (`engine.rs:250`) | none | parse, count, cap | `execute` | exactly at the cap | rows, count and flag agree |
| CEL parameters (`params.rs`) | compiled programs | evaluate, lower to binds | `execute` | number widths | values arrive unchanged or are refused |
| catalog discovery (`engine.rs:58`, `lib.rs:123`) | filter configuration | resolve filters, build SQL | `execute` | whose filter wins | a caller can only narrow |
| resource listing (`lib.rs:908`, `surface.rs:27`) | the cursor, held by the caller | one page | table, gateway | the table changes between pages | nothing repeated, missed or endless |
| completions (`lib.rs:967`) | none | one query | engine | the first column of a map | the column the operator meant |
| surface shaping (`surface.rs`) | none | contents, messages, URI | `execute` | the URI is resolved after the query | body and surface agree |
| envelope, classification (`envelope.rs`) | none | build, classify by text | everything | one text, two classifications | retry advice and label are true of what happened |
| observability triad (`lib.rs:244`) | none | span, histogram, counter, audit | host | every early return has to do it | once per call |
| schemas (`lib.rs:858`) | none | `try_read` of the registry | gateway | a concurrent writer | the schema of the binding |
| cdylib bridge (`cdylib.rs`) | a runtime | `block_on` each method | gateway threads | none of its own | calls run to their end |
| polling watch (`watch.rs`) | client, runtime, the SDK's loop | watch, tick, cancel | server, gateway | failed, late and silent ticks | signals exactly the changes |
| manifest, build | none | none | | | |

External: the ClickHouse server and driver, the SDK (lexical SQL guard, polling
loop, host services) and the gateway.

## Modules

| module | models | extends |
|---|---|---|
| `BindingSpec` | specs, `register_profile`'s checks, stored profiles, the queries a profile can send | |
| `ClickHouseBackend` | registry, host handle, concurrent calls, the server | `BindingSpec` |
| `CallContract` | what a call promises the gateway, abstractly | |
| `CallRefinement` | the mapping from `ClickHouseBackend` to `CallContract` | `ClickHouseBackend`, instance of `CallContract` |
| `CallDeadline` | the client's deadline, the server's budget, retries | |
| `CatalogDiscovery` | catalog filters, the catalog queries | |
| `ParamBinding` | JSON to CEL to JSON to a bind, with the limits of its numbers | |
| `JsonEachRow` | the marshaller, line by line | |
| `CallData` | the data of one call, through the three modules above | `CatalogDiscovery`, `ParamBinding`, `JsonEachRow` |
| `ResourceListing` | a listing page by page over a changing table | `BindingSpec` |
| `PollWatch` | one `clickhouse_poll` watcher | `BindingSpec` |
| `MC...` | the instances for TLC | the module of that name |
| `..._proofs` | the theorems | the module of that name; `CallData_proofs` also `ParamBinding_proofs`, whose lemmas it uses |

Operators whose name has the form `Definition_Change` are mutants: the
definition as a plausible bug would have it, next to the one they replace. They
are used nowhere in the models; `PROJECT.json` names for each checked property
one that breaks it.

### BindingSpec

SQL texts are five classes: `blank`, `read`, `disguised` (passes the lexical
guard though the server would write), `write`, and `cred` (carries an unresolved
secret reference). `Accepts` is the conjunction of `register_profile`'s groups
of checks, `ProfileOf` the stored profile, `PlansFor(p, kind)` the query a call
of that kind sends, with the cap of the client and the LIMIT it binds.
`Servable` says what registration is for.

### ClickHouseBackend

| variable | code |
|---|---|
| `profiles` | the map behind the `RwLock` |
| `host` | the `OnceLock` |
| `request`, `phase`, `span`, `snapshot`, `reply` | a call's arguments, place in `execute`/`list_resources`/`complete_template_variable`, span guard, cloned profile, result |
| `query`, `answer`, `applied` | what went to the server, what came back, what it has done |
| `label`, `metrics`, `audits` | the outcome label, the counter, the audit events |

One action is the code between two awaits: `LoadProfile`/`ProfileMissing` (the
read lock), `RejectPayload`, `RejectParams`, `RejectCursor`, `NothingConfigured`
(early returns), `Dispatch` (the query is sent), `ReceiveRows`,
`ReceiveRowsWithoutUri`, `ReceiveFailure`, `Timeout` (how the wait ends, with the
reply, the label and the counter), `AuditDone` (the join of the audit). The
server's actions are independent of the call: it may answer, write, refuse or
fail after the call has gone.

A failure text is the set of token families `classify_error` finds in it
(`rejection`, `transient`, and `timeout`, whose tokens are transient too).

### CallContract and CallRefinement

`CallContract` knows no threads, deadlines, audits or network: a call takes one
profile, sends at most one statement, has at most one effect, which may come
after its end, and ends with one result; a success has sent its statement, has
the body of its surface, and implies the effect. `CallRefinement` maps
`ClickHouseBackend` to it: `snapshot` is what was taken, the SQL in `query` what
was sent, `applied` the effect, and a result is there once the call is `done`,
after its audit. Labels, counters, the host, the server's answers and the reply
before the audit are hidden. `ImplementsContract` is checked by TLC and proved.

### CallDeadline

Time is a number of ticks, `Second` of them to the second. `run_query` gives a
call `ceiling` ticks and then drops the future (`Timeout`); the server is given
`Budget`, `timeout.as_secs().max(1)` seconds unless the operator's settings say
otherwise. Dropping tells the server nothing: what is `travelling` or `running`
goes on (a request that was not written yet may be dropped, `NeverSent`). A
timeout is classified as retryable, so `Attempt` is enabled again. A tick may not
pass over something that is due. `Horizon`, the age at which an attempt is no
longer timed, only keeps the state finite: it is assumed to be at least a query's
longest lifetime, so that whatever is still busy has its true age.

### CallData and its parts

`CatalogDiscovery` has `resolve_one` and the two query builders: predicates and
binds are two sequences that meet by position, as in the code. `Selected` is what
the server makes of them. `ParamBinding` has the three conversions of
`params.rs` and `json_to_ch_bind`. Its numbers are constants: the limits of i64
and u64 (`MaxInt`, `MaxUInt`), and the integers that are floats (`Floats`,
`EvenFloats`), of which `NumbersAssumption` says no more than that `MaxUInt` is
twice `MaxInt` and one, and that `MaxInt + 1`, a power of two, is a float. The
operator's CEL expression is one of four (the argument itself, a float, an
infinity, a list). `JsonEachRow` has one turn of the marshaller's loop.

`CallData` puts them together: the arguments become a query (`Send`) or an error
(`RejectParams`), the server answers with any body, the marshaller goes through it
line by line (`Parse`) until it has seen them all or a bad one (`Return`), and at
any moment the gateway may ask for the input schema, whose `try_read` fails under
a registration (`ReadInputSchema`). `outcome` is what `parse_json_each_row` holds
in its locals, with the place of each row in the body, and `next` the line it is
at: the loop is a part of the state, so that what it has done so far can be an
invariant.

### ResourceListing

`table` is a set of rows with an id (the resource), a key (the column the
statement orders by) and whether it has a uri. `config` is the binding's
`list_query` and `position` the opaque cursor. `FetchPage` is one
`list_resources` call: the rows the mode's statement may answer, the skipped
rows, the next cursor. The other variables are history: what the gateway was given
(`listed`), and given twice (`repeated`), the cursors it had (`cursors`), the rows
that have not been touched since the listing began (`stable`), in which ways the
table has changed (`changed`), and which two faults it ever had (`faults`): a `tie`,
rows with the same key, and a `gap`, enough rows without a uri to fill a page. The
properties say what a listing guarantees in each case. `NullSafe` says what the
operator's statement makes of a NULL cursor.

### PollWatch

`mark` is the scalar in the database. A tick queries (`Tick`), the server
computes the row (`ServerComputes`), and the loop takes it (`TickBaseline`,
`TickSignals`, `TickNoChange`) or fails (`TickFails`); `Cancel` may come at any
moment and `Stop` between two ticks. `baseline` is history: how often the table
had changed when the first row was computed. The loop itself is the SDK's;
`watch.rs` and the README do not say whether the first scalar after ticks
without one is a change, so both are allowed.

## Runs

| run | shows | bounds |
|---|---|---|
| `one_call` | type invariant; what is accepted can be served; only guarded SQL leaves; read-only never modifies; an acknowledged write is applied; one triad per call; rows accounted for; the outcome label says what happened; the contract is kept | one call; eight bindings, one of each kind, and fourteen specs one check away from them; every request; zero, one and two rows against a cap of one; every failure text |
| `two_calls` | one profile per call; replies final; every call returns | two calls on one binding that is a capped read, a resource or a writer, re-registered at will |
| `listing` | keyset: nothing repeated, nothing missed but ties, whatever changes; offset: nothing missed under insertions, nothing repeated under deletions; every page brings the end nearer, and it comes | every table of three resources, three keys, with and without uris; pages of one and two, two changes of any kind |
| `watcher` | no spurious signal; a lasting change is signalled; a cancelled watcher stops | scalar 0 (none) to 3, four changes; ticks unbounded |
| `call_data` | an operator's filter without an argument's name holds for every row; a schema names what the query depends on; integers arrive exactly, numbers keep their order; rows, count and flag match the body | two names, two databases or tables and the blank text, every combination of filters and arguments; integers of 5 bits and floats of 3, at every limit; bodies of up to four lines of four kinds, caps one and two |
| `deadline` | the server works at most max(ceiling, 1 s) and the transit for a call; retries do not pile up; the server is rid of every query | ceilings of 1/2, 1 and 3/2 seconds, the operator's own budget of 2 s or none, five attempts (one more than `RetriesDoNotPileUp` allows at once), ages up to the longest lifetime and beyond |

The bounds are enough for the interesting cases: fewer, exactly as many and more
rows than a cap; a page that is short, just full, and followed by another; a
change before and behind the cursor; a value that changes and changes back
between two ticks; a call that times out before, during and after the server
works; integers that fit i64, that fit u64 only, and that fit neither, with and
without an exact float; a bad line before and behind the cap. Calls are
independent but for the registry and the host handle, and two of them with free
re-registration show every interleaving of one call with the writer, which is
all the registry shares.

Deadlock is checked in the runs of `ClickHouseBackend`, where the registry can
always be written; in the other modules a finished listing, a stopped watcher, a
call that has returned and a caller that does not retry are ends.

### What the repository says and the code does not do

These runs end in a violation; `PROJECT.json` quotes the line each is about.

| run | behaviour |
|---|---|
| `guardrail_settings` | the README's example settings (`readonly: "1"`) make the server refuse every read |
| `writable_listing` | on a `read_only: false` binding listings and completions go by POST and are always empty |
| `listing_null_cursor` | the keyset statement documented in `types.rs` lists nothing |
| `watcher_silent_server` | a tick has no wall-clock budget |
| `catalog_widening` | with `catalog_database_arg` a caller does not narrow the operator's filter but replaces it, or lifts it with a blank text |
| `deadline_rounding` | the server's budget is the ceiling rounded down, not up, so it may end a call before its client would |

`guardrail_settings` rests on the comment at `src/engine.rs:202`, which says what
the server does with an explicit `readonly`.

More weaknesses are in the models without a run of their own (they are among the
hazards):

- a failure labelled `timeout` although it is classified as a rejection, when its
  text speaks of both (`lib.rs:813`): `envelope.rs:25` classifies rejections first so
  that they are not masked as transport, the label does not
  (`LabelTellsWhatHappened` states this exception and shows that it is the only one);
- a parameter failure that is reported retryable because its text, which quotes
  the CEL source, holds a transport word (`lib.rs:319`);
- a catalog answer cut off by its own LIMIT, which is never flagged as truncated
  (`engine.rs:70`, against `README.md:42`);
- a full page of rows without a uri, which ends a keyset listing
  (`surface.rs:39`), and ties of the cursor column at a page's end
  (`surface.rs:53`): the faults `gap` and `tie`, which the properties of a listing
  have to except;
- a padded `cursor_column`, which registration accepts and no page finds
  (`types.rs:320`): the condition of `AllListed` on the configurations;
- a tracking query with two columns, of which the one whose name sorts first is
  tracked;
- a CEL result that is not finite, bound as NULL (`params.rs:135`);
- `README.md:128` calls a table filter required for `list_columns`; a blank
  argument is none.

## Fairness

- `ClickHouseBackend`: weak fairness of every call's own steps, among them
  `Timeout`. The bridge blocks a gateway thread on each call and its runtime is
  multi-threaded (`cdylib.rs`), tokio timers fire, and the blocking pool runs the
  audit. Nothing is assumed of the server, of registration or of new calls.
- `ResourceListing`: weak fairness of `FetchPage`, a gateway that follows the
  cursor.
- `PollWatch`: weak fairness of the loop. For the liveness of signals also that,
  among infinitely many ticks, some reach the server and some answers are
  delivered (strong fairness, as failed ticks disable both), which is the least
  under which a change can be signalled. `SilentServerSpec` drops it.

- `CallDeadline`: weak fairness of time, of the timer (`tokio::time::timeout`
  fires), of arrival and of the server's abort: it keeps to the budget it was
  given, which is all `max_execution_time` is for. Nothing makes a query finish, an
  answer arrive or a caller retry. `ServerIsFreed` leaves out an operator who has
  asked for no budget (`max_execution_time: 0`).

## Proofs

Everything is proved from the named assumptions of the modules (that constants
have their types; `ConfigsAssumption`: a listing is one registration accepts;
`ArgumentsAssumption`: an argument has one value; `NumbersAssumption` and
`TimeAssumption`: as said above of numbers and of the horizon). `AllListed` and
`TiesAtMost` add `WellPosed`, of the operator's statement.

- `BindingSpec_proofs`: `AcceptedSpecIsServable`, by cases over the kind of call
  and the operation.
- `ClickHouseBackend_proofs`: `IInv` is inductive. None of the safety properties
  is inductive alone: a call's query must be known to be one its snapshot plans
  (`SourceInv`), the snapshot to be servable (it was once in the registry), the
  server's answer and effect to be ones the query allows (`ServerInv`), the reply
  to be one of the shapes the answer allows (`ReplyInv`), which fields are filled
  in which phase (`ShapeInv`), and the span to imply a host (`HostInv`). The
  actions are first collected into three kinds of step (a call decides, the
  server answers, neither), so each conjunct is proved by a handful of cases.
  `IInv` itself has been checked by TLC. The theorems `TypeCorrect`,
  `RegistrySafe`, `GuardedSql`, `ReadOnlySafe`, `WritesAcknowledged`,
  `OneSnapshot`, `TriadOnce`, `RowsAccounted`, `LabelsAreTrue` follow from it, and
  `ReplyFinality` as an action property.
- `ResourceListing_proofs`: `ListedOnce`, `AllListed` and `TiesAtMost` are about both
  modes. In keyset mode they follow from three invariants: `Behind` (what was listed
  has a key up to the cursor; a page lies after it) needs nothing of the table;
  `Complete` (a stable row up to the cursor is listed or has the key of a cursor)
  needs a page that goes on wherever there is a resource (`PageHasResource`, without
  a `gap`), a NULL-safe statement and a column that is found (`GoodListing`,
  `WellPosed`); `Untied` turns it into "is listed" where there never was a tie. An
  offset means nothing by itself, so the invariants of that mode speak of ranks, a
  row's number among the rows by key (`Rank`): under deletions a row that was listed
  has a rank below the offset (`OffsetBehind`), as a deletion only lowers ranks; under
  insertions a stable row with a rank below the offset has been listed
  (`OffsetComplete`), as an insertion only raises them. That a page holds the ranks
  from the offset on (`LimitedByRank`, `LimitedTwice`) makes both inductive. TLC
  checked all five before they were proved. No condition can be left out:
  `listing_null_cursor` shows it for the first, and TLC finds a counterexample in
  `listing` when `tie`, `gap` or the kinds of change are dropped from a property.
  `Headway` states `PagesAdvance`, the half of `ListingEnds` that is safety: a cursor
  that only grows, below a bound that no change of the table moves.
- `CallRefinement_proofs`: `Refinement`, `Spec => ImplementsContract`. To `IInv` it
  adds that a call which has looked and is not done has its profile (`ProgressInv`)
  and that the audit's wait keeps the reply (`AuditInv`); then each action is a step
  of the contract (`Register` publishes, `LoadProfile` takes, `Dispatch` sends, the
  server modifies, and the action that makes a call `done` finishes it) or changes
  nothing the contract sees.
- `PollWatch_proofs`: `TypeCorrect` and `SignalsAreChanges`. `NoSpuriousSignal`
  counts, so it needs to know what a tight count means: as many signals as changes
  up to a moment imply that the cursor is what the loop would have read then
  (`Covered`), for the table now and for the row under way; a row is never ahead of
  the table (`RowInv`). Then a signal, which needs a row that differs from the
  cursor, finds the count not tight. It holds for every projection of the
  statement, not just the one column of the run.
- `CallDeadline_proofs`: `TypeCorrect` and `ShortOrphans`, from `BudgetInv` (a
  request arrives within the transit, and the server is never past its budget) and
  `BudgetBounds` (rounding down and `max(1)` give at least a second and at most the
  larger of ceiling and second). `BoundedLoad` (`RetriesDoNotPileUp`) counts the
  attempts that are busy at once. Neither bound suffices alone: `SpacingInv` says that
  of two attempts the earlier one is older by at least the ceiling times their
  distance, as a caller only tries again when its deadline has passed, and `LifeBound`
  that what is busy is no older than a ceiling (or a second) and the transit. So the
  numbers of the busy attempts, all within that life of each other, have no room for
  more (`FewBusy`, with `QuotientsGrow` for the rounding of the bound).
- `ParamBinding_proofs`: lemmas about the numbers. A float is nearest to itself
  (`NearestOfFloat`) and rounding is monotonic (`NearestIsMonotone`, which is why a
  tie needs a rule: the nearest float of a number is a function of it). So is the way
  of a number into a bind (`BoundNumberIsMonotone`): between two integers that fit,
  two that do not, and, the one case that needs an assumption, between an i64 and the
  u64 above it that is rounded, `MaxInt + 1` is a float and keeps the two apart.
- `CallData_proofs`: `TypeCorrect`; `FixedFilters`, by cases over which of the two
  filters there are; `SchemasNameArguments`, as a query depends on the arguments it
  reads; `ExactIntegers` and `NumbersKeepOrder`, from the lemmas above, for every
  width and every set of floats that has the power of two above the integers.
  `OutcomeMatchesBody` is about the loop: `LoopInv` says of the lines before
  `next` what `RowsMatchBody` says of the whole body (`ReadSoFar`: the rows are the
  first objects in their order, the count is the number of objects, the flag is set
  when there are more than rows, and an error means a bad line), `ReadLineStep` that
  one turn takes it from one line to the next.

Every safety property that a passing run checks is stated by a theorem. Only
model-checked are the liveness properties, as TLAPS does not prove liveness under
fairness: `EveryCallReturns`, `ListingEnds`, `ChangeIsSignalled`,
`CancelledWatcherStops`, `ServerIsFreed`.

## Not modelled

Logging, JSON layout (the output schemas among it), identities, latencies and texts
beyond the classes above; TLS and authentication; the manifest; the bridge's
marshalling; the CEL language beyond four expressions; a cursor kept across a
change of the binding's `list_query`, of which the code promises nothing; offsets
near the limit of u64, which only a caller who makes up a cursor can reach. The server's
answers are as free as the properties allow. In
`ClickHouseBackend` a caller that retries is a new call; `CallDeadline` has retries.

## Plan

Done: every module of the table above, with proofs about each component.

Left, most important first:

1. The same for a watcher and for `CallDeadline`: what the liveness properties rest
   on, as invariants with a proof.
2. The token lists of `classify_error` with their order, as operators over texts
   that contain several of them.
