------------------------------ MODULE CallData ------------------------------
(***************************************************************************)
(* The data of one call of execute: its arguments become the binds of the  *)
(* query, as catalog filters or through the params, and the server's body  *)
(* becomes the rows of the outcome.  Meanwhile the gateway may read the    *)
(* input schema of the binding.                                            *)
(***************************************************************************)
EXTENDS CatalogDiscovery, ParamBinding, JsonEachRow, FiniteSets

CONSTANTS
  Profiles,         \* the profiles a call may have
  ArgumentsFor(_),  \* its arguments: functions from Names to Options of JSON values
  BodiesFor(_)      \* the bodies the server may send: sequences of lines

\* dotted: the expression names its argument as arguments.name.
Params ==
  [name : Names, dotted : BOOLEAN,
   expression : {"argument", "double", "infinite", "list"}]

ASSUME ProfilesAssumption ==
  \A p \in Profiles :
    /\ p.operation \in {"query", "list_tables", "list_columns"}
    /\ p.filters \in FilterConfigs
    /\ p.params \in Seq(Params)
    /\ p.cap \in Nat

\* JSON values; true and false go the way of null, an object that of an array.
Values ==
  {Of("string", n) : n \in Texts} \cup JsonNumbers \cup {Null, Of("array", 0)}

ASSUME ArgumentsAssumption ==
  \A p \in Profiles : \A args \in ArgumentsFor(p) :
    /\ DOMAIN args = Names
    /\ \A name \in Names :
         /\ args[name] \subseteq Values
         /\ \A v, w \in args[name] : v = w

ASSUME BodiesAssumption ==
  \A p \in Profiles : \A lines \in BodiesFor(p) : lines \in Seq(Lines)

IsCatalogProfile(p) == p.operation \in {"list_tables", "list_columns"}

VARIABLES
  profile,
  arguments,
  stage,    \* called, sent, answered, returned
  schema,   \* Option(the argument names the gateway has been shown)
  query,    \* Option(the query's predicates and binds)
  body,     \* the lines of the answer
  next,     \* the line that parse_json_each_row is at
  outcome   \* what it has made of those before

vars == <<profile, arguments, stage, schema, query, body, next, outcome>>

TypeOK ==
  /\ profile \in Profiles /\ arguments \in ArgumentsFor(profile)
  /\ stage \in {"called", "sent", "answered", "returned"}
  /\ schema \in AtMostOne(SUBSET Names)
  /\ \A q \in query : Len(q.predicates) <= Len(q.binds)
  /\ body \in Seq(Lines) /\ next \in 1 .. Len(body) + 1
  /\ outcome \in [error : BOOLEAN, rows : Seq(1 .. Len(body)), truncated : BOOLEAN,
                  row_count : 0 .. next - 1]
  /\ Len(outcome.rows) <= outcome.row_count

Init ==
  /\ profile \in Profiles
  /\ arguments \in ArgumentsFor(profile)
  /\ stage = "called"
  /\ schema = {} /\ query = {} /\ body = <<>> /\ next = 1 /\ outcome = NoRows

-----------------------------------------------------------------------------
\* input_schema: what the properties of the schema are called.
InputNames(p) ==
  IF IsCatalogProfile(p) THEN ArgumentNames(p.filters) ELSE ReferencedNames(p.params)

\* try_read fails while a registration holds the lock or waits for it, and the
\* schema is then the one of a binding without arguments.
ReadInputSchema ==
  /\ schema = {}
  /\ \E readable \in BOOLEAN :
       schema' = {IF readable THEN InputNames(profile) ELSE {}}
  /\ UNCHANGED <<profile, arguments, stage, query, body, next, outcome>>

StringsOf(args) ==
  [name \in Names |-> {v.n : v \in {w \in args[name] : w.kind = "string"}}]

\* What execute makes of the arguments; empty when a param fails.
QueryFor(p, args) ==
  IF IsCatalogProfile(p)
  THEN {CatalogQuery(p.operation, p.filters, StringsOf(args))}
  ELSE {[predicates |-> <<>>, binds |-> b] : b \in Binds(p.params, args)}

Send ==
  /\ stage = "called"
  /\ QueryFor(profile, arguments) # {}
  /\ query' = QueryFor(profile, arguments)
  /\ stage' = "sent"
  /\ UNCHANGED <<profile, arguments, schema, body, next, outcome>>

RejectParams ==
  /\ stage = "called"
  /\ QueryFor(profile, arguments) = {}
  /\ stage' = "returned"
  /\ UNCHANGED <<profile, arguments, schema, query, body, next, outcome>>

Answer ==
  /\ stage = "sent"
  /\ body' \in BodiesFor(profile)
  /\ stage' = "answered"
  /\ UNCHANGED <<profile, arguments, schema, query, next, outcome>>

\* Inside parse_json_each_row: a turn of its loop, unless it has returned early.
Parse ==
  /\ stage = "answered"
  /\ ~outcome.error /\ next <= Len(body)
  /\ outcome' = ReadLine(body[next], next, profile.cap, outcome)
  /\ next' = next + 1
  /\ UNCHANGED <<profile, arguments, stage, schema, query, body>>

Return ==
  /\ stage = "answered"
  /\ outcome.error \/ next > Len(body)
  /\ stage' = "returned"
  /\ UNCHANGED <<profile, arguments, schema, query, body, next, outcome>>

Next == ReadInputSchema \/ Send \/ RejectParams \/ Answer \/ Parse \/ Return

Spec == Init /\ [][Next]_vars

-----------------------------------------------------------------------------
(* Catalog filters *)

\* What the operator fixes without naming an argument for it holds for every row,
\* whatever the caller sends, and each predicate gets its own value: the ?s of
\* the query are positional.
FixedFiltersHold ==
  LET fixed(static, arg) == IF arg = {} THEN Nonempty(static) ELSE {}
      f == profile.filters
  IN  IsCatalogProfile(profile) =>
        \A q \in query : \A e \in Selected(q) :
          /\ \A d \in fixed(f.database, f.database_arg) : e.database = d
          /\ profile.operation = "list_columns" =>
               \A t \in fixed(f.table, f.table_arg) : e.table = t

-----------------------------------------------------------------------------
(* Schemas *)

IndexedNames(p) ==
  IF IsCatalogProfile(p) THEN {}
  ELSE {p.params[i].name : i \in {j \in DOMAIN p.params : ~p.params[j].dotted}}

\* A schema that names arguments names all that the call's query depends on, as
\* far as the scan of the params can see them: another value of any other
\* argument gives the same query.  Under a concurrent registration the schema
\* names none, and the object it describes is open.
SchemaNamesWhatMatters ==
  \A names \in schema : names # {} =>
    LET seen == names \cup IndexedNames(profile)
    IN  \A other \in ArgumentsFor(profile) :
          (\A name \in seen : other[name] = arguments[name])
            => QueryFor(profile, other) = QueryFor(profile, arguments)

-----------------------------------------------------------------------------
(* Parameters *)

\* Two params that are numbers of the caller as they came.
Given(i) ==
  IF profile.params[i].expression = "argument"
  THEN {v \in arguments[profile.params[i].name] : v.kind \in {"integer", "float"}}
  ELSE {}

Sent == IF IsCatalogProfile(profile) THEN {} ELSE query

\* An integer of 64 bits arrives as it was sent, although floats of the same
\* width cannot hold it.
IntegersAreExact ==
  \A q \in Sent : \A i \in DOMAIN profile.params : \A v \in Given(i) :
    FitsInt(v.n) /\ v.kind = "integer" => q.binds[i] = Of("int", v.n)

\* Numbers keep their order on the way, also where an integer and a float meet
\* or an unsigned integer does not fit: BETWEEN ? AND ? is never turned round.
OrderIsKept ==
  \A q \in Sent : \A i, j \in DOMAIN profile.params :
    \A v \in Given(i), w \in Given(j) :
      v.n <= w.n => q.binds[i].n <= q.binds[j].n

-----------------------------------------------------------------------------
(* Rows *)

\* The k-th row is the k-th object of the body, up to the cap; their exact number
\* is told, and whether some were cut off; and a line that is no object refuses
\* the whole body, also behind the cap.
RowsMatchBody ==
  LET objects == {i \in DOMAIN body : body[i] = "object"}
      n == Cardinality(objects)
      o == outcome
  IN  stage = "returned" /\ query # {} =>
        IF \E i \in DOMAIN body : Bad(body[i])
        THEN o.error
        ELSE /\ ~o.error
             /\ o.row_count = n
             /\ Len(o.rows) = IF n <= profile.cap THEN n ELSE profile.cap
             /\ o.truncated <=> Len(o.rows) < n
             /\ \A k \in DOMAIN o.rows :
                  /\ o.rows[k] \in objects
                  /\ Cardinality({i \in objects : i < o.rows[k]}) = k - 1

-----------------------------------------------------------------------------
\* README.md and types.rs: "caller input can only narrow the metadata".  Violated:
\* an argument takes the place of the operator's filter, and a blank one lifts it.
CallerOnlyNarrows ==
  LET nothing == [name \in Names |-> {}]
  IN  IsCatalogProfile(profile) =>
        \A q \in query, q0 \in QueryFor(profile, nothing) :
          Selected(q) \subseteq Selected(q0)
=============================================================================
