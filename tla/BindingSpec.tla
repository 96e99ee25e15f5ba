----------------------------- MODULE BindingSpec -----------------------------
(***************************************************************************)
(* The operator-facing spec of one ClickHouse binding, what                *)
(* register_profile accepts, the profile it stores, and the statements a   *)
(* stored profile can send (src/src/types.rs, src/src/lib.rs).             *)
(*                                                                         *)
(* SQL texts are abstracted to the classes the checks and the server tell  *)
(* apart:                                                                  *)
(*   blank      empty or white space                                       *)
(*   read       passes the read-only guard, modifies nothing               *)
(*   disguised  passes the (lexical) guard although the server would       *)
(*              modify data: the reason there is a second, server-side,    *)
(*              fence                                                      *)
(*   write      rejected by the guard, modifies data                       *)
(*   cred       carries a bare cred:// reference                           *)
(***************************************************************************)
EXTENDS Naturals

\* An Option<T> is a set with at most one element: {} is None.
Option(S) == {T \in SUBSET S : \A x, y \in T : x = y}

SqlTexts == {"blank", "read", "disguised", "write", "cred"}
Modifies(sql) == sql \in {"write", "disguised"}

\* enforce_read_only: a lexical check in the shared SDK.
GuardPasses(sql) == sql \in {"read", "disguised", "cred"}

Operations == {"query", "list_tables", "list_columns"}
IsCatalog(operation) == operation \in {"list_tables", "list_columns"}

Surfaces == {"tool", "resource", "prompt"}

\* cursor_column: absent or blank, not an identifier, an identifier, or an
\* identifier with surrounding white space.
ColumnNames == {"blank", "unsafe", "plain", "padded"}

ListQueries ==
  [sql : SqlTexts, mode : {"keyset", "offset"},
   cursor_column : ColumnNames, page_size : Nat]

Completions == [sql : SqlTexts, placeholders : Nat, max_results : Nat]

BindingSpecs ==
  [url                   : {"blank", "cred", "set"},
   operation             : Operations,
   surface               : Surfaces,
   read_only             : BOOLEAN,
   statement             : SqlTexts,
   read_query            : Option(SqlTexts),
   list_query            : Option(ListQueries),
   completions           : Option(Completions),
   uri                   : Option({"blank", "set"}),
   catalog_table         : Option({"blank", "set"}),
   catalog_table_arg     : Option({"blank", "set"}),
   params                : {"none", "valid", "invalid"},
   max_execution_time_ms : Nat,
   max_result_rows       : Nat,
   verify_peer           : BOOLEAN,
   settings              : SUBSET {"readonly", "other"}]

-----------------------------------------------------------------------------
(* What register_profile checks, in the groups the function has. *)

Blank(option) == option \subseteq {"blank"}

\* A query binding has a statement or a read_query; list_columns has a table
\* filter or the name of the argument that carries one.
OperationHasItsText(s) ==
  /\ s.operation = "query" => s.statement # "blank" \/ ~Blank(s.read_query)
  /\ s.operation = "list_columns" =>
       ~Blank(s.catalog_table) \/ ~Blank(s.catalog_table_arg)

ConnectionIsUsable(s) ==
  /\ s.url = "set"
  /\ s.max_execution_time_ms > 0
  /\ s.max_result_rows > 0
  /\ s.verify_peer

StatementIsGuarded(s) ==
  /\ s.statement # "cred"
  /\ s.operation = "query" /\ s.read_only /\ s.statement # "blank" =>
       GuardPasses(s.statement)

UriIsCoherent(s) ==
  s.uri # {} => s.surface = "resource" /\ ~Blank(s.uri)

\* Mutant of ReadQueryIsGuarded: the surface is not looked at.
ReadQueryIsGuarded_AnySurface(s) ==
  \A sql \in s.read_query :
    /\ sql # "blank"
    /\ sql # "cred"
    /\ s.read_only => GuardPasses(sql)

ReadQueryIsGuarded(s) ==
  \A sql \in s.read_query :
    /\ sql # "blank"
    /\ s.surface = "resource"
    /\ sql # "cred"
    /\ s.read_only => GuardPasses(sql)

\* validate_list_query: cursor_column is trimmed before it is looked at.
ListQueryIsValid(q) ==
  /\ q.sql # "blank"
  /\ q.page_size \in 1 .. 1000
  /\ q.mode = "keyset" => q.cursor_column \in {"plain", "padded"}

\* validate_completion: exactly one ? placeholder; max_results is not looked at.
CompletionIsValid(q) ==
  /\ q.sql # "blank"
  /\ q.placeholders = 1

ReadSurfacesAreGuarded(s) ==
  /\ \A q \in s.list_query :
       /\ ListQueryIsValid(q)
       /\ q.sql # "cred"
       /\ s.read_only => GuardPasses(q.sql)
  /\ \A q \in s.completions :
       /\ CompletionIsValid(q)
       /\ q.sql # "cred"
       /\ s.read_only => GuardPasses(q.sql)

Accepts(s) ==
  /\ ConnectionIsUsable(s)
  /\ OperationHasItsText(s)
  /\ StatementIsGuarded(s)
  /\ UriIsCoherent(s)
  /\ ReadQueryIsGuarded(s)
  /\ ReadSurfacesAreGuarded(s)
  /\ s.params # "invalid"

-----------------------------------------------------------------------------
(* The stored profile, and the queries it can send. *)

Profiles ==
  [operation : Operations, surface : Surfaces, read_only : BOOLEAN,
   statement : SqlTexts, read_query : Option(SqlTexts),
   list_query : Option(ListQueries), completions : Option(Completions),
   uri : Option({"blank", "set"}), params : {"none", "valid", "invalid"},
   max_rows : Nat, settings : SUBSET {"readonly", "other"}]

ProfileOf(s) ==
  [operation |-> s.operation, surface |-> s.surface,
   read_only |-> s.read_only, statement |-> s.statement,
   read_query |-> s.read_query, list_query |-> s.list_query,
   completions |-> s.completions, uri |-> s.uri, params |-> s.params,
   max_rows |-> s.max_result_rows, settings |-> s.settings]

\* The three calls that reach the server.
CallKinds == {"execute", "list", "complete"}

\* cap is what the client keeps of the answer, limit the LIMIT the plugin binds.
Plans == [sql : SqlTexts, cap : Nat, limit : Option(Nat)]

\* build_list_tables_query / build_list_columns_query: a SELECT over system.*
\* whose LIMIT is the binding's own row cap.
CatalogPlan(p) == [sql |-> "read", cap |-> p.max_rows, limit |-> {p.max_rows}]

\* Mutant of EffectiveStatements: read_query is never used.
EffectiveStatements_StatementOnly(p) == {p.statement}

\* On the resource surface a read_query takes the statement's place.
EffectiveStatements(p) ==
  IF p.surface = "resource" /\ p.read_query # {}
  THEN p.read_query
  ELSE {p.statement}

ExecutePlans(p) ==
  IF IsCatalog(p.operation)
  THEN {CatalogPlan(p)}
  ELSE {[sql |-> sql, cap |-> p.max_rows, limit |-> {}] :
          sql \in EffectiveStatements(p)}

\* Empty when the profile has nothing configured for that kind of call.
PlansFor(p, kind) ==
  CASE kind = "execute" -> ExecutePlans(p)
    [] kind = "list" ->
         {[sql |-> q.sql, cap |-> q.page_size, limit |-> {q.page_size}] :
            q \in p.list_query}
    [] kind = "complete" ->
         {[sql |-> q.sql, cap |-> q.max_results, limit |-> {}] :
            q \in p.completions}

\* The body of a successful call: a page, completion values, or the surface's own.
BodyFor(p, kind) ==
  CASE kind = "list" -> "page"
    [] kind = "complete" -> "values"
    [] kind = "execute" /\ p.surface = "resource" -> "contents"
    [] kind = "execute" /\ p.surface = "prompt" -> "messages"
    [] kind = "execute" /\ p.surface = "tool" -> "envelope"

\* Mutant of RunsReadOnly: a catalog binding is what its flag says.
RunsReadOnly_FlagOnly(p) == p.read_only

\* run_query: catalog operations are read-only whatever the binding says.
RunsReadOnly(p) == p.read_only \/ IsCatalog(p.operation)

(***************************************************************************)
(* Whatever call arrives, the profile sends a real statement without an    *)
(* unresolved secret reference and, on a read-only binding, one the guard  *)
(* has passed: the point of register_profile being fail-closed.            *)
(***************************************************************************)
Servable(p) ==
  \A kind \in CallKinds : \A plan \in PlansFor(p, kind) :
    /\ plan.sql \notin {"blank", "cred"}
    /\ p.read_only => GuardPasses(plan.sql)
=============================================================================
