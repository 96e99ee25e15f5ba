-------------------------- MODULE CatalogDiscovery --------------------------
(***************************************************************************)
(* The catalog operations, list_tables and list_columns: whose filter a    *)
(* call uses (lib.rs), the query that is built from it (engine.rs), and    *)
(* the argument names the input schema shows.                              *)
(*                                                                         *)
(* Texts are numbered: 0 is the blank one, the others name databases and   *)
(* tables.  Only trimmed texts are looked at, so white space around one is *)
(* left out.                                                               *)
(***************************************************************************)
EXTENDS Naturals, Sequences

CONSTANTS
  Texts,  \* the texts there are
  Names   \* names of call arguments

ASSUME TextsAssumption == 0 \in Texts /\ Texts \subseteq Nat

AtMostOne(S) == {{}} \cup {{x} : x \in S}

\* CatalogFilterConfig
FilterConfigs ==
  [database : AtMostOne(Texts), database_arg : AtMostOne(Names),
   table : AtMostOne(Texts), table_arg : AtMostOne(Names)]

\* resolve_one: the argument, if its name is configured and it is a string, else
\* the constant.  strings: the call's string arguments.
ResolveOne(static, arg, strings) ==
  LET given == UNION {strings[name] : name \in arg}
  IN  IF given # {} THEN given ELSE static

\* nonempty
Nonempty(filter) == filter \ {0}

\* Mutant of Predicates: the column of a blank filter stays, without a bind.
Predicates_Blank(column, filter) ==
  IF filter = {} THEN <<>> ELSE <<column>>

Predicates(column, filter) ==
  IF Nonempty(filter) = {} THEN <<>> ELSE <<column>>

FilterBinds(filter) ==
  IF Nonempty(filter) = {} THEN <<>> ELSE <<CHOOSE f \in filter : TRUE>>

\* build_list_tables_query: no table filter, whatever is configured.
TablesQuery(database, table) ==
  [predicates |-> Predicates("database", database), binds |-> FilterBinds(database)]

\* Mutant of ColumnsQuery: the binds are pushed in the other order.
ColumnsQuery_BindsSwapped(database, table) ==
  [predicates |-> Predicates("database", database) \o Predicates("table", table),
   binds |-> FilterBinds(table) \o FilterBinds(database)]

\* build_list_columns_query; the LIMIT of both is BindingSpec's CatalogPlan.
ColumnsQuery(database, table) ==
  [predicates |-> Predicates("database", database) \o Predicates("table", table),
   binds |-> FilterBinds(database) \o FilterBinds(table)]

CatalogQuery(operation, filters, strings) ==
  LET database == ResolveOne(filters.database, filters.database_arg, strings)
      table == ResolveOne(filters.table, filters.table_arg, strings)
  IN  IF operation = "list_tables"
      THEN TablesQuery(database, table) ELSE ColumnsQuery(database, table)

\* Mutant of ArgumentNames: only the database's.
ArgumentNames_DatabaseOnly(filters) == filters.database_arg

\* argument_names
ArgumentNames(filters) == filters.database_arg \cup filters.table_arg

-----------------------------------------------------------------------------
(* system.tables, system.columns: what exists, and what a query selects. *)
Catalog == [database : Texts \ {0}, table : Texts \ {0}]

Selected(query) ==
  {e \in Catalog : \A i \in DOMAIN query.predicates :
                     e[query.predicates[i]] = query.binds[i]}
=============================================================================
