--------------------------- MODULE ResourceListing ---------------------------
(***************************************************************************)
(* A gateway that lists the resources of one binding page by page          *)
(* (list_resources in src/src/lib.rs, rows_to_resource_page in             *)
(* src/src/surface.rs) while the listed table changes under it.  The only  *)
(* state that lives from page to page is the cursor the gateway hands      *)
(* back: a value of the cursor column, or an offset.                       *)
(*                                                                         *)
(* The operator's statement is the one types.rs documents for the mode,    *)
(* WHERE key > ? ORDER BY key LIMIT ?, or LIMIT ? OFFSET ? over rows       *)
(* ordered by key.                                                         *)
(***************************************************************************)
EXTENDS BindingSpec, FiniteSets

CONSTANTS
  Configs,        \* list_querys: ones register_profile accepts
  Ids,            \* the resources
  Keys,           \* the values of the column the statement orders by
  NullSafe,       \* the statement treats a NULL cursor as "from the start"
  MaxChanges      \* bound: how often the table changes while it is listed

Rows == [id : Ids, key : Keys, uri : BOOLEAN]

ASSUME ConfigsAssumption ==
  \A c \in Configs : c \in ListQueries /\ ListQueryIsValid(c)
ASSUME KeysAssumption == IsFiniteSet(Ids) /\ IsFiniteSet(Keys) /\ Keys \subseteq Nat
ASSUME TableAssumption == NullSafe \in BOOLEAN /\ MaxChanges \in Nat

VARIABLES
  config,   \* the binding's list_query
  table,    \* the rows of the listed table
  changes,  \* how often it has changed
  changed,  \* and in which ways
  faults,   \* what it has been that an operator can avoid
  phase,    \* of the gateway: listing, done
  position, \* Option(the cursor): {} for the first page
  listed,   \* the rows whose resources the gateway has been given
  repeated, \* those among them it was given more than once
  cursors,  \* the cursors it has been given
  stable    \* the rows that have been there since the listing began

listing == <<phase, position, listed, repeated, cursors>>
vars == <<config, table, changes, changed, faults, listing, stable>>

Changes == {"insert", "delete", "move"}
Keyset == config.mode = "keyset"

IsTable(T) ==
  /\ T \subseteq Rows
  /\ \A r, s \in T : r.id = s.id => r = s

\* Rows with the same key; enough rows without a uri to fill a page.
Faults == {"tie", "gap"}
Has(T, fault) ==
  \/ fault = "tie" /\ \E r, s \in T : r.key = s.key /\ r # s
  \/ fault = "gap" /\ Cardinality({r \in T : ~r.uri}) >= config.page_size

TypeOK ==
  /\ config \in Configs
  /\ IsTable(table)
  /\ changes \in 0 .. MaxChanges
  /\ changed \subseteq Changes
  /\ {f \in Faults : Has(table, f)} \subseteq faults /\ faults \subseteq Faults
  /\ phase \in {"listing", "done"}
  /\ position \in Option(Nat)
  /\ listed \subseteq Rows
  /\ repeated \subseteq listed
  /\ position \subseteq cursors /\ cursors \subseteq Nat
  /\ stable \subseteq table

Init ==
  /\ config \in Configs
  /\ \E S \in SUBSET Ids : \E key \in [S -> Keys], uri \in [S -> BOOLEAN] :
       table = {[id |-> i, key |-> key[i], uri |-> uri[i]] : i \in S}
  /\ IsTable(table)
  /\ changes = 0
  /\ changed = {}
  /\ faults = {f \in Faults : Has(table, f)}
  /\ phase = "listing"
  /\ position = {}
  /\ listed = {}
  /\ repeated = {}
  /\ cursors = {}
  /\ stable = table

-----------------------------------------------------------------------------
(* The database *)

Becomes(T, kind) ==
  /\ changes < MaxChanges
  /\ IsTable(T)
  /\ table' = T
  /\ changes' = changes + 1
  /\ changed' = changed \cup {kind}
  /\ faults' = faults \cup {f \in Faults : Has(T, f)}
  /\ stable' = stable \cap T
  /\ UNCHANGED <<config, listing>>

Insert(r) ==
  /\ r \notin table
  /\ Becomes(table \cup {r}, "insert")

Delete(r) ==
  /\ r \in table
  /\ Becomes(table \ {r}, "delete")

\* The value of the row's cursor column changes: updated_at.
Move(r, k) ==
  /\ r \in table /\ r.key # k
  /\ Becomes((table \ {r}) \cup {[r EXCEPT !.key = k]}, "move")

-----------------------------------------------------------------------------
(* A page *)

MinOf(m, n) == IF m <= n THEN m ELSE n

\* S comes first in T by key; equal keys come in any order.
First(S, T) == S \subseteq T /\ \A r \in S, s \in T \ S : r.key <= s.key

\* The answers of ORDER BY key LIMIT n over the rows T.
Limited(T, n) ==
  {P \in SUBSET T : Cardinality(P) = MinOf(n, Cardinality(T)) /\ First(P, T)}

\* Mutant of AfterCursor: the page starts with the row the last one ended with.
AfterCursor_Inclusive ==
  IF position = {} THEN {r \in table : NullSafe}
  ELSE {r \in table : \E k \in position : r.key >= k}

\* WHERE key > ?: with the NULL bound to the first page, nothing passes unless
\* the statement takes care of it.
AfterCursor ==
  IF position = {} THEN {r \in table : NullSafe}
  ELSE {r \in table : \E k \in position : r.key > k}

Offset == IF position = {} THEN 0 ELSE CHOOSE n \in position : TRUE

\* The answers of the mode's statement.
Pages ==
  IF Keyset
  THEN Limited(AfterCursor, config.page_size)
  ELSE UNION {Limited(table \ skipped, config.page_size) :
                skipped \in Limited(table, Offset)}

\* Rows without a uri are skipped.
Listable(P) == {r \in P : r.uri}

\* The column is looked up by its configured name, untrimmed, in the rows that
\* were not skipped.
CursorCells(P) ==
  IF config.cursor_column = "plain" THEN {r.key : r \in Listable(P)} ELSE {}

\* Mutant of LastOf: every cell is kept.
LastOf_EveryCell(S) == S

LastOf(S) == {k \in S : \A m \in S : m <= k}

\* Mutant of NextPosition: a short page has a successor, too.
NextPosition_ShortPageGoesOn(P) ==
  IF Keyset THEN LastOf(CursorCells(P))
  ELSE {Offset + Cardinality(P)}

\* Mutant of NextPosition: the offset counts the resources, not the rows.
NextPosition_CountsResources(P) ==
  IF Cardinality(P) < config.page_size THEN {}
  ELSE IF Keyset THEN LastOf(CursorCells(P))
  ELSE {Offset + Cardinality(Listable(P))}

\* Mutant of NextPosition: a page with few resources is the last one.
NextPosition_FewResourcesEnd(P) ==
  IF Cardinality(Listable(P)) < config.page_size THEN {}
  ELSE IF Keyset THEN LastOf(CursorCells(P))
  ELSE {Offset + Cardinality(P)}

\* Mutant of NextPosition: a page that is just full is the last one.
NextPosition_FullPageEnds(P) ==
  IF Cardinality(P) <= config.page_size THEN {}
  ELSE IF Keyset THEN LastOf(CursorCells(P))
  ELSE {Offset + Cardinality(P)}

\* next_cursor: none after a short page, whatever the mode.
NextPosition(P) ==
  IF Cardinality(P) < config.page_size THEN {}
  ELSE IF Keyset THEN LastOf(CursorCells(P))
  ELSE {Offset + Cardinality(P)}

FetchPage ==
  /\ phase = "listing"
  /\ \E P \in Pages :
       /\ position' = NextPosition(P)
       /\ repeated' = repeated \cup (Listable(P) \cap listed)
       /\ listed' = listed \cup Listable(P)
       /\ cursors' = cursors \cup NextPosition(P)
  /\ phase' = IF position' = {} THEN "done" ELSE "listing"
  /\ UNCHANGED <<config, table, changes, changed, faults, stable>>

-----------------------------------------------------------------------------
Next ==
  \/ FetchPage
  \/ \E r \in Rows : Insert(r) \/ Delete(r)
  \/ \E r \in Rows, k \in Keys : Move(r, k)

\* The gateway asks for the next page as long as there is a cursor.
Spec == Init /\ [][Next]_vars /\ WF_vars(FetchPage)

-----------------------------------------------------------------------------
(* Safety *)

\* No resource whose row has not changed is listed twice: in keyset mode whatever
\* the table is and becomes between two pages, in offset mode as long as rows are
\* only deleted and their order is the statement's alone.
StableRowsAreListedOnce ==
  Keyset \/ (changed \subseteq {"delete"} /\ "tie" \notin faults) =>
    repeated \cap stable = {}

\* When the listing has ended, every resource whose row was there all the time
\* has been listed, if cursor values are unique: in keyset mode however the table
\* has changed between two pages, if its rows without a uri do not fill one, in
\* offset mode as long as rows were only inserted.
StableRowsAreListed ==
  (phase = "done" /\ "tie" \notin faults
    /\ IF Keyset THEN "gap" \notin faults ELSE changed \subseteq {"insert"})
  => Listable(stable) \subseteq listed

\* Where cursor values are not unique, a keyset listing misses nothing but rows
\* that had the value of a page's last one, unless there ever were enough rows
\* without a uri to fill a page: such a page ends it.
OnlyTiesAreMissed ==
  phase = "done" /\ Keyset /\ "gap" \notin faults =>
    \A r \in Listable(stable) \ listed : r.key \in cursors

\* A page that has a successor brings the gateway nearer to the end: the cursor
\* only grows, and not beyond the last key or the number of resources.
PagesAdvance ==
  phase = "listing" =>
    \A P \in Pages : \A m \in NextPosition(P) :
      /\ \A k \in position : k < m
      /\ m \in IF Keyset THEN Keys ELSE 1 .. Cardinality(Ids)

-----------------------------------------------------------------------------
(* Liveness *)

\* A gateway that follows the cursor gets to the end.
ListingEnds == <>(phase = "done")
=============================================================================
