------------------------- MODULE MCClickHouseBackend -------------------------
(* Small instances of ClickHouseBackend, and of its refinement, for TLC. *)
EXTENDS CallRefinement

CONSTANTS b1, c1, c2

\* SELECT on the tool surface with every default.
ReadTool ==
  [url |-> "set", operation |-> "query", surface |-> "tool", read_only |-> TRUE,
   statement |-> "read", read_query |-> {}, list_query |-> {},
   completions |-> {}, uri |-> {}, catalog_table |-> {},
   catalog_table_arg |-> {}, params |-> "valid",
   max_execution_time_ms |-> 1, max_result_rows |-> 1, verify_peer |-> TRUE,
   settings |-> {}]

KeysetListing ==
  [sql |-> "read", mode |-> "keyset", cursor_column |-> "plain", page_size |-> 1]
OffsetListing == [KeysetListing EXCEPT !.mode = "offset", !.cursor_column = "blank"]
Completion == [sql |-> "read", placeholders |-> 1, max_results |-> 1]

DisguisedTool == [ReadTool EXCEPT !.statement = "disguised", !.max_result_rows = 2]
WriteTool == [ReadTool EXCEPT !.read_only = FALSE, !.statement = "write"]
Prompt == [ReadTool EXCEPT !.surface = "prompt", !.params = "none"]
Resource ==
  [ReadTool EXCEPT !.surface = "resource", !.statement = "blank",
                   !.read_query = {"read"}, !.list_query = {OffsetListing},
                   !.completions = {Completion}]
WritableResource ==
  [Resource EXCEPT !.read_only = FALSE, !.statement = "write", !.uri = {"set"},
                   !.list_query = {KeysetListing}]
Catalog ==
  [ReadTool EXCEPT !.operation = "list_tables", !.statement = "blank",
                   !.read_only = FALSE, !.completions = {[Completion EXCEPT !.sql = "write"]}]
Guardrail == [ReadTool EXCEPT !.settings = {"readonly", "other"}]
GuardedWrite == [WriteTool EXCEPT !.settings = {"readonly"}]

\* Specs one check of register_profile away from being accepted.
NearMisses ==
  {[ReadTool EXCEPT !.statement = "blank"], [ReadTool EXCEPT !.statement = "cred"],
   [ReadTool EXCEPT !.statement = "write"], [ReadTool EXCEPT !.url = "blank"],
   [ReadTool EXCEPT !.max_result_rows = 0], [ReadTool EXCEPT !.verify_peer = FALSE],
   [ReadTool EXCEPT !.statement = "blank", !.read_query = {"read"}],
   [Resource EXCEPT !.read_query = {"write"}], [Resource EXCEPT !.read_query = {"blank"}],
   [Resource EXCEPT !.list_query = {[KeysetListing EXCEPT !.sql = "write"]}],
   [Resource EXCEPT !.list_query = {[KeysetListing EXCEPT !.page_size = 0]}],
   [Resource EXCEPT !.completions = {[Completion EXCEPT !.sql = "cred"]}],
   [Resource EXCEPT !.completions = {[Completion EXCEPT !.placeholders = 2]}],
   [Catalog EXCEPT !.operation = "list_columns"]}

\* One call against every kind of binding.
EveryKind == {ReadTool, DisguisedTool, WriteTool, Prompt, Resource,
              WritableResource, Catalog, GuardedWrite} \cup NearMisses
EveryRequest == RequestType

\* Two calls that share a binding which changes under them.
Changing == {DisguisedTool, Resource, WriteTool}
SharedRequests ==
  {[binding |-> b1, kind |-> k, input |-> "good", uri |-> FALSE] : k \in {"execute", "list"}}

ExecuteOnly ==
  {[binding |-> b1, kind |-> "execute", input |-> i, uri |-> TRUE] :
     i \in {"good", "unbindable"}}
ReadsOnly ==
  {[binding |-> b1, kind |-> k, input |-> "good", uri |-> TRUE] :
     k \in {"list", "complete"}}
TwoTexts == {{"transient"}, {"rejection", "timeout"}}

GuardrailOnly == {Guardrail}

OneBinding == {b1}
OneCall == {c1}
TwoCalls == {c1, c2}
=============================================================================
