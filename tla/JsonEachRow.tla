----------------------------- MODULE JsonEachRow -----------------------------
(***************************************************************************)
(* parse_json_each_row (engine.rs): the response body, line by line, to    *)
(* rows, their number and the truncated flag.                              *)
(***************************************************************************)
EXTENDS Naturals, Sequences

\* A line is blank, an object, a JSON value that is none, or no JSON.
Lines == {"blank", "object", "value", "garbage"}
Bad(line) == line \in {"value", "garbage"}

\* rows: which lines became rows; error: the body is refused.
NoRows == [error |-> FALSE, rows |-> <<>>, truncated |-> FALSE, row_count |-> 0]

\* Mutant of ReadLine: lines past the cap are not looked at.
ReadLine_StopsAtCap(line, i, cap, out) ==
  CASE line = "blank" -> out
    [] line # "blank" /\ Len(out.rows) >= cap -> [out EXCEPT !.truncated = TRUE]
    [] Bad(line) /\ Len(out.rows) < cap -> [NoRows EXCEPT !.error = TRUE]
    [] OTHER -> [out EXCEPT !.rows = Append(@, i), !.row_count = @ + 1]

\* One turn of the loop, on line i.
ReadLine(line, i, cap, out) ==
  CASE line = "blank" -> out
    [] Bad(line) -> [NoRows EXCEPT !.error = TRUE]
    [] line = "object" /\ Len(out.rows) >= cap ->
         [out EXCEPT !.truncated = TRUE, !.row_count = @ + 1]
    [] OTHER -> [out EXCEPT !.rows = Append(@, i), !.row_count = @ + 1]
=============================================================================
