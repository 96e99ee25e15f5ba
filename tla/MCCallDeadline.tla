--------------------------- MODULE MCCallDeadline ---------------------------
(* Small instances of CallDeadline for TLC. *)
EXTENDS CallDeadline

\* Two ticks to the second: below, at and between whole seconds.
SomeCeilings == {1, 2, 3}
BetweenSeconds == {3}

NoOverride == {{}}
\* None, and a wider one.
SomeOverrides == {{}, {2}}
=============================================================================
