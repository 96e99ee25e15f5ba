----------------------------- MODULE MCCallData -----------------------------
(* Small instances of CallData for TLC. *)
EXTENDS CallData

\* Integers of five bits, floats with a significand of three.
FiveBits == 2^4 - 1
UnsignedFiveBits == 2^5 - 1
WithBits(bits) ==
  {s * m * 2^e : s \in {-1, 1}, m \in 0 .. 2^bits - 1, e \in 0 .. 6 - bits}
ThreeBitFloats == WithBits(3)
EvenThreeBitFloats == WithBits(2)

NoFilters == [database |-> {}, database_arg |-> {}, table |-> {}, table_arg |-> {}]

\* Every combination of a filter the operator fixes and an argument for it.
CatalogProfiles ==
  {[operation |-> o, filters |-> f, params |-> <<>>, cap |-> 1] :
     o \in {"list_tables", "list_columns"},
     f \in {g \in FilterConfigs : g.database # {2} /\ g.table # {2}}}

Param(name, dotted, expression) ==
  [name |-> name, dotted |-> dotted, expression |-> expression]

ParamLists ==
  {<<Param("x", TRUE, "argument"), Param("y", d, "argument")>> : d \in BOOLEAN}
  \cup {<<Param("x", TRUE, e)>> : e \in {"double", "infinite", "list"}}

QueryProfiles ==
  {[operation |-> "query", filters |-> NoFilters, params |-> ps, cap |-> 1] :
     ps \in ParamLists}
PlainProfiles ==
  {[operation |-> "query", filters |-> NoFilters, params |-> <<>>, cap |-> cap] :
     cap \in 1 .. 2}

AllProfiles == CatalogProfiles \cup QueryProfiles \cup PlainProfiles

Strings == {Of("string", n) : n \in Texts}

\* The integers where something changes: signed and unsigned limits, and what
\* three bits of significand can hold.
Numbers == {JsonNumber(n) : n \in {-16, -1, 8, 9, 15, 16, 17, 31, 32, 35}}

OptionsOf(values) == [Names -> {{}} \cup {{v} : v \in values}]

SomeArguments(p) ==
  IF IsCatalogProfile(p) THEN OptionsOf(Strings \cup {Of("integer", 1)})
  ELSE IF p.params = <<>> THEN OptionsOf({})
  ELSE OptionsOf(Numbers \cup {Null, Of("string", 1)})

\* Up to four lines of every kind, where nothing else varies.
SomeBodies(p) ==
  IF p \in PlainProfiles THEN UNION {[1 .. n -> Lines] : n \in 0 .. 4}
                         ELSE {<<"object">>}

\* A fixed database and a caller's table, and arguments for both.
PinnedProfiles ==
  {[operation |-> "list_columns", params |-> <<>>, cap |-> 1,
    filters |-> [NoFilters EXCEPT !.database = {1}, !.database_arg = {"y"},
                                  !.table = {1}, !.table_arg = {"x"}]]}
=============================================================================
