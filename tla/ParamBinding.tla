---------------------------- MODULE ParamBinding ----------------------------
(***************************************************************************)
(* The way of an argument into a ? of the statement: JSON to CEL, the      *)
(* operator's expression, CEL to JSON, JSON to a bind (params.rs).         *)
(*                                                                         *)
(* Integers go up to MaxInt (i64) and MaxUInt (u64); floats (f64) are told *)
(* by the integers among them, so that some integers are no floats.  Texts *)
(* are numbered, a list is one value: nothing happens to them here.        *)
(***************************************************************************)
EXTENDS Integers, Sequences

CONSTANTS
  MaxInt, MaxUInt,
  Floats,     \* the integers that are floats
  EvenFloats  \* those with an even significand, that a tie is rounded to

\* The least integer that is no i64 is a power of two.
ASSUME NumbersAssumption ==
  /\ MaxInt \in Nat /\ MaxUInt = 2 * MaxInt + 1
  /\ Floats \subseteq Int /\ MaxInt + 1 \in Floats

FitsInt(n) == -MaxInt - 1 <= n /\ n <= MaxInt
FitsUInt(n) == 0 <= n /\ n <= MaxUInt

\* A value of JSON or CEL: n is its number, or the number of its text.
Of(kind, n) == [kind |-> kind, n |-> n]
Null == Of("null", 0)
NonFinite == Of("nonfinite", 0)

Distance(m, n) == IF m <= n THEN n - m ELSE m - n

\* The nearest float; of two, the even one.
Nearest(n) ==
  LET near == {f \in Floats : \A g \in Floats : Distance(f, n) <= Distance(g, n)}
  IN  CHOOSE f \in near : f \in EvenFloats \/ near \cap EvenFloats = {}

\* serde_json: a literal that is no 64-bit integer is a float.
JsonNumber(n) ==
  IF FitsInt(n) \/ FitsUInt(n) THEN Of("integer", n) ELSE Of("float", Nearest(n))

\* The numbers of serde_json, but for floats that are no integers.
JsonNumbers ==
  {Of("integer", n) : n \in -MaxInt - 1 .. MaxUInt} \cup {Of("float", n) : n \in Floats}

-----------------------------------------------------------------------------
\* json_to_cel
JsonToCel(v) ==
  IF v.kind # "integer" THEN v
  ELSE IF FitsInt(v.n) THEN Of("int", v.n)
  ELSE Of("uint", v.n)

\* The operator's expression on one argument (CEL, external).  A failure is the
\* empty set.
Apply(expression, v) ==
  CASE expression = "argument" -> {v}
    [] expression = "double" ->
         IF v.kind \in {"int", "uint", "float"} THEN {Of("float", Nearest(v.n))} ELSE {}
    [] expression = "infinite" -> {NonFinite}
    [] expression = "list" -> {Of("array", 0)}

\* cel_to_json: JSON has no infinity.
CelToJson(v) ==
  CASE v.kind \in {"int", "uint"} -> Of("integer", v.n)
    [] v.kind = "nonfinite" -> Null
    [] OTHER -> v

\* Mutant of ToBind: every number is a float.
ToBind_FloatFirst(v) ==
  CASE v.kind \in {"integer", "float"} -> {Of("float", Nearest(v.n))}
    [] v.kind \in {"array", "object"} -> {}
    [] OTHER -> {v}

\* Mutant of ToBind: a cast in place of as_i64.
ToBind_Wraps(v) ==
  CASE v.kind = "integer" ->
         {Of("int", IF FitsInt(v.n) THEN v.n ELSE v.n - MaxUInt - 1)}
    [] v.kind \in {"array", "object"} -> {}
    [] OTHER -> {v}

\* json_to_ch_bind: an i64, else an f64; no arrays and objects.
ToBind(v) ==
  CASE v.kind = "integer" ->
         {IF FitsInt(v.n) THEN Of("int", v.n) ELSE Of("float", Nearest(v.n))}
    [] v.kind \in {"array", "object"} -> {}
    [] OTHER -> {v}

\* evaluate_params, each param on one argument: a missing one fails.
Evaluate(param, arguments) ==
  UNION {{CelToJson(r) : r \in Apply(param.expression, JsonToCel(v))} :
           v \in arguments[param.name]}

\* All the binds in the order of the params, or none if one fails.
Binds(params, arguments) ==
  LET bind(param) == UNION {ToBind(v) : v \in Evaluate(param, arguments)}
  IN  IF \A i \in DOMAIN params : bind(params[i]) # {}
      THEN {[i \in DOMAIN params |-> CHOOSE b \in bind(params[i]) : TRUE]}
      ELSE {}

-----------------------------------------------------------------------------
\* arguments_referenced_by_params: only arguments.name is found, not
\* arguments["name"].
ReferencedNames(params) ==
  {params[i].name : i \in {j \in DOMAIN params : params[j].dotted}}
=============================================================================
