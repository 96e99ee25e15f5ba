-------------------------- MODULE CallData_proofs --------------------------
(***************************************************************************)
(* Theorems about CallData: the operator's filters, the names an input     *)
(* schema shows, the numbers that become binds, and the rows that become   *)
(* the outcome, for every set of texts, names, profiles, arguments and     *)
(* bodies, every width of the integers and every set of floats.            *)
(***************************************************************************)
EXTENDS CallData, ParamBinding_proofs, FiniteSetTheorems

\* The query is the one for these arguments, and a schema, if it names any
\* argument, is the one of this profile.
IInv ==
  /\ profile \in Profiles /\ arguments \in ArgumentsFor(profile)
  /\ query \subseteq QueryFor(profile, arguments)
  /\ \A names \in schema : names \in {{}, InputNames(profile)}

LEMMA Invariance == Spec => []IInv
<1>1. Init => IInv
  BY DEF Init, IInv
<1>2. IInv /\ [Next]_vars => IInv'
  <2> SUFFICES ASSUME IInv, [Next]_vars PROVE IInv'
    OBVIOUS
  <2>1. CASE ReadInputSchema
    BY <2>1 DEF ReadInputSchema, IInv
  <2>2. CASE Send
    BY <2>2 DEF Send, IInv
  <2>3. CASE RejectParams \/ Answer \/ Parse \/ Return \/ UNCHANGED vars
    BY <2>3 DEF RejectParams, Answer, Parse, Return, vars, IInv
  <2> QED BY <2>1, <2>2, <2>3 DEF Next
<1> QED BY <1>1, <1>2, PTL DEF Spec

LEMMA ValueTypes ==
  ASSUME NEW v \in Values
  PROVE  /\ v.kind = "string" => v.n \in Texts
         /\ v.kind \in {"integer", "float"} => v \in JsonNumbers
<1>1. CASE \E n \in Texts : v = Of("string", n)
  BY <1>1 DEF Of
<1>2. CASE v \in JsonNumbers
  BY <1>2 DEF JsonNumbers, Of
<1>3. CASE v \in {Null, Of("array", 0)}
  BY <1>3 DEF Of, Null
<1> QED BY <1>1, <1>2, <1>3 DEF Values

-----------------------------------------------------------------------------
(* Catalog filters *)

LEMMA AtMostOneElements ==
  ASSUME NEW S, NEW o \in AtMostOne(S), NEW x \in o
  PROVE  x \in S /\ o = {x}
BY DEF AtMostOne

\* One predicate with its own bind, or none.
LEMMA PredicateBinds ==
  ASSUME NEW column, NEW filter \in AtMostOne(Texts)
  PROVE  \/ /\ Nonempty(filter) = {}
            /\ Predicates(column, filter) = <<>> /\ FilterBinds(filter) = <<>>
         \/ \E d \in filter :
              /\ Nonempty(filter) = {d}
              /\ Predicates(column, filter) = <<column>> /\ FilterBinds(filter) = <<d>>
<1>1. CASE Nonempty(filter) = {}
  BY <1>1 DEF Predicates, FilterBinds
<1>2. CASE Nonempty(filter) # {}
  <2>1. PICK d \in filter : filter = {d} /\ d # 0
    BY <1>2, AtMostOneElements DEF Nonempty
  <2>2. (CHOOSE f \in filter : TRUE) = d
    BY <2>1
  <2>3. Nonempty(filter) = {d}
    BY <2>1 DEF Nonempty
  <2> QED BY <1>2, <2>2, <2>3 DEF Predicates, FilterBinds
<1> QED BY <1>1, <1>2

\* Every row that a query of the engine selects passes both filters.
LEMMA ColumnsQuerySelects ==
  ASSUME NEW database \in AtMostOne(Texts), NEW table \in AtMostOne(Texts),
         NEW e \in Selected(ColumnsQuery(database, table))
  PROVE  /\ \A d \in Nonempty(database) : e.database = d
         /\ \A t \in Nonempty(table) : e.table = t
<1> DEFINE ps == Predicates("database", database)   pt == Predicates("table", table)
           bs == FilterBinds(database)              bt == FilterBinds(table)
<1>1. \A i \in DOMAIN (ps \o pt) : e[(ps \o pt)[i]] = (bs \o bt)[i]
  BY DEF Selected, ColumnsQuery
<1>2. \/ Nonempty(database) = {} /\ ps = <<>> /\ bs = <<>>
      \/ \E d \in database : Nonempty(database) = {d} /\ ps = <<"database">> /\ bs = <<d>>
  BY PredicateBinds
<1>3. \/ Nonempty(table) = {} /\ pt = <<>> /\ bt = <<>>
      \/ \E d \in table : Nonempty(table) = {d} /\ pt = <<"table">> /\ bt = <<d>>
  BY PredicateBinds
<1> HIDE DEF ps, pt, bs, bt
<1>4. CASE Nonempty(database) = {} /\ ps = <<>> /\ bs = <<>>
  BY <1>1, <1>3, <1>4
<1>5. ASSUME NEW d \in database,
             Nonempty(database) = {d}, ps = <<"database">>, bs = <<d>>
      PROVE  /\ \A x \in Nonempty(database) : e.database = x
             /\ \A t \in Nonempty(table) : e.table = t
  <2>1. CASE Nonempty(table) = {} /\ pt = <<>> /\ bt = <<>>
    BY <1>1, <1>5, <2>1
  <2>2. ASSUME NEW f \in table, Nonempty(table) = {f}, pt = <<"table">>, bt = <<f>>
        PROVE  e.database = d /\ e.table = f
    <3>1. ps \o pt = <<"database">> \o <<"table">> /\ bs \o bt = <<d>> \o <<f>>
      BY <1>5, <2>2
    <3>2. /\ DOMAIN (<<"database">> \o <<"table">>) = 1 .. 2
          /\ (<<"database">> \o <<"table">>)[1] = "database"
          /\ (<<"database">> \o <<"table">>)[2] = "table"
      OBVIOUS
    <3>3. (<<d>> \o <<f>>)[1] = d /\ (<<d>> \o <<f>>)[2] = f
      OBVIOUS
    <3> QED BY <1>1, <3>1, <3>2, <3>3
  <2> QED BY <1>3, <1>5, <2>1, <2>2
<1> QED BY <1>2, <1>4, <1>5

LEMMA TablesQuerySelects ==
  ASSUME NEW database \in AtMostOne(Texts), NEW table,
         NEW e \in Selected(TablesQuery(database, table))
  PROVE  \A d \in Nonempty(database) : e.database = d
<1>1. \A i \in DOMAIN Predicates("database", database) :
        e[Predicates("database", database)[i]] = FilterBinds(database)[i]
  BY DEF Selected, TablesQuery
<1>2. \/ Nonempty(database) = {}
      \/ \E d \in database :
           /\ Nonempty(database) = {d}
           /\ Predicates("database", database) = <<"database">>
           /\ FilterBinds(database) = <<d>>
  BY PredicateBinds
<1> QED BY <1>1, <1>2

\* Without an argument's name the operator's filter is the one that is used, and
\* otherwise one of the caller's texts may be.
LEMMA Resolved ==
  ASSUME NEW p \in Profiles, NEW args \in ArgumentsFor(p),
         NEW static \in AtMostOne(Texts), NEW arg \in AtMostOne(Names)
  PROVE  /\ arg = {} => ResolveOne(static, arg, StringsOf(args)) = static
         /\ ResolveOne(static, arg, StringsOf(args)) \in AtMostOne(Texts)
<1> DEFINE strings == StringsOf(args)
<1>1. CASE UNION {strings[name] : name \in arg} = {}
  BY <1>1 DEF ResolveOne
<1>2. CASE UNION {strings[name] : name \in arg} # {}
  <2>1. PICK name \in arg : strings[name] # {}
    BY <1>2
  <2>2. name \in Names /\ arg = {name}
    BY AtMostOneElements
  <2>3. ResolveOne(static, arg, strings) = strings[name]
    BY <1>2, <2>2 DEF ResolveOne
  <2>4. strings[name] = {v.n : v \in {w \in args[name] : w.kind = "string"}}
    BY <2>2 DEF StringsOf
  <2>5. strings[name] \subseteq Texts
    <3>1. args[name] \subseteq Values
      BY <2>2, ArgumentsAssumption
    <3> QED BY <2>4, <3>1, ValueTypes
  <2>6. \A x, y \in strings[name] : x = y
    BY <2>2, <2>4, ArgumentsAssumption
  <2> QED BY <2>1, <2>2, <2>3, <2>5, <2>6 DEF AtMostOne
<1> QED BY <1>1, <1>2

-----------------------------------------------------------------------------
\* resolve_one, build_list_tables_query and build_list_columns_query: what the
\* operator fixes without naming an argument holds for every row, for all
\* filters and arguments.
THEOREM FixedFilters == Spec => []FixedFiltersHold
<1>1. IInv => FixedFiltersHold
  <2> DEFINE f == profile.filters
             fixed(static, arg) == IF arg = {} THEN Nonempty(static) ELSE {}
             strings == StringsOf(arguments)
             database == ResolveOne(f.database, f.database_arg, strings)
             table == ResolveOne(f.table, f.table_arg, strings)
  <2> SUFFICES ASSUME IInv, IsCatalogProfile(profile),
                      NEW q \in query, NEW e \in Selected(q)
               PROVE  /\ \A d \in fixed(f.database, f.database_arg) : e.database = d
                      /\ profile.operation = "list_columns" =>
                           \A t \in fixed(f.table, f.table_arg) : e.table = t
    BY DEF FixedFiltersHold
  <2>1. q = CatalogQuery(profile.operation, f, strings)
    BY DEF IInv, QueryFor
  <2>2. f \in FilterConfigs
    BY ProfilesAssumption DEF IInv
  <2>3. database \in AtMostOne(Texts) /\ table \in AtMostOne(Texts)
    BY <2>2, Resolved DEF FilterConfigs, IInv
  <2>4. /\ f.database_arg = {} => database = f.database
        /\ f.table_arg = {} => table = f.table
    BY <2>2, Resolved DEF FilterConfigs, IInv
  <2> HIDE DEF f, strings, database, table
  <2>6. CASE profile.operation = "list_tables"
    <3>1. q = TablesQuery(database, table)
      BY <2>1, <2>6 DEF CatalogQuery, database, table
    <3> QED BY <2>3, <2>4, <2>6, <3>1, TablesQuerySelects
  <2>7. CASE profile.operation = "list_columns"
    <3>1. q = ColumnsQuery(database, table)
      BY <2>1, <2>7 DEF CatalogQuery, database, table
    <3> QED BY <2>3, <2>4, <3>1, ColumnsQuerySelects
  <2> QED BY <2>6, <2>7 DEF IsCatalogProfile
<1> QED BY <1>1, Invariance, PTL
-----------------------------------------------------------------------------
(* Schemas *)

LEMMA SameStrings ==
  ASSUME NEW args, NEW other, NEW name \in Names, args[name] = other[name]
  PROVE  StringsOf(args)[name] = StringsOf(other)[name]
BY DEF StringsOf

\* A catalog query depends on the arguments that argument_names names.
LEMMA CatalogQueryDepends ==
  ASSUME NEW o, NEW f \in FilterConfigs, NEW args, NEW other,
         \A name \in ArgumentNames(f) : args[name] = other[name]
  PROVE  CatalogQuery(o, f, StringsOf(args)) = CatalogQuery(o, f, StringsOf(other))
<1>1. ASSUME NEW static, NEW arg \in AtMostOne(Names), arg \subseteq ArgumentNames(f)
      PROVE  ResolveOne(static, arg, StringsOf(args)) = ResolveOne(static, arg, StringsOf(other))
  <2>1. \A name \in arg : StringsOf(args)[name] = StringsOf(other)[name]
    <3> SUFFICES ASSUME NEW name \in arg
                 PROVE  StringsOf(args)[name] = StringsOf(other)[name]
      OBVIOUS
    <3>1. name \in Names /\ name \in ArgumentNames(f)
      BY <1>1, AtMostOneElements
    <3> QED BY <3>1, SameStrings
  <2>2. UNION {StringsOf(args)[name] : name \in arg} = UNION {StringsOf(other)[name] : name \in arg}
    BY <2>1
  <2> QED BY <2>2 DEF ResolveOne
<1>2. /\ f.database_arg \in AtMostOne(Names) /\ f.database_arg \subseteq ArgumentNames(f)
      /\ f.table_arg \in AtMostOne(Names) /\ f.table_arg \subseteq ArgumentNames(f)
  BY DEF FilterConfigs, ArgumentNames
<1>3. /\ ResolveOne(f.database, f.database_arg, StringsOf(args))
           = ResolveOne(f.database, f.database_arg, StringsOf(other))
      /\ ResolveOne(f.table, f.table_arg, StringsOf(args))
           = ResolveOne(f.table, f.table_arg, StringsOf(other))
  BY <1>1, <1>2
<1> QED BY <1>3 DEF CatalogQuery

\* The binds depend on the arguments of the params.
LEMMA BindsDepend ==
  ASSUME NEW params \in Seq(Params), NEW args, NEW other,
         \A i \in DOMAIN params : args[params[i].name] = other[params[i].name]
  PROVE  Binds(params, args) = Binds(params, other)
<1> DEFINE bind(param, as) == UNION {ToBind(v) : v \in Evaluate(param, as)}
<1>1. \A i \in DOMAIN params : bind(params[i], args) = bind(params[i], other)
  <2> SUFFICES ASSUME NEW i \in DOMAIN params
               PROVE  Evaluate(params[i], args) = Evaluate(params[i], other)
    OBVIOUS
  <2> QED BY DEF Evaluate
<1> HIDE DEF bind
<1>2. \A as : Binds(params, as) =
        IF \A i \in DOMAIN params : bind(params[i], as) # {}
        THEN {[i \in DOMAIN params |-> CHOOSE b \in bind(params[i], as) : TRUE]}
        ELSE {}
  BY DEF Binds, bind
<1>3. [i \in DOMAIN params |-> CHOOSE b \in bind(params[i], args) : TRUE]
        = [i \in DOMAIN params |-> CHOOSE b \in bind(params[i], other) : TRUE]
  BY <1>1
<1> QED BY <1>1, <1>2, <1>3

\* input_schema: a schema that names arguments names all that can change the
\* query, but for those the scan of the params cannot see, for all profiles.
THEOREM SchemasNameArguments == Spec => []SchemaNamesWhatMatters
<1>1. IInv => SchemaNamesWhatMatters
  <2> SUFFICES ASSUME IInv, NEW names \in schema, names # {},
                      NEW other \in ArgumentsFor(profile),
                      \A name \in names \cup IndexedNames(profile) :
                        other[name] = arguments[name]
               PROVE  QueryFor(profile, other) = QueryFor(profile, arguments)
    BY DEF SchemaNamesWhatMatters
  <2>1. names = InputNames(profile) /\ profile \in Profiles
    BY DEF IInv
  <2>2. CASE IsCatalogProfile(profile)
    <3>1. profile.filters \in FilterConfigs
      BY <2>1, ProfilesAssumption
    <3>2. \A name \in ArgumentNames(profile.filters) : other[name] = arguments[name]
      BY <2>1, <2>2 DEF InputNames
    <3>3. CatalogQuery(profile.operation, profile.filters, StringsOf(other))
            = CatalogQuery(profile.operation, profile.filters, StringsOf(arguments))
      BY <3>1, <3>2, CatalogQueryDepends
    <3> QED BY <2>2, <3>3 DEF QueryFor
  <2>3. CASE ~IsCatalogProfile(profile)
    <3>1. profile.params \in Seq(Params)
      BY <2>1, ProfilesAssumption
    <3>2. ASSUME NEW i \in DOMAIN profile.params
          PROVE  other[profile.params[i].name] = arguments[profile.params[i].name]
      BY <2>1, <2>3 DEF InputNames, ReferencedNames, IndexedNames
    <3>3. Binds(profile.params, other) = Binds(profile.params, arguments)
      BY <3>1, <3>2, BindsDepend
    <3> QED BY <2>3, <3>3 DEF QueryFor
  <2> QED BY <2>2, <2>3
<1> QED BY <1>1, Invariance, PTL

-----------------------------------------------------------------------------
(* Parameters *)

\* A number that a param passes on is alone at its place.
LEMMA GivenBind ==
  ASSUME IInv, NEW q \in Sent, NEW i \in DOMAIN profile.params, NEW v \in Given(i)
  PROVE  v \in JsonNumbers /\ Bound(v) = {q.binds[i]}
<1> DEFINE ps == profile.params
           bind(param) == UNION {ToBind(w) : w \in Evaluate(param, arguments)}
<1>1. ~IsCatalogProfile(profile) /\ q \in QueryFor(profile, arguments)
  BY DEF Sent, IInv
<1>2. PICK b \in Binds(ps, arguments) : q = [predicates |-> <<>>, binds |-> b]
  BY <1>1 DEF QueryFor
<1>3. b = [j \in DOMAIN ps |-> CHOOSE x \in bind(ps[j]) : TRUE]
  BY <1>2 DEF Binds
<1>4. /\ ps[i].expression = "argument" /\ v \in arguments[ps[i].name]
      /\ v.kind \in {"integer", "float"}
  BY DEF Given
<1>5. ps[i].name \in Names
  <2>1. ps \in Seq(Params)
    BY ProfilesAssumption DEF IInv
  <2>2. ps[i] \in Params
    BY <2>1
  <2> QED BY <2>2 DEF Params
<1>6. arguments[ps[i].name] = {v} /\ v \in Values
  BY <1>4, <1>5, ArgumentsAssumption DEF IInv
<1>7. v \in JsonNumbers
  BY <1>4, <1>6, ValueTypes
<1>8. Apply(ps[i].expression, JsonToCel(v)) = {JsonToCel(v)}
  BY <1>4 DEF Apply
<1>9. Evaluate(ps[i], arguments) = {CelToJson(JsonToCel(v))}
  BY <1>6, <1>8 DEF Evaluate
<1>10. bind(ps[i]) = Bound(v)
  BY <1>9 DEF Bound
<1>11. PICK x \in Bound(v) : Bound(v) = {x}
  BY <1>7, NumberBind
<1> HIDE DEF bind
<1>12. b[i] = x
  BY <1>3, <1>10, <1>11
<1> QED BY <1>2, <1>7, <1>11, <1>12

\* The way of an integer through evaluate_params and json_to_ch_bind loses no
\* digit, for every width of the integers and every set of floats.
THEOREM ExactIntegers == Spec => []IntegersAreExact
<1>1. IInv => IntegersAreExact
  <2> SUFFICES ASSUME IInv, NEW q \in Sent, NEW i \in DOMAIN profile.params,
                      NEW v \in Given(i), FitsInt(v.n), v.kind = "integer"
               PROVE  q.binds[i] = Of("int", v.n)
    BY DEF IntegersAreExact
  <2>1. v \in JsonNumbers /\ Bound(v) = {q.binds[i]}
    BY GivenBind
  <2>2. v = Of("integer", v.n) /\ v.n \in Int
    BY <2>1, NumberTypes DEF JsonNumbers, Of
  <2>3. Bound(v) = {Of("int", v.n)}
    BY <2>2, IntegerBind
  <2> QED BY <2>1, <2>3
<1> QED BY <1>1, Invariance, PTL

\* Neither evaluate_params nor json_to_ch_bind turns two numbers round, also
\* where one of them is an unsigned integer that a float stands for.
THEOREM NumbersKeepOrder == Spec => []OrderIsKept
<1>1. IInv => OrderIsKept
  <2> SUFFICES ASSUME IInv, NEW q \in Sent,
                      NEW i \in DOMAIN profile.params, NEW j \in DOMAIN profile.params,
                      NEW v \in Given(i), NEW w \in Given(j), v.n <= w.n
               PROVE  q.binds[i].n <= q.binds[j].n
    BY DEF OrderIsKept
  <2>1. /\ v \in JsonNumbers /\ Bound(v) = {q.binds[i]}
        /\ w \in JsonNumbers /\ Bound(w) = {q.binds[j]}
    BY GivenBind
  <2>2. q.binds[i].n = BoundNumber(v) /\ q.binds[j].n = BoundNumber(w)
    BY <2>1, NumberBind
  <2> QED BY <2>1, <2>2, BoundNumberIsMonotone
<1> QED BY <1>1, Invariance, PTL

-----------------------------------------------------------------------------
(* Rows *)

\* Nothing has been read before there is an answer, and everything, or a line
\* that refuses the body, when the call returns.
StageInv ==
  /\ stage = "called" => query = {}
  /\ stage \in {"called", "sent"} => body = <<>> /\ next = 1 /\ outcome = NoRows
  /\ stage = "returned" /\ query # {} => outcome.error \/ next > Len(body)

Objects(lines, n) == {i \in DOMAIN lines : i < n /\ lines[i] = "object"}

OutcomeType(lines, n, o) ==
  /\ o \in [error : BOOLEAN, rows : Seq(1 .. Len(lines)), truncated : BOOLEAN,
            row_count : 0 .. n - 1]
  /\ Len(o.rows) <= o.row_count

\* What the outcome says of the lines before n.
ReadSoFar(lines, n, cap, o) ==
  IF o.error THEN \E i \in DOMAIN lines : Bad(lines[i])
  ELSE LET found == Objects(lines, n)
           count == Cardinality(found)
       IN  /\ \A i \in DOMAIN lines : i < n => ~Bad(lines[i])
           /\ o.row_count = count
           /\ Len(o.rows) = IF count <= cap THEN count ELSE cap
           /\ o.truncated <=> Len(o.rows) < count
           /\ \A k \in DOMAIN o.rows :
                /\ o.rows[k] \in found
                /\ Cardinality({i \in found : i < o.rows[k]}) = k - 1

LoopInv == ReadSoFar(body, next, profile.cap, outcome)

\* A predicate of the catalog query never lacks its bind.
LEMMA QueryType ==
  ASSUME NEW p \in Profiles, NEW args \in ArgumentsFor(p), NEW q \in QueryFor(p, args)
  PROVE  Len(q.predicates) <= Len(q.binds)
<1>1. CASE ~IsCatalogProfile(p)
  <2>1. PICK b \in Binds(p.params, args) : q = [predicates |-> <<>>, binds |-> b]
    BY <1>1 DEF QueryFor
  <2>2. p.params \in Seq(Params)
    BY ProfilesAssumption
  <2>3. DOMAIN b = 1 .. Len(p.params)
    BY <2>1, <2>2 DEF Binds
  <2>4. b = [i \in 1 .. Len(p.params) |-> b[i]]
    BY <2>1, <2>2, <2>3 DEF Binds
  <2>5. Len(b) = Len(p.params) /\ Len(p.params) \in Nat
    BY <2>2, <2>3, <2>4
  <2> QED BY <2>1, <2>5
<1>2. CASE IsCatalogProfile(p)
  <2> DEFINE f == p.filters
             database == ResolveOne(f.database, f.database_arg, StringsOf(args))
             table == ResolveOne(f.table, f.table_arg, StringsOf(args))
  <2>1. q = CatalogQuery(p.operation, f, StringsOf(args))
    BY <1>2 DEF QueryFor
  <2>2. f \in FilterConfigs
    BY ProfilesAssumption
  <2>3. database \in AtMostOne(Texts) /\ table \in AtMostOne(Texts)
    BY <2>2, Resolved DEF FilterConfigs
  <2>4. q = TablesQuery(database, table) \/ q = ColumnsQuery(database, table)
    BY <2>1 DEF CatalogQuery
  <2> HIDE DEF f, database, table
  <2> DEFINE ps == Predicates("database", database)   pt == Predicates("table", table)
             bs == FilterBinds(database)              bt == FilterBinds(table)
  <2>5. \/ ps = <<>> /\ bs = <<>>
        \/ \E d \in database : ps = <<"database">> /\ bs = <<d>>
    BY <2>3, PredicateBinds
  <2>6. \/ pt = <<>> /\ bt = <<>>
        \/ \E d \in table : pt = <<"table">> /\ bt = <<d>>
    BY <2>3, PredicateBinds
  <2>7. \/ q.predicates = ps /\ q.binds = bs
        \/ q.predicates = ps \o pt /\ q.binds = bs \o bt
    BY <2>4 DEF TablesQuery, ColumnsQuery
  <2> HIDE DEF ps, pt, bs, bt
  <2>8. Len(ps) = Len(bs) /\ Len(ps) \in Nat
    BY <2>5
  <2>9. Len(ps \o pt) = Len(bs \o bt) /\ Len(ps \o pt) \in Nat
    BY <2>5, <2>6
  <2> QED BY <2>7, <2>8, <2>9
<1> QED BY <1>1, <1>2

LEMMA InputNamesType ==
  ASSUME NEW p \in Profiles
  PROVE  InputNames(p) \subseteq Names
<1>1. p.filters \in FilterConfigs /\ p.params \in Seq(Params)
  BY ProfilesAssumption
<1>2. ArgumentNames(p.filters) \subseteq Names
  BY <1>1 DEF ArgumentNames, FilterConfigs, AtMostOne
<1>3. ReferencedNames(p.params) \subseteq Names
  <2>1. \A i \in DOMAIN p.params : p.params[i] \in Params
    BY <1>1
  <2> QED BY <2>1 DEF ReferencedNames, Params
<1> QED BY <1>2, <1>3 DEF InputNames

\* One turn of the loop, whatever the line.
LEMMA ReadLineStep ==
  ASSUME NEW lines \in Seq(Lines), NEW n \in 1 .. Len(lines), NEW cap \in Nat, NEW o,
         OutcomeType(lines, n, o), ~o.error, ReadSoFar(lines, n, cap, o)
  PROVE  /\ OutcomeType(lines, n + 1, ReadLine(lines[n], n, cap, o))
         /\ ReadSoFar(lines, n + 1, cap, ReadLine(lines[n], n, cap, o))
<1> DEFINE line == lines[n]   found == Objects(lines, n)   count == Cardinality(found)
           r == ReadLine(line, n, cap, o)
<1>1. /\ line \in Lines /\ n \in DOMAIN lines /\ DOMAIN lines = 1 .. Len(lines)
      /\ n \in Nat \ {0} /\ Len(lines) \in Nat /\ n <= Len(lines)
  OBVIOUS
<1>2. /\ o \in [error : BOOLEAN, rows : Seq(1 .. Len(lines)), truncated : BOOLEAN,
                row_count : 0 .. n - 1]
      /\ o.error = FALSE /\ o.truncated \in BOOLEAN
      /\ o.row_count \in Nat /\ o.row_count < n /\ o.rows \in Seq(1 .. Len(lines))
      /\ Len(o.rows) \in Nat /\ Len(o.rows) <= o.row_count
      /\ DOMAIN o.rows = 1 .. Len(o.rows)
  BY <1>1 DEF OutcomeType
<1>3. /\ \A i \in DOMAIN lines : i < n => ~Bad(lines[i])
      /\ o.row_count = count
      /\ Len(o.rows) = IF count <= cap THEN count ELSE cap
      /\ o.truncated <=> Len(o.rows) < count
  BY DEF ReadSoFar
<1>4. ASSUME NEW k \in DOMAIN o.rows
      PROVE  o.rows[k] \in found /\ Cardinality({i \in found : i < o.rows[k]}) = k - 1
  BY DEF ReadSoFar
<1>5. /\ found \subseteq 1 .. n - 1 /\ n \notin found
      /\ \A i \in found : i \in Nat /\ i < n
  BY <1>1 DEF Objects
<1>6. IsFiniteSet(found)
  <2>1. IsFiniteSet(1 .. n - 1)
    BY <1>1, FS_Interval
  <2> QED BY <1>5, <2>1, FS_Subset
<1>7. Objects(lines, n + 1) = IF line = "object" THEN found \cup {n} ELSE found
  BY <1>1 DEF Objects
<1> HIDE DEF found
<1>8. Cardinality(found \cup {n}) = count + 1
  BY <1>5, <1>6, FS_AddElement
<1>9. count \in Nat
  BY <1>2, <1>3
<1>10. CASE line = "blank"
  <2>1. r = o
    BY <1>10 DEF ReadLine, Bad
  <2>2. OutcomeType(lines, n + 1, o)
    <3>1. o.row_count \in 0 .. (n + 1) - 1
      BY <1>1, <1>2
    <3> QED BY <1>2, <3>1 DEF OutcomeType
  <2>3. Objects(lines, n + 1) = found
    BY <1>7, <1>10
  <2>4. \A i \in DOMAIN lines : i < n + 1 => ~Bad(lines[i])
    BY <1>1, <1>3, <1>10 DEF Bad
  <2>5. ReadSoFar(lines, n + 1, cap, o)
    BY <1>3, <1>4, <2>3, <2>4 DEF ReadSoFar
  <2> QED BY <2>1, <2>2, <2>5
<1>11. CASE line \in {"value", "garbage"}
  <2>1. r = [error |-> TRUE, rows |-> <<>>, truncated |-> FALSE, row_count |-> 0]
    BY <1>11 DEF ReadLine, Bad, NoRows
  <2>2. OutcomeType(lines, n + 1, r)
    BY <1>1, <2>1 DEF OutcomeType
  <2>3. ReadSoFar(lines, n + 1, cap, r)
    BY <1>1, <1>11, <2>1 DEF ReadSoFar, Bad
  <2> QED BY <2>2, <2>3
<1>12. CASE line = "object"
  <2>1. Objects(lines, n + 1) = found \cup {n}
    BY <1>7, <1>12
  <2>2. \A i \in DOMAIN lines : i < n + 1 => ~Bad(lines[i])
    BY <1>1, <1>3, <1>12 DEF Bad
  <2>3. ASSUME NEW k \in DOMAIN o.rows
        PROVE  /\ o.rows[k] \in found \cup {n}
               /\ Cardinality({i \in found \cup {n} : i < o.rows[k]}) = k - 1
    <3>1. o.rows[k] \in found
      BY <1>4
    <3>2. o.rows[k] \in Nat /\ o.rows[k] < n
      BY <1>5, <3>1
    <3>3. {i \in found \cup {n} : i < o.rows[k]} = {i \in found : i < o.rows[k]}
      BY <1>1, <3>2
    <3> QED BY <1>4, <3>1, <3>3
  <2>4. o.row_count + 1 \in 0 .. (n + 1) - 1
    BY <1>1, <1>2
  <2>5. CASE Len(o.rows) >= cap
    <3>1. r = [o EXCEPT !.truncated = TRUE, !.row_count = @ + 1]
      BY <1>12, <2>5 DEF ReadLine, Bad
    <3>2. r = [error |-> FALSE, rows |-> o.rows, truncated |-> TRUE,
               row_count |-> o.row_count + 1]
      BY <1>2, <3>1
    <3>3. OutcomeType(lines, n + 1, r)
      BY <1>2, <2>4, <3>2 DEF OutcomeType
    <3>4. Len(o.rows) = IF count + 1 <= cap THEN count + 1 ELSE cap
      BY <1>2, <1>3, <1>9, <2>5
    <3>5. Len(o.rows) < count + 1
      BY <1>2, <1>3
    <3> HIDE DEF count, r
    <3>6. ReadSoFar(lines, n + 1, cap, r)
      BY <1>3, <1>8, <2>1, <2>2, <2>3, <3>2, <3>4, <3>5 DEF ReadSoFar
    <3> QED BY <3>3, <3>6 DEF r
  <2>6. CASE Len(o.rows) < cap
    <3> DEFINE rows == Append(o.rows, n)
    <3>1. r = [o EXCEPT !.rows = Append(@, n), !.row_count = @ + 1]
      BY <1>2, <1>12, <2>6 DEF ReadLine, Bad
    <3>2. r = [error |-> FALSE, rows |-> rows, truncated |-> o.truncated,
               row_count |-> o.row_count + 1]
      BY <1>2, <3>1
    <3>3. /\ rows \in Seq(1 .. Len(lines)) /\ Len(rows) = Len(o.rows) + 1
          /\ DOMAIN rows = 1 .. Len(o.rows) + 1
          /\ \A k \in 1 .. Len(o.rows) : rows[k] = o.rows[k]
          /\ rows[Len(o.rows) + 1] = n
      BY <1>1, <1>2
    <3> HIDE DEF rows
    <3>4. OutcomeType(lines, n + 1, r)
      BY <1>2, <2>4, <3>2, <3>3 DEF OutcomeType
    <3>5. Len(o.rows) = count /\ o.truncated = FALSE /\ count + 1 <= cap
      BY <1>2, <1>3, <1>9, <2>6
    <3>6. ASSUME NEW k \in DOMAIN rows
          PROVE  /\ rows[k] \in found \cup {n}
                 /\ Cardinality({i \in found \cup {n} : i < rows[k]}) = k - 1
      <4>1. CASE k \in DOMAIN o.rows
        BY <1>2, <2>3, <3>3, <4>1
      <4>2. CASE k = Len(o.rows) + 1
        <5>1. \A i \in found \cup {n} : i < n <=> i \in found
          BY <1>1, <1>5
        <5>2. {i \in found \cup {n} : i < n} = found
          BY <5>1
        <5>3. k - 1 = count /\ rows[k] = n
          BY <1>9, <3>3, <3>5, <4>2
        <5> QED BY <5>2, <5>3
      <4> QED BY <1>2, <3>3, <4>1, <4>2
    <3>7. /\ ~r.error /\ r.rows = rows /\ ~r.truncated
          /\ r.row_count = count + 1 /\ Len(rows) = count + 1
      BY <1>3, <3>2, <3>3, <3>5
    <3> HIDE DEF count, r
    <3>8. ReadSoFar(lines, n + 1, cap, r)
      <4>1. Len(r.rows) = IF count + 1 <= cap THEN count + 1 ELSE cap
        BY <3>5, <3>7
      <4>2. r.truncated <=> Len(r.rows) < count + 1
        BY <1>9, <3>7
      <4>3. \A k \in DOMAIN r.rows :
              /\ r.rows[k] \in found \cup {n}
              /\ Cardinality({i \in found \cup {n} : i < r.rows[k]}) = k - 1
        BY <3>6, <3>7
      <4> QED BY <1>8, <2>1, <2>2, <3>7, <4>1, <4>2, <4>3 DEF ReadSoFar
    <3> QED BY <3>4, <3>8 DEF r
  <2> QED BY <1>2, <2>5, <2>6
<1> QED BY <1>1, <1>10, <1>11, <1>12 DEF Lines

\* The inductive invariant of the rows.
RowsInv == TypeOK /\ StageInv /\ LoopInv

LEMMA InitRows == Init => RowsInv
<1> SUFFICES ASSUME Init PROVE RowsInv
  OBVIOUS
<1>1. TypeOK
  BY DEF Init, TypeOK, NoRows, AtMostOne
<1>2. Objects(<<>>, 1) = {}
  BY DEF Objects
<1>3. ReadSoFar(<<>>, 1, profile.cap, NoRows)
  <2>1. profile.cap \in Nat
    BY ProfilesAssumption DEF Init
  <2>2. /\ ~NoRows.error /\ NoRows.rows = <<>> /\ ~NoRows.truncated
        /\ NoRows.row_count = 0 /\ Len(<<>>) = 0 /\ DOMAIN <<>> = {}
    BY DEF NoRows
  <2>3. Cardinality(Objects(<<>>, 1)) = 0
    BY <1>2, FS_EmptySet
  <2>4. Len(NoRows.rows) = IF 0 <= profile.cap THEN 0 ELSE profile.cap
    BY <2>1, <2>2
  <2>5. NoRows.truncated <=> Len(NoRows.rows) < 0
    BY <2>2
  <2> QED BY <2>2, <2>3, <2>4, <2>5 DEF ReadSoFar
<1>4. LoopInv
  BY <1>3 DEF Init, LoopInv
<1> QED BY <1>1, <1>4 DEF Init, RowsInv, StageInv

LEMMA StepRows == IInv /\ RowsInv /\ [Next]_vars => RowsInv'
<1> SUFFICES ASSUME IInv, RowsInv, [Next]_vars PROVE RowsInv'
  OBVIOUS
<1> USE DEF RowsInv
<1>1. CASE ReadInputSchema
  <2>1. schema' \in AtMostOne(SUBSET Names)
    <3>1. InputNames(profile) \subseteq Names
      BY InputNamesType DEF IInv
    <3> QED BY <1>1, <3>1 DEF ReadInputSchema, AtMostOne
  <2> QED BY <1>1, <2>1 DEF ReadInputSchema, TypeOK, StageInv, LoopInv
<1>2. CASE Send
  <2>1. \A q \in query' : Len(q.predicates) <= Len(q.binds)
    BY <1>2, QueryType DEF Send, IInv
  <2> QED BY <1>2, <2>1 DEF Send, TypeOK, StageInv, LoopInv
<1>3. CASE RejectParams
  BY <1>3 DEF RejectParams, TypeOK, StageInv, LoopInv
<1>4. CASE Answer
  <2>1. /\ body' \in Seq(Lines) /\ stage' = "answered" /\ next = 1 /\ outcome = NoRows
        /\ UNCHANGED <<profile, arguments, schema, query, next, outcome>>
    BY <1>4, BodiesAssumption DEF Answer, StageInv, IInv
  <2>2. TypeOK'
    BY <2>1 DEF TypeOK, NoRows
  <2>3. Objects(body', 1) = {}
    BY <2>1 DEF Objects
  <2>4. \A i \in DOMAIN body' : ~(i < 1)
    BY <2>1
  <2>5. profile.cap \in Nat
    BY ProfilesAssumption DEF IInv
  <2>6. ReadSoFar(body', 1, profile.cap, NoRows)
    BY <2>3, <2>4, <2>5, FS_EmptySet DEF ReadSoFar, NoRows
  <2> QED BY <2>1, <2>2, <2>6 DEF StageInv, LoopInv
<1>5. CASE Parse
  <2>1. /\ ~outcome.error /\ next \in 1 .. Len(body) /\ next' = next + 1
        /\ outcome' = ReadLine(body[next], next, profile.cap, outcome)
        /\ UNCHANGED <<profile, arguments, stage, schema, query, body>>
        /\ stage = "answered"
    BY <1>5 DEF Parse, TypeOK
  <2>2. body \in Seq(Lines) /\ profile.cap \in Nat /\ OutcomeType(body, next, outcome)
    BY ProfilesAssumption DEF TypeOK, IInv, OutcomeType
  <2>3. OutcomeType(body, next', outcome') /\ ReadSoFar(body, next', profile.cap, outcome')
    BY <2>1, <2>2, ReadLineStep DEF LoopInv
  <2>4. TypeOK'
    BY <2>1, <2>3 DEF TypeOK, OutcomeType
  <2> QED BY <2>1, <2>3, <2>4 DEF StageInv, LoopInv
<1>6. CASE Return
  BY <1>6 DEF Return, TypeOK, StageInv, LoopInv
<1>7. CASE UNCHANGED vars
  BY <1>7 DEF vars, TypeOK, StageInv, LoopInv
<1> QED BY <1>1, <1>2, <1>3, <1>4, <1>5, <1>6, <1>7 DEF Next

LEMMA RowsInvariance == Spec => []RowsInv
BY InitRows, StepRows, Invariance, PTL DEF Spec

\* The types of a call's data; no predicate of build_list_columns_query lacks its
\* bind, and rows is never longer than row_count.
THEOREM TypeCorrect == Spec => []TypeOK
<1>1. RowsInv => TypeOK
  BY DEF RowsInv
<1> QED BY <1>1, RowsInvariance, PTL

\* parse_json_each_row: the rows of the outcome, their number, the truncated flag
\* and the refusal are those of the body, for every body and every cap.
THEOREM OutcomeMatchesBody == Spec => []RowsMatchBody
<1>1. IInv /\ RowsInv => RowsMatchBody
  <2> DEFINE objects == {i \in DOMAIN body : body[i] = "object"}
  <2> SUFFICES ASSUME RowsInv, stage = "returned", query # {}
               PROVE  IF \E i \in DOMAIN body : Bad(body[i])
                      THEN outcome.error
                      ELSE /\ ~outcome.error
                           /\ outcome.row_count = Cardinality(objects)
                           /\ Len(outcome.rows) = IF Cardinality(objects) <= profile.cap
                                                  THEN Cardinality(objects) ELSE profile.cap
                           /\ outcome.truncated <=> Len(outcome.rows) < Cardinality(objects)
                           /\ \A k \in DOMAIN outcome.rows :
                                /\ outcome.rows[k] \in objects
                                /\ Cardinality({i \in objects : i < outcome.rows[k]}) = k - 1
    BY DEF RowsMatchBody
  <2>1. CASE outcome.error
    BY <2>1 DEF RowsInv, LoopInv, ReadSoFar
  <2>2. CASE ~outcome.error
    <3>1. next > Len(body) /\ next \in Nat /\ body \in Seq(Lines)
      BY <2>2 DEF RowsInv, TypeOK, StageInv
    <3>2. \A i \in DOMAIN body : i < next
      BY <3>1
    <3>3. Objects(body, next) = objects
      BY <3>2 DEF Objects
    <3> HIDE DEF objects
    <3> QED BY <2>2, <3>2, <3>3 DEF RowsInv, LoopInv, ReadSoFar
  <2> QED BY <2>1, <2>2
<1> QED BY <1>1, Invariance, RowsInvariance, PTL
=============================================================================
