-------------------------- MODULE BindingSpec_proofs --------------------------
(***************************************************************************)
(* What register_profile guarantees of every spec it accepts, whatever the *)
(* values of its fields.                                                   *)
(***************************************************************************)
EXTENDS BindingSpec, TLAPS

\* A set built from one member of S is an Option of S.
LEMMA SingletonIsOption ==
  ASSUME NEW S, NEW x \in S
  PROVE  {x} \in Option(S) /\ {} \in Option(S)
BY DEF Option

\* An Option of S holds members of S, and two of them are the same.
LEMMA OptionMembers ==
  ASSUME NEW S, NEW T \in Option(S), NEW x \in T, NEW y \in T
  PROVE  x \in S /\ x = y
BY DEF Option

\* The stored profile is a profile.
LEMMA ProfileOfType ==
  ASSUME NEW s \in BindingSpecs
  PROVE  ProfileOf(s) \in Profiles
BY DEF BindingSpecs, ProfileOf, Profiles

\* The plans of a profile are plans.
LEMMA PlansForType ==
  ASSUME NEW p \in Profiles, NEW kind \in CallKinds,
         NEW plan \in PlansFor(p, kind)
  PROVE  plan \in Plans
<1>1. p.max_rows \in Nat /\ p.statement \in SqlTexts
  BY DEF Profiles
<1>2. CASE kind = "execute"
  <2>1. plan \in ExecutePlans(p)
    BY <1>2 DEF PlansFor
  <2>2. CASE IsCatalog(p.operation)
    <3>1. plan = [sql |-> "read", cap |-> p.max_rows, limit |-> {p.max_rows}]
      BY <2>1, <2>2 DEF ExecutePlans, CatalogPlan
    <3>. QED
      BY <1>1, <3>1, SingletonIsOption DEF Plans, SqlTexts
  <2>3. CASE ~IsCatalog(p.operation)
    <3>1. PICK sql \in EffectiveStatements(p) :
            plan = [sql |-> sql, cap |-> p.max_rows, limit |-> {}]
      BY <2>1, <2>3 DEF ExecutePlans
    <3>2. p.read_query \in Option(SqlTexts)
      BY DEF Profiles
    <3>3. sql \in SqlTexts
      BY <1>1, <3>2, OptionMembers DEF EffectiveStatements
    <3>. QED
      BY <1>1, <3>1, <3>3, SingletonIsOption DEF Plans
  <2>. QED
    BY <2>2, <2>3
<1>3. CASE kind = "list"
  <2>1. PICK q \in p.list_query :
          plan = [sql |-> q.sql, cap |-> q.page_size, limit |-> {q.page_size}]
    BY <1>3 DEF PlansFor
  <2>2. p.list_query \in Option(ListQueries)
    BY DEF Profiles
  <2>3. q \in ListQueries
    BY <2>2, OptionMembers
  <2>4. q.sql \in SqlTexts /\ q.page_size \in Nat
    BY <2>3 DEF ListQueries
  <2>. QED
    BY <2>1, <2>4, SingletonIsOption DEF Plans
<1>4. CASE kind = "complete"
  <2>1. PICK q \in p.completions :
          plan = [sql |-> q.sql, cap |-> q.max_results, limit |-> {}]
    BY <1>4 DEF PlansFor
  <2>2. p.completions \in Option(Completions)
    BY DEF Profiles
  <2>3. q \in Completions
    BY <2>2, OptionMembers
  <2>4. q.sql \in SqlTexts /\ q.max_results \in Nat
    BY <2>3 DEF Completions
  <2>. QED
    BY <2>1, <2>4, SingletonIsOption DEF Plans
<1>. QED
  BY <1>2, <1>3, <1>4 DEF CallKinds

\* Whatever spec register_profile accepts, no call on its profile can send a
\* blank statement, a bare secret reference or, on a read-only binding, an
\* unguarded statement: the per-field checks of lib.rs leave no gap between
\* operation, surface, statement and read_query.
THEOREM AcceptedSpecIsServable ==
  ASSUME NEW s \in BindingSpecs, Accepts(s)
  PROVE  Servable(ProfileOf(s))
<1> DEFINE p == ProfileOf(s)
<1> SUFFICES ASSUME NEW kind \in CallKinds, NEW plan \in PlansFor(p, kind)
             PROVE  /\ plan.sql \notin {"blank", "cred"}
                    /\ p.read_only => GuardPasses(plan.sql)
  BY DEF Servable
<1>1. /\ p.operation = s.operation /\ p.surface = s.surface
      /\ p.read_only = s.read_only /\ p.statement = s.statement
      /\ p.read_query = s.read_query /\ p.list_query = s.list_query
      /\ p.completions = s.completions
  BY DEF ProfileOf
<1> HIDE DEF p
<1>2. CASE kind = "execute"
  <2>1. plan \in ExecutePlans(p)
    BY <1>2 DEF PlansFor
  <2>2. CASE IsCatalog(p.operation)
    <3>1. plan.sql = "read"
      BY <2>1, <2>2 DEF ExecutePlans, CatalogPlan
    <3>. QED
      BY <3>1 DEF GuardPasses
  <2>3. CASE ~IsCatalog(p.operation)
    <3>1. plan.sql \in EffectiveStatements(p)
      BY <2>1, <2>3 DEF ExecutePlans
    <3>2. s.operation = "query"
      BY <1>1, <2>3 DEF BindingSpecs, Operations, IsCatalog
    <3>3. CASE plan.sql \in s.read_query
      BY <3>3, <1>1 DEF Accepts, ReadQueryIsGuarded
    <3>4. CASE plan.sql \notin s.read_query
      <4>1. plan.sql = s.statement
        BY <3>1, <3>4, <1>1 DEF EffectiveStatements
      <4>2. s.statement # "blank"
        <5>1. SUFFICES ASSUME s.statement = "blank"
                       PROVE  FALSE
          OBVIOUS
        <5>2. ~Blank(s.read_query)
          BY <5>1, <3>2 DEF Accepts, OperationHasItsText
        <5>3. PICK sql \in s.read_query : TRUE
          BY <5>2 DEF Blank
        <5>4. s.surface = "resource"
          BY <5>3 DEF Accepts, ReadQueryIsGuarded
        <5>5. EffectiveStatements(p) = s.read_query
          BY <1>1, <5>3, <5>4 DEF EffectiveStatements
        <5>. QED
          BY <3>1, <3>4, <5>5
      <4>. QED
        BY <1>1, <3>2, <4>1, <4>2 DEF Accepts, StatementIsGuarded
    <3>. QED
      BY <3>3, <3>4
  <2>. QED
    BY <2>2, <2>3
<1>3. CASE kind = "list"
  <2>1. PICK q \in s.list_query : plan.sql = q.sql
    BY <1>1, <1>3 DEF PlansFor
  <2>. QED
    BY <1>1, <2>1 DEF Accepts, ReadSurfacesAreGuarded, ListQueryIsValid
<1>4. CASE kind = "complete"
  <2>1. PICK q \in s.completions : plan.sql = q.sql
    BY <1>1, <1>4 DEF PlansFor
  <2>. QED
    BY <1>1, <2>1 DEF Accepts, ReadSurfacesAreGuarded, CompletionIsValid
<1>. QED
  BY <1>2, <1>3, <1>4 DEF CallKinds
=============================================================================
