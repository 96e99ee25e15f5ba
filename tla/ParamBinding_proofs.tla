------------------------- MODULE ParamBinding_proofs -------------------------
(***************************************************************************)
(* Lemmas about ParamBinding: the rounding of integers to floats keeps     *)
(* their order, and what becomes of a number on its way into a bind, for   *)
(* every width of the integers and every set of floats.                    *)
(***************************************************************************)
EXTENDS ParamBinding, WellFoundedInduction, TLAPS

-----------------------------------------------------------------------------
(* The nearest float *)

LEMMA NumberTypes ==
  /\ MaxInt \in Int /\ MaxUInt \in Int /\ MaxUInt = 2 * MaxInt + 1
  /\ Floats \subseteq Int /\ MaxInt + 1 \in Floats
BY NumbersAssumption

LEMMA DistanceType ==
  ASSUME NEW m \in Int, NEW n \in Int
  PROVE  Distance(m, n) \in Nat
BY DEF Distance

\* Some float is nearest, whatever the set of floats.
LEMMA NearestExists ==
  ASSUME NEW n \in Int
  PROVE  \E f \in Floats : \A g \in Floats : Distance(f, n) <= Distance(g, n)
<1> DEFINE distances == {Distance(f, n) : f \in Floats}
<1>1. distances \subseteq Nat /\ distances # {}
  BY NumberTypes, DistanceType
<1> HIDE DEF distances
<1>2. PICK d \in distances : \A e \in distances : ~(<<e, d>> \in OpToRel(<, Nat))
  BY <1>1, NatLessThanWellFounded, WFMin
<1>3. \A e \in distances : ~(e < d)
  BY <1>1, <1>2 DEF OpToRel
<1>4. \A e \in distances : d <= e
  BY <1>1, <1>3
<1> QED BY <1>4 DEF distances

LEMMA NearestIsNearest ==
  ASSUME NEW n \in Int
  PROVE  /\ Nearest(n) \in Floats
         /\ \A g \in Floats : Distance(Nearest(n), n) <= Distance(g, n)
<1> DEFINE near == {f \in Floats : \A g \in Floats : Distance(f, n) <= Distance(g, n)}
           best(f) == f \in EvenFloats \/ near \cap EvenFloats = {}
<1>1. \E f \in near : best(f)
  BY NearestExists
<1>2. Nearest(n) = CHOOSE f \in near : best(f)
  BY DEF Nearest
<1>3. Nearest(n) \in near
  BY <1>1, <1>2
<1> QED BY <1>3

\* A float is its own nearest.
LEMMA NearestOfFloat ==
  ASSUME NEW f \in Floats
  PROVE  Nearest(f) = f
<1>1. Nearest(f) \in Int /\ f \in Int /\ Distance(Nearest(f), f) <= Distance(f, f)
  BY NearestIsNearest, NumberTypes
<1> QED BY <1>1 DEF Distance

\* Rounding keeps the order: where two roundings would cross, both numbers are
\* the midpoint, and a tie is always decided the same way.
LEMMA NearestIsMonotone ==
  ASSUME NEW m \in Int, NEW n \in Int, m <= n
  PROVE  Nearest(m) <= Nearest(n)
<1> DEFINE a == Nearest(m)   b == Nearest(n)
<1>1. /\ a \in Int /\ b \in Int
      /\ Distance(a, m) <= Distance(b, m)
      /\ Distance(b, n) <= Distance(a, n)
  BY NearestIsNearest, NumberTypes
<1>2. m = n => a = b
  OBVIOUS
<1> HIDE DEF a, b
<1>3. b < a => m = n
  BY <1>1 DEF Distance
<1>4. a <= b
  BY <1>1, <1>2, <1>3
<1> QED BY <1>4 DEF a, b

-----------------------------------------------------------------------------
(* A number that a param passes on as it came *)

\* json_to_cel, cel_to_json and json_to_ch_bind, of a number.
Bound(v) == ToBind(CelToJson(JsonToCel(v)))

\* An i64 arrives as it is.
LEMMA IntegerBind ==
  ASSUME NEW n \in Int, FitsInt(n)
  PROVE  Bound(Of("integer", n)) = {Of("int", n)}
<1>1. JsonToCel(Of("integer", n)) = Of("int", n)
  BY DEF JsonToCel, Of
<1>2. CelToJson(Of("int", n)) = Of("integer", n)
  BY DEF CelToJson, Of
<1>3. ToBind(Of("integer", n)) = {Of("int", n)}
  BY DEF ToBind, Of
<1> QED BY <1>1, <1>2, <1>3 DEF Bound

\* A larger integer becomes the nearest float.
LEMMA UnsignedBind ==
  ASSUME NEW n \in Int, ~FitsInt(n)
  PROVE  Bound(Of("integer", n)) = {Of("float", Nearest(n))}
<1>1. JsonToCel(Of("integer", n)) = Of("uint", n)
  BY DEF JsonToCel, Of
<1>2. CelToJson(Of("uint", n)) = Of("integer", n)
  BY DEF CelToJson, Of
<1>3. ToBind(Of("integer", n)) = {Of("float", Nearest(n))}
  BY DEF ToBind, Of
<1> QED BY <1>1, <1>2, <1>3 DEF Bound

\* A float arrives as it is.
LEMMA FloatBind ==
  ASSUME NEW n \in Floats
  PROVE  Bound(Of("float", n)) = {Of("float", n)}
<1>1. JsonToCel(Of("float", n)) = Of("float", n)
  BY DEF JsonToCel, Of
<1>2. CelToJson(Of("float", n)) = Of("float", n)
  BY DEF CelToJson, Of
<1>3. ToBind(Of("float", n)) = {Of("float", n)}
  BY DEF ToBind, Of
<1> QED BY <1>1, <1>2, <1>3 DEF Bound

-----------------------------------------------------------------------------
(* The order of two such numbers *)

\* The number of the bind.
BoundNumber(v) ==
  IF v.kind = "integer" /\ ~FitsInt(v.n) THEN Nearest(v.n) ELSE v.n

LEMMA NumberBind ==
  ASSUME NEW v \in JsonNumbers
  PROVE  /\ v.n \in Int
         /\ v.kind = "integer" => v.n <= MaxUInt /\ (FitsInt(v.n) \/ MaxInt < v.n)
         /\ v.kind # "integer" => v.n \in Floats
         /\ \E b \in Bound(v) : Bound(v) = {b} /\ b.n = BoundNumber(v)
<1>1. CASE \E n \in -MaxInt - 1 .. MaxUInt : v = Of("integer", n)
  <2>1. PICK n \in -MaxInt - 1 .. MaxUInt : v = Of("integer", n)
    BY <1>1
  <2>2. v.kind = "integer" /\ v.n = n
    BY <2>1 DEF Of
  <2>3. n \in Int /\ n <= MaxUInt /\ -MaxInt - 1 <= n
    BY NumberTypes
  <2>4. FitsInt(n) \/ MaxInt < n
    BY <2>3, NumberTypes DEF FitsInt
  <2>5. CASE FitsInt(n)
    <3>1. Bound(v) = {Of("int", n)} /\ Of("int", n).n = n
      BY <2>1, <2>3, <2>5, IntegerBind DEF Of
    <3>2. BoundNumber(v) = n
      BY <2>2, <2>5 DEF BoundNumber
    <3> QED BY <2>2, <2>3, <2>5, <3>1, <3>2
  <2>6. CASE ~FitsInt(n)
    <3>1. Bound(v) = {Of("float", Nearest(n))} /\ Of("float", Nearest(n)).n = Nearest(n)
      BY <2>1, <2>3, <2>6, UnsignedBind DEF Of
    <3>2. BoundNumber(v) = Nearest(n)
      BY <2>2, <2>6 DEF BoundNumber
    <3> QED BY <2>2, <2>3, <2>4, <2>6, <3>1, <3>2
  <2> QED BY <2>5, <2>6
<1>2. CASE \E n \in Floats : v = Of("float", n)
  <2>1. PICK n \in Floats : v = Of("float", n)
    BY <1>2
  <2>2. v.kind = "float" /\ v.n = n /\ n \in Int
    BY <2>1, NumberTypes DEF Of
  <2> QED BY <2>1, <2>2, FloatBind DEF BoundNumber, Of
<1> QED BY <1>1, <1>2 DEF JsonNumbers

LEMMA BoundNumberIsMonotone ==
  ASSUME NEW v \in JsonNumbers, NEW w \in JsonNumbers, v.n <= w.n
  PROVE  BoundNumber(v) <= BoundNumber(w)
<1> DEFINE large(u) == u.kind = "integer" /\ ~FitsInt(u.n)
<1>1. v.n \in Int /\ w.n \in Int
  BY NumberBind
<1>2. CASE large(v) /\ large(w)
  BY <1>1, <1>2, NearestIsMonotone DEF BoundNumber
<1>3. CASE ~large(v) /\ ~large(w)
  BY <1>3 DEF BoundNumber
<1>4. CASE large(v) /\ ~large(w)
  <2>1. MaxInt < v.n
    BY <1>4, NumberBind
  <2>2. w.n \in Floats
    <3>1. ~FitsInt(w.n)
      BY <1>1, <2>1, NumberTypes DEF FitsInt
    <3> QED BY <1>4, <3>1, NumberBind
  <2>3. Nearest(v.n) <= Nearest(w.n) /\ Nearest(w.n) = w.n
    BY <1>1, <2>2, NearestIsMonotone, NearestOfFloat
  <2> QED BY <1>4, <2>3 DEF BoundNumber
<1>5. CASE ~large(v) /\ large(w)
  <2>1. MaxInt < w.n
    BY <1>5, NumberBind
  <2>2. BoundNumber(v) = v.n /\ BoundNumber(w) = Nearest(w.n)
    BY <1>5 DEF BoundNumber
  <2>3. CASE v.kind = "integer"
    <3>1. v.n <= MaxInt
      BY <1>5, <2>3 DEF FitsInt
    <3>2. Nearest(MaxInt + 1) <= Nearest(w.n) /\ Nearest(MaxInt + 1) = MaxInt + 1
      BY <1>1, <2>1, NumberTypes, NearestIsMonotone, NearestOfFloat
    <3>3. Nearest(w.n) \in Int
      BY <1>1, NearestIsNearest, NumberTypes
    <3> QED BY <1>1, <2>2, <3>1, <3>2, <3>3, NumberTypes
  <2>4. CASE v.kind # "integer"
    <3>1. v.n \in Floats
      BY <2>4, NumberBind
    <3> QED BY <1>1, <2>2, <3>1, NearestIsMonotone, NearestOfFloat
  <2> QED BY <2>3, <2>4
<1> QED BY <1>2, <1>3, <1>4, <1>5
=============================================================================
