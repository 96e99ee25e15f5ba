------------------------ MODULE ResourceListing_proofs ------------------------
(***************************************************************************)
(* Proofs about ResourceListing, for every table, key set and page size.   *)
(*                                                                         *)
(* The inductive invariants relate the rows given so far to the cursor.    *)
(* In keyset mode all of them have a key up to it (so a page after it      *)
(* repeats none), and a stable row up to it is among them or has the key   *)
(* of a cursor (so the last page completes them but for ties).  In offset  *)
(* mode the rank of a row, the number of rows before it, takes the place   *)
(* of its key: insertions only raise it, deletions only lower it.          *)
(***************************************************************************)
EXTENDS ResourceListing, FiniteSetTheorems, WellFoundedInduction, TLAPS

\* A keyset listing whose statement treats NULL as the start and whose cursor
\* column is found.
GoodListing == Keyset /\ NullSafe /\ config.cursor_column = "plain"

\* Nothing is repeated, and everything listed so far is behind the cursor.
Behind ==
  /\ repeated = {}
  /\ phase = "listing" =>
       \A r \in listed : \E k \in position : r.key <= k

\* A stable row behind the cursor, or behind the end, is listed or has been passed
\* over with a row of the same key.
Complete ==
  GoodListing /\ "gap" \notin faults =>
    \A r \in Listable(stable) :
      phase = "done" \/ (\E k \in position : r.key <= k)
        => r \in listed \/ r.key \in cursors

\* A cursor is the key of a row that was listed with it: without ties, of no other.
Untied ==
  Keyset /\ "tie" \notin faults =>
    \A r \in Listable(stable) : r.key \in cursors => r \in listed

-----------------------------------------------------------------------------
(* Lemmas about sets of numbers *)

\* There is at most one last element.
LEMMA LastIsOption ==
  ASSUME NEW S, S \subseteq Nat
  PROVE  LastOf(S) \in Option(Nat)
<1>1. \A x, y \in LastOf(S) : x <= y /\ y <= x
  BY DEF LastOf
<1>2. LastOf(S) \subseteq Nat
  BY DEF LastOf
<1>3. \A x, y \in LastOf(S) : x = y
  BY <1>1, <1>2
<1>. QED
  BY <1>2, <1>3 DEF Option

\* A finite set of numbers that is not empty has one: the element with the
\* fewest elements above it.
LEMMA LastExists ==
  ASSUME NEW S, S \subseteq Nat, IsFiniteSet(S), S # {}
  PROVE  LastOf(S) # {}
<1>. DEFINE above(k) == {j \in S : k < j}
            counts == {Cardinality(above(k)) : k \in S}
<1>1. \A k \in S : IsFiniteSet(above(k)) /\ Cardinality(above(k)) \in Nat
  BY FS_Subset, FS_CardinalityType
<1>2. counts \subseteq Nat /\ counts # {}
  BY <1>1
<1>3. PICK n \in counts : \A m \in counts : ~ (<<m, n>> \in OpToRel(<, Nat))
  <2>. HIDE DEF counts
  <2>. QED
    BY <1>2, NatLessThanWellFounded, WFMin
<1>4. \A m \in counts : ~ (m < n)
  <2>. HIDE DEF counts
  <2>. QED
    BY <1>2, <1>3 DEF OpToRel
<1>5. PICK k \in S : n = Cardinality(above(k))
  OBVIOUS
<1>6. ASSUME NEW j \in S, k < j
      PROVE  FALSE
  <2>1. above(j) \subseteq above(k)
    <3>1. \A x \in S : j < x => k < x
      BY <1>6
    <3>. QED
      BY <3>1
  <2>2. j \in above(k) /\ j \notin above(j)
    BY <1>6
  <2>3. above(j) # above(k)
    BY <2>2
  <2>4. Cardinality(above(j)) <= n /\ Cardinality(above(j)) # n
    <3>. HIDE DEF above
    <3>. QED
      BY <1>1, <1>5, <2>1, <2>3, FS_Subset
  <2>5. Cardinality(above(j)) \in Nat /\ n \in Nat
    BY <1>1, <1>5
  <2>6. Cardinality(above(j)) < n
    <3>. HIDE DEF above
    <3>. QED
      BY <2>4, <2>5
  <2>. QED
    BY <1>4, <2>6
<1>7. k \in LastOf(S)
  BY <1>6 DEF LastOf
<1>. QED
  BY <1>7

\* Two members of an Option of numbers are the same number.
LEMMA OptionFacts ==
  ASSUME NEW O \in Option(Nat), NEW j \in O, NEW k \in O
  PROVE  j = k /\ j \in Nat
BY DEF Option

-----------------------------------------------------------------------------
(* Lemmas about a page *)

\* Resources are finitely many, and each has one row.
LEMMA TableIsFinite ==
  ASSUME NEW T, IsTable(T)
  PROVE  IsFiniteSet(T)
<1>. DEFINE f == [r \in T |-> r.id]
<1>1. f \in Injection(T, Ids)
  BY DEF IsTable, Rows, Injection, IsInjective
<1>. QED
  <2>. HIDE DEF f
  <2>. QED
    BY <1>1, FS_Injection, KeysAssumption

\* Every answer is a finite part of the table.
LEMMA PageIsFinite ==
  ASSUME TypeOK, NEW P \in Pages
  PROVE  /\ P \subseteq table /\ P \subseteq Rows
         /\ IsFiniteSet(P) /\ Cardinality(P) \in Nat
<1>1. P \subseteq table
  BY DEF Pages, Limited, AfterCursor
<1>2. IsFiniteSet(table)
  BY TableIsFinite DEF TypeOK
<1>. QED
  BY <1>1, <1>2, FS_Subset, FS_CardinalityType DEF TypeOK, IsTable

\* A page shorter than it could be holds all there is.
LEMMA ShortPageIsAll ==
  ASSUME NEW T, IsFiniteSet(T), NEW n \in Nat, NEW P \in Limited(T, n),
         Cardinality(P) < n
  PROVE  P = T
<1>1. P \subseteq T /\ Cardinality(P) = MinOf(n, Cardinality(T))
  BY DEF Limited
<1>2. Cardinality(T) \in Nat
  BY FS_CardinalityType
<1>3. Cardinality(P) = Cardinality(T)
  BY <1>1, <1>2 DEF MinOf
<1>. QED
  BY <1>1, <1>3, FS_Subset

\* The cursor of a page is a number, if there is one.
LEMMA NextPositionType ==
  ASSUME TypeOK, NEW P \in Pages
  PROVE  NextPosition(P) \in Option(Nat)
<1>1. CursorCells(P) \subseteq Nat
  BY PageIsFinite, KeysAssumption DEF CursorCells, Listable, Rows
<1>2. Offset \in Nat
  <2>1. CASE position = {}
    BY <2>1 DEF Offset
  <2>2. CASE position # {}
    <3>1. (CHOOSE n \in position : TRUE) \in position
      BY <2>2
    <3>. QED
      BY <2>2, <3>1 DEF Offset, TypeOK, Option
  <2>. QED
    BY <2>1, <2>2
<1>3. Offset + Cardinality(P) \in Nat
  BY <1>2, PageIsFinite
<1>4. {} \in Option(Nat) /\ {Offset + Cardinality(P)} \in Option(Nat)
  BY <1>3 DEF Option
<1>. QED
  BY <1>1, <1>4, LastIsOption DEF NextPosition
-----------------------------------------------------------------------------
(* The invariant *)

\* A step is a page or a change of the table.
LEMMA ChangesOnly ==
  ASSUME TypeOK, [Next]_vars
  PROVE  \/ FetchPage
         \/ \E T \in SUBSET Rows, kind \in Changes : Becomes(T, kind)
         \/ UNCHANGED vars
<1>1. ASSUME NEW T, NEW kind \in Changes, Becomes(T, kind)
      PROVE  \E U \in SUBSET Rows, k \in Changes : Becomes(U, k)
  BY <1>1 DEF Becomes, IsTable
<1>. QED
  BY <1>1 DEF Next, Insert, Delete, Move, Changes

\* The configuration stays, and what the table has been is not forgotten.
LEMMA ConfigStays ==
  [Next]_vars => /\ (Keyset' <=> Keyset) /\ (GoodListing' <=> GoodListing)
                 /\ faults \subseteq faults'
<1>1. [Next]_vars => config' = config
  BY DEF Next, FetchPage, Insert, Delete, Move, Becomes, vars
<1>2. [Next]_vars => faults \subseteq faults'
  BY DEF Next, FetchPage, Insert, Delete, Move, Becomes, vars
<1>. QED
  BY <1>1, <1>2 DEF Keyset, GoodListing

\* The gateway's steps and the table's keep the types.
LEMMA TypeStep == TypeOK /\ [Next]_vars => TypeOK'
<1>. SUFFICES ASSUME TypeOK, [Next]_vars
              PROVE  TypeOK'
  OBVIOUS
<1>1. ASSUME FetchPage
      PROVE  TypeOK'
  <2>1. PICK P \in Pages :
          /\ position' = NextPosition(P)
          /\ repeated' = repeated \cup (Listable(P) \cap listed)
          /\ listed' = listed \cup Listable(P)
          /\ cursors' = cursors \cup NextPosition(P)
    BY <1>1 DEF FetchPage
  <2>2. Listable(P) \subseteq Rows
    BY PageIsFinite DEF Listable
  <2>3. position' \in Option(Nat)
    BY <2>1, NextPositionType
  <2>4. position' \subseteq cursors' /\ cursors' \subseteq Nat
    BY <2>1, <2>3 DEF Option, TypeOK
  <2>5. /\ phase' \in {"listing", "done"}
        /\ UNCHANGED <<config, table, changes, changed, faults, stable>>
    BY <1>1 DEF FetchPage
  <2>6. \A f \in Faults : Has(table, f)' <=> Has(table, f)
    BY <2>5 DEF Has
  <2>. QED
    BY <2>1, <2>2, <2>3, <2>4, <2>5, <2>6 DEF TypeOK, IsTable
<1>2. ASSUME NEW T, NEW kind \in Changes, Becomes(T, kind)
      PROVE  TypeOK'
  <2>1. \A f \in Faults : Has(table, f)' <=> Has(T, f)
    BY <1>2 DEF Becomes, Has
  <2>2. {f \in Faults : Has(table, f)'} \subseteq faults' /\ faults' \subseteq Faults
    BY <1>2, <2>1 DEF Becomes, TypeOK
  <2>. QED
    BY <1>2, <2>2, TableAssumption DEF Becomes, TypeOK, IsTable, listing, Changes
<1>3. CASE UNCHANGED vars
  BY <1>3 DEF vars, listing, TypeOK, IsTable, Has
<1>. QED
  BY <1>1, <1>2, <1>3 DEF Next, Insert, Delete, Move, Changes

\* A page of a keyset listing lies after the cursor, so it repeats nothing, and
\* the next cursor is not before anything listed.
LEMMA BehindStep ==
  ASSUME Keyset
  PROVE  TypeOK /\ Behind /\ [Next]_vars => Behind'
<1>. SUFFICES ASSUME TypeOK, Behind, [Next]_vars
              PROVE  Behind'
  OBVIOUS
<1>1. ASSUME FetchPage
      PROVE  Behind'
  <2>1. PICK P \in Pages :
          /\ position' = NextPosition(P)
          /\ repeated' = repeated \cup (Listable(P) \cap listed)
          /\ listed' = listed \cup Listable(P)
    BY <1>1 DEF FetchPage
  <2>2. P \subseteq Rows /\ P \subseteq AfterCursor
    BY PageIsFinite DEF Pages, Limited, Keyset
  <2>3. \A r \in listed, s \in Listable(P) : r.key < s.key
    <3>1. TAKE r \in listed, s \in Listable(P)
    <3>2. PICK k \in position : r.key <= k
      BY <1>1 DEF Behind, FetchPage
    <3>3. PICK m \in position : s.key > m
      BY <2>2, <3>2 DEF AfterCursor, Listable
    <3>4. k = m /\ k \in Nat
      BY OptionFacts DEF TypeOK
    <3>5. r.key \in Nat /\ s.key \in Nat
      BY <2>2, KeysAssumption DEF TypeOK, Rows, Listable
    <3>. QED
      BY <3>2, <3>3, <3>4, <3>5
  <2>4. Listable(P) \subseteq Rows /\ listed \subseteq Rows
    BY <2>2 DEF Listable, TypeOK
  <2>5. \A r \in Rows : r.key \in Nat
    BY KeysAssumption DEF Rows
  <2>6. repeated' = {}
    BY <2>1, <2>3, <2>4, <2>5 DEF Behind
  <2>7. ASSUME phase' = "listing", NEW r \in listed'
        PROVE  \E k \in position' : r.key <= k
    <3>1. position' # {}
      BY <1>1, <2>7 DEF FetchPage
    <3>2. PICK k \in position' : k \in LastOf(CursorCells(P))
      BY <2>1, <3>1 DEF NextPosition, Keyset
    <3>3. k \in CursorCells(P) /\ \A m \in CursorCells(P) : m <= k
      BY <3>2 DEF LastOf
    <3>4. CursorCells(P) = {s.key : s \in Listable(P)}
      BY <3>3 DEF CursorCells
    <3>5. PICK s \in Listable(P) : s.key = k
      BY <3>3, <3>4
    <3>6. CASE r \in Listable(P)
      BY <3>3, <3>4, <3>6
    <3>7. CASE r \in listed
      <4>1. r.key < s.key /\ r.key \in Nat /\ s.key \in Nat
        BY <2>3, <2>4, <2>5, <3>7
      <4>. QED
        BY <3>5, <4>1
    <3>. QED
      BY <2>1, <3>6, <3>7
  <2>. QED
    BY <2>6, <2>7 DEF Behind
<1>2. ASSUME NEW T, NEW kind \in Changes, Becomes(T, kind)
      PROVE  Behind'
  BY <1>2 DEF Becomes, listing, Behind
<1>3. CASE UNCHANGED vars
  BY <1>3 DEF vars, listing, Behind
<1>. QED
  BY <1>1, <1>2, <1>3 DEF Next, Insert, Delete, Move, Changes

\* A full page has a resource, unless rows without a uri can fill one.
LEMMA PageHasResource ==
  ASSUME TypeOK, "gap" \notin faults, NEW P \in Pages, ~(Cardinality(P) < config.page_size)
  PROVE  Listable(P) # {}
<1>. DEFINE uriless == {r \in table : ~r.uri}
<1>1. ~Has(table, "gap")
  BY DEF TypeOK, Faults
<1>2. config.page_size \in Nat
  BY ConfigsAssumption DEF ListQueries, ListQueryIsValid, TypeOK
<1>3. IsFiniteSet(table) /\ IsFiniteSet(uriless)
  BY TableIsFinite, FS_Subset DEF TypeOK
<1>4. Cardinality(uriless) \in Nat /\ ~(Cardinality(uriless) >= config.page_size)
  BY <1>1, <1>3, FS_CardinalityType DEF Has
<1>5. P \subseteq table /\ Cardinality(P) \in Nat
  BY PageIsFinite
<1>6. ASSUME Listable(P) = {}
      PROVE  FALSE
  <2>1. P \subseteq uriless
    BY <1>5, <1>6 DEF Listable
  <2>2. Cardinality(P) <= Cardinality(uriless)
    BY <1>3, <2>1, FS_Subset
  <2>. QED
    BY <1>2, <1>4, <1>5, <2>2
<1>. QED
  BY <1>6

\* Whatever resource a full page leaves out comes after the cursor it returns or
\* has the same key, and a short page leaves nothing out.
LEMMA CompleteStep == TypeOK /\ Complete /\ [Next]_vars => Complete'
<1>. SUFFICES ASSUME TypeOK, Complete, [Next]_vars,
                     GoodListing', "gap" \notin faults',
                     NEW r \in Listable(stable'),
                     phase' = "done" \/ \E k \in position' : r.key <= k
              PROVE  r \in listed' \/ r.key \in cursors'
  BY DEF Complete, Listable
<1>1. GoodListing /\ "gap" \notin faults
  BY ConfigStays DEF Next, FetchPage, Insert, Delete, Move, Becomes, vars
<1>2. ASSUME r \in Listable(stable), phase = "done" \/ \E k \in position : r.key <= k
      PROVE  r \in listed \/ r.key \in cursors
  BY <1>1, <1>2 DEF Complete
<1>3. CASE FetchPage
  <2>1. PICK P \in Pages :
          /\ position' = NextPosition(P)
          /\ listed' = listed \cup Listable(P)
          /\ cursors' = cursors \cup NextPosition(P)
    BY <1>3 DEF FetchPage
  <2>2. P \in Limited(AfterCursor, config.page_size)
    BY <1>1 DEF Pages, GoodListing
  <2>3. P \subseteq table /\ P \subseteq Rows /\ IsFiniteSet(P)
    BY PageIsFinite
  <2>4. config.page_size \in Nat
    BY ConfigsAssumption DEF ListQueries, ListQueryIsValid, TypeOK
  <2>5. r \in Listable(stable) /\ r \in table /\ r.uri /\ r.key \in Nat
    BY <1>3, KeysAssumption DEF FetchPage, Listable, TypeOK, IsTable, Rows
  <2>6. CASE \E k \in position : r.key <= k
    BY <1>2, <2>1, <2>5, <2>6
  <2>7. CASE ~ \E k \in position : r.key <= k
    <3>1. r \in AfterCursor
      <4>1. \A k \in position : k \in Nat
        BY OptionFacts DEF TypeOK
      <4>. QED
        BY <1>1, <2>5, <2>7, <4>1 DEF AfterCursor, GoodListing
    <3>2. CASE Cardinality(P) < config.page_size
      <4>1. AfterCursor \subseteq table /\ IsFiniteSet(table)
        BY TableIsFinite DEF AfterCursor, TypeOK
      <4>2. P = AfterCursor
        BY <2>2, <2>4, <3>2, <4>1, FS_Subset, ShortPageIsAll
      <4>. QED
        BY <2>1, <2>5, <3>1, <4>2 DEF Listable
    <3>3. CASE ~(Cardinality(P) < config.page_size)
      <4>1. position' = LastOf(CursorCells(P)) /\ cursors' = cursors \cup position'
        BY <1>1, <2>1, <3>3 DEF NextPosition, GoodListing
      <4>2. CursorCells(P) = {q.key : q \in Listable(P)}
        BY <1>1 DEF CursorCells, GoodListing
      <4>3. Listable(P) # {}
        BY <1>1, <3>3, PageHasResource
      <4>4. CursorCells(P) \subseteq Keys /\ CursorCells(P) # {}
        BY <2>3, <4>2, <4>3 DEF Rows, Listable
      <4>5. position' # {}
        BY <4>1, <4>4, KeysAssumption, FS_Subset, LastExists
      <4>6. PICK k \in position' : r.key <= k
        BY <1>3, <4>5 DEF FetchPage
      <4>7. PICK q \in Listable(P) : q.key = k
        BY <4>1, <4>2, <4>6 DEF LastOf
      <4>8. q \in P /\ q.key \in Nat
        BY <2>3, <4>7, KeysAssumption DEF Rows, Listable
      <4>9. CASE r \in P
        BY <2>1, <2>5, <4>9 DEF Listable
      <4>10. CASE r \notin P
        <5>1. q.key <= r.key
          BY <2>2, <3>1, <4>8, <4>10 DEF Limited, First
        <5>2. r.key = k
          BY <2>5, <4>6, <4>7, <4>8, <5>1
        <5>. QED
          BY <4>1, <4>6, <5>2
      <4>. QED
        BY <4>9, <4>10
    <3>. QED
      BY <3>2, <3>3
  <2>. QED
    BY <2>6, <2>7
<1>4. CASE \E T \in SUBSET Rows, kind \in Changes : Becomes(T, kind)
  BY <1>2, <1>4 DEF Becomes, listing, Listable
<1>5. CASE UNCHANGED vars
  BY <1>2, <1>5 DEF vars, listing, Listable
<1>. QED
  BY <1>3, <1>4, <1>5, ChangesOnly

\* The row a cursor comes from is listed, and without ties no other has its key.
LEMMA UntiedStep == TypeOK /\ Untied /\ [Next]_vars => Untied'
<1>. SUFFICES ASSUME TypeOK, Untied, [Next]_vars,
                     Keyset', "tie" \notin faults',
                     NEW r \in Listable(stable'), r.key \in cursors'
              PROVE  r \in listed'
  BY DEF Untied, Listable
<1>1. Keyset /\ "tie" \notin faults
  BY ConfigStays DEF Next, FetchPage, Insert, Delete, Move, Becomes, vars
<1>2. ASSUME r \in Listable(stable), r.key \in cursors
      PROVE  r \in listed
  BY <1>1, <1>2 DEF Untied
<1>3. CASE FetchPage
  <2>1. PICK P \in Pages :
          /\ listed' = listed \cup Listable(P)
          /\ cursors' = cursors \cup NextPosition(P)
    BY <1>3 DEF FetchPage
  <2>2. P \subseteq table
    BY PageIsFinite
  <2>3. r \in Listable(stable) /\ r \in table
    BY <1>3 DEF FetchPage, Listable, TypeOK
  <2>4. \A s, q \in table : s.key = q.key => s = q
    BY <1>1 DEF TypeOK, Faults, Has
  <2>5. CASE r.key \in NextPosition(P)
    <3>1. r.key \in CursorCells(P)
      BY <1>1, <2>5 DEF NextPosition, LastOf
    <3>2. PICK q \in Listable(P) : q.key = r.key
      BY <3>1 DEF CursorCells
    <3>3. q = r
      BY <2>2, <2>3, <2>4, <3>2 DEF Listable
    <3>. QED
      BY <2>1, <3>2, <3>3
  <2>. QED
    BY <1>2, <2>1, <2>3, <2>5
<1>4. CASE \E T \in SUBSET Rows, kind \in Changes : Becomes(T, kind)
  BY <1>2, <1>4 DEF Becomes, listing, Listable
<1>5. CASE UNCHANGED vars
  BY <1>2, <1>5 DEF vars, listing, Listable
<1>. QED
  BY <1>3, <1>4, <1>5, ChangesOnly

\* Before the first page there is nothing to relate.
LEMMA InitInv == Init => TypeOK /\ Behind /\ Complete /\ Untied
<1>1. Init => TypeOK
  BY TableAssumption DEF Init, TypeOK, Option
<1>2. Init => Behind /\ Complete /\ Untied
  BY DEF Init, Behind, Complete, Untied
<1>. QED
  BY <1>1, <1>2

-----------------------------------------------------------------------------
(* The theorems *)

\* Every variable keeps its type, in both modes: the cursor is one number, and
\* the table never breaks what was assumed of it.
THEOREM TypeCorrect == Spec => []TypeOK
<1>1. Init => TypeOK
  BY InitInv
<1>. QED
  BY <1>1, TypeStep, PTL DEF Spec

\* A keyset listing gives no row twice, whatever changes between two pages, and
\* also with equal keys or rows without a uri.
THEOREM KeysetListsOnce == Spec => [](Keyset => StableRowsAreListedOnce)
<1>. DEFINE Inv == Keyset => Behind
<1>1. Init => Inv
  BY InitInv
<1>2. TypeOK /\ Inv /\ [Next]_vars => Inv'
  BY BehindStep, ConfigStays
<1>3. Inv => (Keyset => StableRowsAreListedOnce)
  BY DEF Behind, StableRowsAreListedOnce
<1>. HIDE DEF Inv
<1>. QED
  BY <1>1, <1>2, <1>3, TypeCorrect, PTL DEF Spec

\* With a NULL-safe statement and a column name that needs no trimming, a keyset
\* listing that has ended misses only rows tied with a cursor, and none where there
\* never were ties; unless rows without a uri filled a page.
LEMMA KeysetListsAll == Spec => [](Complete /\ Untied)
BY InitInv, CompleteStep, UntiedStep, TypeCorrect, PTL DEF Spec

-----------------------------------------------------------------------------
(* Offset mode: the rank of a row *)

\* Where the statement puts a row of T.
Ahead(r, T) == {s \in T : s.key < r.key}
Rank(r) == Cardinality(Ahead(r, table))

\* Deletions bring nothing back: what was listed and is still there unchanged is
\* before the offset.
OffsetBehind ==
  ~Keyset /\ "tie" \notin faults /\ changed \subseteq {"delete"} =>
    /\ repeated \cap stable = {}
    /\ phase = "listing" => \A r \in listed \cap stable : Rank(r) < Offset

\* Insertions push nothing over the offset: what is before it and has been there
\* all the time is listed.
OffsetComplete ==
  ~Keyset /\ "tie" \notin faults /\ changed \subseteq {"insert"} =>
    \A r \in Listable(stable) : phase = "done" \/ Rank(r) < Offset => r \in listed

\* The first rows of a table are the ones with the least ranks.
LEMMA LimitedByRank ==
  ASSUME NEW T, IsTable(T), ~Has(T, "tie"), NEW n \in Nat, NEW S \in Limited(T, n), NEW r \in T
  PROVE  r \in S <=> Cardinality(Ahead(r, T)) < n
<1>1. IsFiniteSet(T) /\ IsFiniteSet(S) /\ IsFiniteSet(Ahead(r, T))
  BY TableIsFinite, FS_Subset DEF Limited, Ahead
<1>2. /\ S \subseteq T /\ Cardinality(S) = MinOf(n, Cardinality(T))
      /\ \A q \in S, s \in T \ S : q.key <= s.key
  BY DEF Limited, First
<1>3. Cardinality(T) \in Nat /\ Cardinality(S) \in Nat /\ Cardinality(Ahead(r, T)) \in Nat
  BY <1>1, FS_CardinalityType
<1>4. /\ \A s \in T : s.key \in Nat
      /\ \A q, s \in T : q.key = s.key => q = s
  BY KeysAssumption DEF IsTable, Rows, Has
<1>5. ASSUME r \in S
      PROVE  Cardinality(Ahead(r, T)) < n
  <2>1. ASSUME NEW s \in Ahead(r, T) PROVE s \in S
    <3>1. s \in T /\ s.key < r.key /\ s.key \in Nat /\ r.key \in Nat
      BY <1>4 DEF Ahead
    <3> QED BY <1>2, <1>5, <3>1
  <2>2. r \notin Ahead(r, T)
    BY <1>4 DEF Ahead
  <2>3. Ahead(r, T) \in SUBSET S /\ Ahead(r, T) # S
    BY <1>5, <2>1, <2>2
  <2>4. /\ Cardinality(Ahead(r, T)) <= Cardinality(S)
        /\ Cardinality(Ahead(r, T)) # Cardinality(S)
    BY <1>1, <2>3, FS_Subset
  <2> QED BY <1>2, <1>3, <2>4 DEF MinOf
<1>6. ASSUME r \notin S
      PROVE  ~(Cardinality(Ahead(r, T)) < n)
  <2>1. ASSUME NEW s \in S PROVE s \in Ahead(r, T)
    <3>1. s \in T /\ s.key <= r.key /\ s # r
      BY <1>2, <1>6
    <3>2. s.key \in Nat /\ r.key \in Nat /\ s.key # r.key
      BY <1>4, <3>1
    <3> QED BY <3>1, <3>2 DEF Ahead
  <2>2. Cardinality(S) <= Cardinality(Ahead(r, T))
    BY <1>1, <2>1, FS_Subset
  <2>3. Cardinality(S) # Cardinality(T)
    BY <1>1, <1>2, <1>6, FS_Subset
  <2> QED BY <1>2, <1>3, <2>2, <2>3 DEF MinOf
<1> QED BY <1>5, <1>6

\* The first n after the first m are the rest of the first m + n.
LEMMA LimitedTwice ==
  ASSUME NEW T, IsFiniteSet(T), NEW m \in Nat, NEW n \in Nat,
         NEW S \in Limited(T, m), NEW P \in Limited(T \ S, n)
  PROVE  S \cup P \in Limited(T, m + n)
<1>1. /\ S \subseteq T /\ Cardinality(S) = MinOf(m, Cardinality(T)) /\ First(S, T)
      /\ P \subseteq T \ S /\ Cardinality(P) = MinOf(n, Cardinality(T \ S)) /\ First(P, T \ S)
  BY DEF Limited
<1>2. IsFiniteSet(S) /\ IsFiniteSet(T \ S) /\ IsFiniteSet(P)
  BY <1>1, FS_Subset
<1>3. Cardinality(T) \in Nat /\ Cardinality(S) \in Nat
  BY <1>2, FS_CardinalityType
<1>4. Cardinality(T \ S) = Cardinality(T) - Cardinality(S)
  <2>1. T \cap S = S
    BY <1>1
  <2> QED BY <2>1, FS_Difference
<1>5. Cardinality(S \cup P) = Cardinality(S) + Cardinality(P)
  <2>1. S \cap P = {}
    BY <1>1
  <2>2. Cardinality(S \cap P) = 0
    BY <2>1, FS_EmptySet
  <2>3. Cardinality(P) \in Nat
    BY <1>2, FS_CardinalityType
  <2>4. Cardinality(S \cup P) = Cardinality(S) + Cardinality(P) - Cardinality(S \cap P)
    BY <1>2, FS_Union
  <2> QED BY <1>3, <2>2, <2>3, <2>4
<1>6. Cardinality(S \cup P) = MinOf(m + n, Cardinality(T))
  BY <1>1, <1>3, <1>4, <1>5 DEF MinOf
<1>7. First(S \cup P, T)
  BY <1>1 DEF First
<1> QED BY <1>1, <1>6, <1>7 DEF Limited

LEMMA OffsetType == TypeOK => Offset \in Nat
<1>1. CASE position = {}
  BY <1>1 DEF Offset
<1>2. CASE position # {}
  <2>1. (CHOOSE n \in position : TRUE) \in position
    BY <1>2
  <2> QED BY <1>2, <2>1 DEF Offset, TypeOK, Option
<1> QED BY <1>1, <1>2

\* An offset page holds the rows whose rank lies in it; a short one all the rows
\* from the offset on.
LEMMA OffsetPage ==
  ASSUME TypeOK, ~Keyset, "tie" \notin faults, NEW P \in Pages, NEW r \in table
  PROVE  /\ Offset \in Nat /\ config.page_size \in Nat /\ Rank(r) \in Nat
         /\ r \in P <=> Offset <= Rank(r) /\ Rank(r) < Offset + config.page_size
         /\ Cardinality(P) < config.page_size /\ Rank(r) >= Offset => r \in P
         /\ ~(Cardinality(P) < config.page_size) => Cardinality(P) = config.page_size
<1> DEFINE size == config.page_size
<1>1. Offset \in Nat /\ size \in Nat /\ IsTable(table) /\ ~Has(table, "tie")
  BY OffsetType, ConfigsAssumption DEF ListQueries, ListQueryIsValid, TypeOK, Faults
<1>2. PICK S \in Limited(table, Offset) : P \in Limited(table \ S, size)
  BY DEF Pages
<1>3. IsFiniteSet(table) /\ IsFiniteSet(table \ S)
  BY <1>1, TableIsFinite, FS_Subset
<1>4. IsFiniteSet(Ahead(r, table)) /\ Rank(r) \in Nat
  BY <1>3, FS_Subset, FS_CardinalityType DEF Ahead, Rank
<1>5. r \in S <=> Rank(r) < Offset
  BY <1>1, <1>2, LimitedByRank DEF Rank
<1>6. r \in S \cup P <=> Rank(r) < Offset + size
  <2>1. S \cup P \in Limited(table, Offset + size) /\ Offset + size \in Nat
    BY <1>1, <1>2, <1>3, LimitedTwice
  <2> QED BY <1>1, <2>1, LimitedByRank DEF Rank
<1>7. P \subseteq table \ S /\ Cardinality(P) = MinOf(size, Cardinality(table \ S))
  BY <1>2 DEF Limited
<1>8. r \in P <=> Offset <= Rank(r) /\ Rank(r) < Offset + size
  BY <1>1, <1>4, <1>5, <1>6, <1>7
<1>9. Cardinality(P) < size /\ Rank(r) >= Offset => r \in P
  <2> SUFFICES ASSUME Cardinality(P) < size, Rank(r) >= Offset PROVE r \in P
    OBVIOUS
  <2>1. P = table \ S
    BY <1>1, <1>2, <1>3, ShortPageIsAll
  <2> QED BY <1>1, <1>4, <1>5, <2>1
<1>10. ~(Cardinality(P) < size) => Cardinality(P) = size
  <2>1. Cardinality(table \ S) \in Nat
    BY <1>3, FS_CardinalityType
  <2> QED BY <1>1, <1>7, <2>1 DEF MinOf
<1> QED BY <1>1, <1>4, <1>8, <1>9, <1>10

\* The next cursor of an offset listing, while it goes on.
LEMMA OffsetAfter ==
  ASSUME TypeOK, ~Keyset, NEW P \in Pages, position' = NextPosition(P), position' # {}
  PROVE  ~(Cardinality(P) < config.page_size) /\ Offset' = Offset + Cardinality(P)
BY DEF NextPosition, Offset, Keyset

\* Another table can only move a row's rank as its rows come or go.
LEMMA RankGrows ==
  ASSUME NEW T, NEW U, IsFiniteSet(U), T \subseteq U, NEW r
  PROVE  /\ Cardinality(Ahead(r, T)) \in Nat /\ Cardinality(Ahead(r, U)) \in Nat
         /\ Cardinality(Ahead(r, T)) <= Cardinality(Ahead(r, U))
<1>1. Ahead(r, U) \subseteq U /\ Ahead(r, T) \subseteq Ahead(r, U)
  BY DEF Ahead
<1>2. IsFiniteSet(Ahead(r, U)) /\ IsFiniteSet(Ahead(r, T))
  BY <1>1, FS_Subset
<1> QED BY <1>1, <1>2, FS_Subset, FS_CardinalityType

\* A page after the offset repeats nothing that is before it.
LEMMA OffsetBehindStep == TypeOK /\ OffsetBehind /\ [Next]_vars => OffsetBehind'
<1> SUFFICES ASSUME TypeOK, OffsetBehind, [Next]_vars,
                    (~Keyset)', "tie" \notin faults', changed' \subseteq {"delete"}
             PROVE  /\ repeated' \cap stable' = {}
                    /\ phase' = "listing" =>
                         \A r \in listed' \cap stable' : (Rank(r) < Offset)'
  BY DEF OffsetBehind
<1>1. ~Keyset /\ "tie" \notin faults /\ changed \subseteq {"delete"}
  BY ConfigStays DEF Next, FetchPage, Insert, Delete, Move, Becomes, vars
<1>2. /\ repeated \cap stable = {}
      /\ phase = "listing" => \A r \in listed \cap stable : Rank(r) < Offset
  BY <1>1 DEF OffsetBehind
<1>3. CASE FetchPage
  <2>1. PICK P \in Pages :
          /\ position' = NextPosition(P)
          /\ repeated' = repeated \cup (Listable(P) \cap listed)
          /\ listed' = listed \cup Listable(P)
    BY <1>3 DEF FetchPage
  <2>2. /\ phase = "listing" /\ UNCHANGED <<config, table, stable>>
        /\ phase' = "listing" => position' # {}
    BY <1>3 DEF FetchPage
  <2>3. ASSUME NEW r \in stable
        PROVE  /\ Offset \in Nat /\ config.page_size \in Nat /\ Rank(r) \in Nat
               /\ r \in P => Offset <= Rank(r) /\ Rank(r) < Offset + config.page_size
               /\ ~(Cardinality(P) < config.page_size) => Cardinality(P) = config.page_size
    <3>1. r \in table
      BY DEF TypeOK
    <3> QED BY <1>1, <3>1, OffsetPage
  <2>4. ASSUME NEW r \in stable, r \in Listable(P), r \in listed
        PROVE  FALSE
    <3>1. r \in P /\ Rank(r) < Offset
      BY <1>2, <2>2, <2>4 DEF Listable
    <3> QED BY <2>3, <3>1
  <2>5. ASSUME phase' = "listing", NEW r \in listed' \cap stable'
        PROVE  (Rank(r) < Offset)'
    <3>1. ~(Cardinality(P) < config.page_size) /\ Offset' = Offset + Cardinality(P)
      BY <1>1, <2>1, <2>2, <2>5, OffsetAfter
    <3>2. r \in stable /\ Rank(r)' = Rank(r)
      BY <2>2, <2>5 DEF Rank
    <3>3. Rank(r) < Offset \/ r \in P
      BY <1>2, <2>1, <2>2, <2>5, <3>2 DEF Listable
    <3> QED BY <2>3, <3>1, <3>2, <3>3
  <2> QED BY <1>2, <2>1, <2>2, <2>4, <2>5
<1>4. CASE \E r \in Rows : Delete(r)
  <2>1. /\ table' \subseteq table /\ stable' \subseteq stable
        /\ UNCHANGED <<phase, position, listed, repeated>>
    BY <1>4 DEF Delete, Becomes, listing
  <2>2. IsFiniteSet(table)
    BY TableIsFinite DEF TypeOK
  <2>3. Offset' = Offset /\ Offset \in Nat
    BY <2>1, OffsetType DEF Offset
  <2>4. ASSUME phase = "listing", NEW r \in listed \cap stable'
        PROVE  Cardinality(Ahead(r, table')) < Offset
    <3>1. Cardinality(Ahead(r, table)) < Offset
      BY <1>2, <2>1, <2>4 DEF Rank
    <3>2. /\ Cardinality(Ahead(r, table')) \in Nat /\ Cardinality(Ahead(r, table)) \in Nat
          /\ Cardinality(Ahead(r, table')) <= Cardinality(Ahead(r, table))
      BY <2>1, <2>2, RankGrows
    <3> QED BY <2>3, <3>1, <3>2
  <2> QED BY <1>2, <2>1, <2>3, <2>4 DEF Rank
<1>5. CASE (\E r \in Rows : Insert(r)) \/ (\E r \in Rows, k \in Keys : Move(r, k))
  <2>1. "insert" \in changed' \/ "move" \in changed'
    BY <1>5 DEF Insert, Move, Becomes
  <2> QED BY <2>1
<1>6. CASE UNCHANGED vars
  BY <1>2, <1>6 DEF vars, listing, Rank, Offset
<1> QED BY <1>3, <1>4, <1>5, <1>6 DEF Next

\* A page after the offset holds the next rows, and the last one all the others.
LEMMA OffsetCompleteStep == TypeOK /\ OffsetComplete /\ [Next]_vars => OffsetComplete'
<1> SUFFICES ASSUME TypeOK, OffsetComplete, [Next]_vars,
                    (~Keyset)', "tie" \notin faults', changed' \subseteq {"insert"},
                    NEW r \in Listable(stable'), phase' = "done" \/ (Rank(r) < Offset)'
             PROVE  r \in listed'
  BY DEF OffsetComplete, Listable
<1>1. ~Keyset /\ "tie" \notin faults /\ changed \subseteq {"insert"}
  BY ConfigStays DEF Next, FetchPage, Insert, Delete, Move, Becomes, vars
<1>2. ASSUME r \in Listable(stable), phase = "done" \/ Rank(r) < Offset
      PROVE  r \in listed
  BY <1>1, <1>2 DEF OffsetComplete
<1>3. CASE FetchPage
  <2>1. PICK P \in Pages :
          position' = NextPosition(P) /\ listed' = listed \cup Listable(P)
    BY <1>3 DEF FetchPage
  <2>2. /\ phase = "listing" /\ UNCHANGED <<config, table, stable>>
        /\ phase' = "done" => position' = {}
    BY <1>3 DEF FetchPage
  <2>3. r \in table /\ r \in Listable(stable) /\ r.uri
    BY <2>2 DEF Listable, TypeOK
  <2>4. /\ Offset \in Nat /\ config.page_size \in Nat /\ Rank(r) \in Nat
        /\ r \in P <=> Offset <= Rank(r) /\ Rank(r) < Offset + config.page_size
        /\ Cardinality(P) < config.page_size /\ Rank(r) >= Offset => r \in P
        /\ ~(Cardinality(P) < config.page_size) => Cardinality(P) = config.page_size
    BY <1>1, <2>3, OffsetPage
  <2>5. CASE Rank(r) < Offset
    BY <1>2, <2>1, <2>3, <2>5
  <2>6. CASE Rank(r) >= Offset
    <3>1. CASE Cardinality(P) < config.page_size
      BY <2>1, <2>3, <2>4, <2>6, <3>1 DEF Listable
    <3>2. CASE ~(Cardinality(P) < config.page_size)
      <4>1. position' = {Offset + Cardinality(P)}
        BY <1>1, <2>1, <3>2 DEF NextPosition
      <4>2. Offset' = Offset + config.page_size /\ phase' # "done"
        BY <1>1, <2>1, <2>2, <2>4, <3>2, <4>1, OffsetAfter
      <4>3. Rank(r)' = Rank(r)
        BY <2>2 DEF Rank
      <4> QED BY <2>1, <2>3, <2>4, <2>6, <4>2, <4>3 DEF Listable
    <3> QED BY <3>1, <3>2
  <2> QED BY <2>4, <2>5, <2>6
<1>4. CASE \E x \in Rows : Insert(x)
  <2>1. /\ table \subseteq table' /\ IsTable(table') /\ stable' \subseteq stable
        /\ UNCHANGED <<phase, position, listed, config>>
    BY <1>4 DEF Insert, Becomes, listing, IsTable
  <2>2. IsFiniteSet(table')
    BY <2>1, TypeStep, TableIsFinite DEF TypeOK
  <2>3. Offset' = Offset /\ Offset \in Nat
    BY <2>1, OffsetType DEF Offset
  <2>4. r \in Listable(stable)
    BY <2>1 DEF Listable
  <2>5. phase = "done" \/ Rank(r) < Offset
    <3>1. /\ Cardinality(Ahead(r, table)) \in Nat /\ Cardinality(Ahead(r, table')) \in Nat
          /\ Cardinality(Ahead(r, table)) <= Cardinality(Ahead(r, table'))
      BY <2>1, <2>2, RankGrows
    <3> QED BY <2>1, <2>3, <3>1 DEF Rank
  <2> QED BY <1>2, <2>1, <2>4, <2>5
<1>5. CASE (\E x \in Rows : Delete(x)) \/ (\E x \in Rows, k \in Keys : Move(x, k))
  <2>1. "delete" \in changed' \/ "move" \in changed'
    BY <1>5 DEF Delete, Move, Becomes
  <2> QED BY <2>1
<1>6. CASE UNCHANGED vars
  BY <1>2, <1>6 DEF vars, listing, Rank, Offset, Listable
<1> QED BY <1>3, <1>4, <1>5, <1>6 DEF Next

LEMMA InitOffset == Init => OffsetBehind /\ OffsetComplete
<1>1. Init => OffsetBehind
  BY DEF Init, OffsetBehind
<1>2. ASSUME Init PROVE OffsetComplete
  <2> SUFFICES ASSUME NEW r \in Listable(stable) PROVE ~(Rank(r) < Offset)
    BY <1>2 DEF Init, OffsetComplete
  <2>1. IsFiniteSet(table)
    BY <1>2, TableIsFinite DEF Init
  <2>2. Rank(r) \in Nat /\ Offset = 0
    BY <1>2, <2>1, RankGrows DEF Init, Rank, Offset
  <2> QED BY <2>2
<1> QED BY <1>1, <1>2

\* An offset listing repeats nothing while rows are only deleted, and misses nothing
\* while they are only inserted.
LEMMA OffsetListsOnce == Spec => []OffsetBehind
BY InitOffset, OffsetBehindStep, TypeCorrect, PTL DEF Spec

LEMMA OffsetListsAll == Spec => []OffsetComplete
BY InitOffset, OffsetCompleteStep, TypeCorrect, PTL DEF Spec

-----------------------------------------------------------------------------
(* The theorems about both modes *)

\* A listing gives no resource whose row has not changed twice:
\* rows_to_resource_page's cursor goes over the statement's rows without turning
\* back, and in offset mode over rows whose order is fixed.
THEOREM ListedOnce == Spec => []StableRowsAreListedOnce
<1>1. (Keyset => StableRowsAreListedOnce) /\ OffsetBehind => StableRowsAreListedOnce
  BY DEF OffsetBehind, StableRowsAreListedOnce
<1> QED BY <1>1, KeysetListsOnce, OffsetListsOnce, PTL

\* What the findings about listings show an operator has to see to.
WellPosed ==
  NullSafe /\ \A c \in Configs : c.mode = "keyset" => c.cursor_column = "plain"

\* With a NULL-safe statement and a column name that needs no trimming, a listing
\* that has ended holds every resource whose row has been there unchanged, under
\* what StableRowsAreListed says of the table.
THEOREM AllListed == WellPosed => (Spec => []StableRowsAreListed)
<1> SUFFICES ASSUME WellPosed PROVE Spec => []StableRowsAreListed
  OBVIOUS
<1>1. TypeOK /\ Complete /\ Untied /\ OffsetComplete => StableRowsAreListed
  <2> SUFFICES ASSUME TypeOK, Complete, Untied, OffsetComplete
               PROVE  StableRowsAreListed
    OBVIOUS
  <2>1. CASE Keyset
    <3>1. GoodListing
      BY <2>1 DEF GoodListing, WellPosed, TypeOK, Keyset
    <3> QED BY <2>1, <3>1 DEF Complete, Untied, StableRowsAreListed
  <2>2. CASE ~Keyset
    BY <2>2 DEF OffsetComplete, StableRowsAreListed
  <2> QED BY <2>1, <2>2
<1> QED BY <1>1, KeysetListsAll, OffsetListsAll, TypeCorrect, PTL

\* Where cursor values are not unique, as with updated_at, what a keyset listing
\* misses has the value of a cursor: surface.rs hands out no other.
THEOREM TiesAtMost == WellPosed => (Spec => []OnlyTiesAreMissed)
<1> SUFFICES ASSUME WellPosed PROVE Spec => []OnlyTiesAreMissed
  OBVIOUS
<1>1. TypeOK /\ Complete => OnlyTiesAreMissed
  BY DEF Complete, OnlyTiesAreMissed, GoodListing, WellPosed, TypeOK, Keyset, Listable
<1> QED BY <1>1, KeysetListsAll, TypeCorrect, PTL

-----------------------------------------------------------------------------
(* The end comes nearer *)

\* A resource has one row.
LEMMA TableIsSmall == TypeOK => Cardinality(table) \in Nat /\ Cardinality(table) <= Cardinality(Ids)
<1>. SUFFICES ASSUME TypeOK
              PROVE  Cardinality(table) \in Nat /\ Cardinality(table) <= Cardinality(Ids)
  OBVIOUS
<1>. DEFINE f == [r \in table |-> r.id]
<1>1. f \in Injection(table, Ids)
  BY DEF TypeOK, IsTable, Rows, Injection, IsInjective
<1>2. IsFiniteSet(table)
  BY TableIsFinite DEF TypeOK
<1>. HIDE DEF f
<1>. QED
  BY <1>1, <1>2, FS_Injection, FS_CardinalityType, KeysAssumption

\* The cursor of a keyset page is the key of a row after the last cursor, and an
\* offset counts rows of the table: whatever the table becomes, the gateway makes
\* headway, and there is only so much of it.
THEOREM Headway == Spec => []PagesAdvance
<1>1. TypeOK => PagesAdvance
  <2>. SUFFICES ASSUME TypeOK, NEW P \in Pages, NEW m \in NextPosition(P)
                PROVE  /\ \A k \in position : k < m
                       /\ m \in IF Keyset THEN Keys ELSE 1 .. Cardinality(Ids)
    BY DEF PagesAdvance
  <2>1. /\ P \subseteq table /\ P \subseteq Rows
        /\ IsFiniteSet(P) /\ Cardinality(P) \in Nat
    BY PageIsFinite
  <2>2. config.page_size \in Nat /\ config.page_size >= 1
    BY ConfigsAssumption DEF ListQueries, ListQueryIsValid, TypeOK
  <2>3. ~(Cardinality(P) < config.page_size)
    BY DEF NextPosition
  <2>4. CASE Keyset
    <3>1. P \subseteq AfterCursor
      BY <2>4 DEF Pages, Limited
    <3>2. m \in CursorCells(P)
      BY <2>4 DEF NextPosition, LastOf
    <3>3. PICK q \in P : q.key = m
      BY <3>2 DEF CursorCells, Listable
    <3>4. m \in Keys /\ m \in Nat
      BY <2>1, <3>3, KeysAssumption DEF Rows
    <3>5. ASSUME NEW k \in position
          PROVE  k < m
      <4>1. PICK j \in position : m > j
        BY <3>1, <3>3, <3>5 DEF AfterCursor
      <4>2. j = k /\ k \in Nat
        BY OptionFacts DEF TypeOK
      <4>. QED
        BY <3>4, <4>1, <4>2
    <3>. QED
      BY <2>4, <3>4, <3>5
  <2>5. CASE ~Keyset
    <3>1. m = Offset + Cardinality(P) /\ Offset \in Nat
      BY <2>5, OffsetType DEF NextPosition
    <3>2. \A k \in position : k = Offset
      BY OptionFacts DEF Offset, TypeOK
    <3>3. PICK S \in Limited(table, Offset) : P \in Limited(table \ S, config.page_size)
      BY <2>5 DEF Pages
    <3>4. IsFiniteSet(table) /\ IsFiniteSet(table \ S) /\ S \subseteq table
      BY <3>3, TableIsFinite, FS_Subset DEF TypeOK, Limited
    <3>5. Cardinality(table \ S) = Cardinality(table) - Cardinality(S)
      <4>1. table \cap S = S
        BY <3>4
      <4>. QED
        BY <3>4, <4>1, FS_Difference
    <3>6. Cardinality(table \ S) \in Nat /\ Cardinality(table) \in Nat
      BY <3>4, FS_CardinalityType
    <3>7. /\ Cardinality(S) = MinOf(Offset, Cardinality(table))
          /\ Cardinality(P) = MinOf(config.page_size, Cardinality(table \ S))
      BY <3>3 DEF Limited
    <3>8. m <= Cardinality(table) /\ m > Offset
      BY <2>1, <2>2, <2>3, <3>1, <3>5, <3>6, <3>7 DEF MinOf
    <3>9. Cardinality(Ids) \in Nat /\ Cardinality(table) <= Cardinality(Ids)
      BY TableIsSmall, FS_CardinalityType, KeysAssumption
    <3>. QED
      BY <2>5, <3>1, <3>2, <3>6, <3>8, <3>9
  <2>. QED
    BY <2>4, <2>5
<1>. QED
  BY <1>1, TypeCorrect, PTL
=============================================================================
