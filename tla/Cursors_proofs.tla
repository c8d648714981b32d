---------------------------- MODULE Cursors_proofs ----------------------------
(***************************************************************************)
(* Proofs about the two ways of reading a list in pages, for any rows,     *)
(* page size and number of changes: Lists, whose cursor is the id of a     *)
(* row, and MoverSearch, whose cursor is the figures of one.               *)
(* Also that the ranking of MoverSearch picks the best.  MoverSearch needs *)
(* the lemmas at the head: finite sets that a strict order puts in a row.  *)
(***************************************************************************)
EXTENDS Lists, MoverSearch, FiniteSetTheorems, WellFoundedInduction, TLAPS

-----------------------------------------------------------------------------
(* The first rows of a finite set under a strict order of its elements;    *)
(* <<x, y>> \in gt reads: x comes before y.                                *)

OrderedBy(gt, S) ==
  /\ IsFiniteSet(S)
  /\ \A x \in S : <<x, x>> \notin gt
  /\ \A x, y, z \in S : <<x, y>> \in gt /\ <<y, z>> \in gt => <<x, z>> \in gt
  /\ \A x, y \in S : x = y \/ <<x, y>> \in gt \/ <<y, x>> \in gt

Over(gt, S, r) == {x \in S : <<x, r>> \in gt}
Under(gt, S, r) == {x \in S : <<r, x>> \in gt}

First(gt, S, n) == {r \in S : Cardinality(Over(gt, S, r)) < n}

LEMMA OrderedSubset ==
  ASSUME NEW gt, NEW S, OrderedBy(gt, S), NEW T \in SUBSET S
  PROVE  OrderedBy(gt, T)
<1>1. IsFiniteSet(T)
  BY FS_Subset DEF OrderedBy
<1> QED BY <1>1 DEF OrderedBy

\* The strict subsets of a finite set are well founded.
LEMMA LeastSubset ==
  ASSUME NEW S, IsFiniteSet(S), NEW B \in SUBSET SUBSET S, B # {}
  PROVE  \E T \in B : \A U \in SUBSET T : U # T => U \notin B
<1>1. IsWellFoundedOn(StrictSubsetOrdering(S), FiniteSubsetsOf(S))
  BY FS_StrictSubsetOrderingWellFounded
<1>2. \A T \in SUBSET S : IsFiniteSet(T)
  BY FS_Subset
<1>3. B \subseteq FiniteSubsetsOf(S)
  BY <1>2 DEF FiniteSubsetsOf
<1>4. PICK T \in B : \A U \in B : ~(<<U, T>> \in StrictSubsetOrdering(S))
  BY <1>1, <1>3, WFMin
<1>5. ASSUME NEW U \in SUBSET T, U # T, U \in B PROVE FALSE
  BY <1>4, <1>5 DEF StrictSubsetOrdering
<1> QED BY <1>5

\* The row with the fewest above it is the highest, and dually.
LEMMA Highest ==
  ASSUME NEW gt, NEW S, OrderedBy(gt, S), S # {}
  PROVE  \E x \in S : \A y \in S : x = y \/ <<x, y>> \in gt
<1> DEFINE B == {Over(gt, S, x) : x \in S}
<1>1. B \in SUBSET SUBSET S /\ B # {}
  BY DEF Over
<1>2. PICK T \in B : \A U \in SUBSET T : U # T => U \notin B
  <2> HIDE DEF B
  <2> QED BY <1>1, LeastSubset DEF OrderedBy
<1>3. PICK x \in S : T = Over(gt, S, x)
  BY <1>2
<1>4. ASSUME NEW y \in S, <<y, x>> \in gt PROVE FALSE
  <2>1. y \in T /\ y \notin Over(gt, S, y)
    BY <1>3, <1>4 DEF Over, OrderedBy
  <2>2. Over(gt, S, y) \subseteq T
    BY <1>3, <1>4 DEF Over, OrderedBy
  <2>3. Over(gt, S, y) \in B
    OBVIOUS
  <2> HIDE DEF B
  <2> QED BY <1>2, <2>1, <2>2, <2>3
<1> QED BY <1>3, <1>4 DEF OrderedBy

LEMMA Lowest ==
  ASSUME NEW gt, NEW S, OrderedBy(gt, S), S # {}
  PROVE  \E x \in S : \A y \in S : x = y \/ <<y, x>> \in gt
<1> DEFINE B == {Under(gt, S, x) : x \in S}
<1>1. B \in SUBSET SUBSET S /\ B # {}
  BY DEF Under
<1>2. PICK T \in B : \A U \in SUBSET T : U # T => U \notin B
  <2> HIDE DEF B
  <2> QED BY <1>1, LeastSubset DEF OrderedBy
<1>3. PICK x \in S : T = Under(gt, S, x)
  BY <1>2
<1>4. ASSUME NEW y \in S, <<x, y>> \in gt PROVE FALSE
  <2>1. y \in T /\ y \notin Under(gt, S, y)
    BY <1>3, <1>4 DEF Under, OrderedBy
  <2>2. Under(gt, S, y) \subseteq T
    BY <1>3, <1>4 DEF Under, OrderedBy
  <2>3. Under(gt, S, y) \in B
    OBVIOUS
  <2> HIDE DEF B
  <2> QED BY <1>2, <2>1, <2>2, <2>3
<1> QED BY <1>3, <1>4 DEF OrderedBy

LEMMA AboveIsFinite ==
  ASSUME NEW gt, NEW S, IsFiniteSet(S), NEW r
  PROVE  IsFiniteSet(Over(gt, S, r)) /\ Cardinality(Over(gt, S, r)) \in Nat
BY FS_Subset, FS_CardinalityType DEF Over

\* Whatever comes before one of the first n is among them.
LEMMA FirstIsUpward ==
  ASSUME NEW gt, NEW S, OrderedBy(gt, S), NEW n \in Nat, NEW r \in First(gt, S, n),
         NEW x \in S, <<x, r>> \in gt
  PROVE  x \in First(gt, S, n)
<1>1. r \in S /\ Cardinality(Over(gt, S, r)) < n
  BY DEF First
<1>2. Over(gt, S, x) \in SUBSET Over(gt, S, r)
  BY <1>1 DEF Over, OrderedBy
<1>3. /\ IsFiniteSet(Over(gt, S, r))
      /\ Cardinality(Over(gt, S, x)) \in Nat /\ Cardinality(Over(gt, S, r)) \in Nat
  BY AboveIsFinite DEF OrderedBy
<1>4. Cardinality(Over(gt, S, x)) <= Cardinality(Over(gt, S, r))
  BY <1>2, <1>3, FS_Subset
<1>5. Cardinality(Over(gt, S, x)) < n
  BY <1>1, <1>3, <1>4
<1> QED BY <1>5 DEF First

\* They are no more than n: all but the last come before the last.
LEMMA FirstAreFew ==
  ASSUME NEW gt, NEW S, OrderedBy(gt, S), NEW n \in Nat
  PROVE  /\ IsFiniteSet(First(gt, S, n))
         /\ Cardinality(First(gt, S, n)) \in Nat
         /\ Cardinality(First(gt, S, n)) <= n
<1> DEFINE F == First(gt, S, n)
<1>1. F \in SUBSET S
  BY DEF First
<1>2. OrderedBy(gt, F) /\ IsFiniteSet(F) /\ Cardinality(F) \in Nat
  BY <1>1, OrderedSubset, FS_CardinalityType DEF OrderedBy
<1>3. CASE F = {}
  BY <1>2, <1>3, FS_EmptySet
<1>4. CASE F # {}
  <2>1. PICK z \in F : \A y \in F : z = y \/ <<y, z>> \in gt
    BY <1>2, <1>4, Lowest
  <2>2. F \ {z} \in SUBSET Over(gt, S, z)
    BY <2>1, <1>1 DEF Over
  <2>3. Cardinality(Over(gt, S, z)) < n
    BY <2>1 DEF First
  <2>4. IsFiniteSet(Over(gt, S, z)) /\ Cardinality(Over(gt, S, z)) \in Nat
    BY AboveIsFinite DEF OrderedBy
  <2>5. Cardinality(F \ {z}) <= Cardinality(Over(gt, S, z))
    BY <2>2, <2>4, FS_Subset
  <2>6. Cardinality(F \ {z}) = Cardinality(F) - 1
    BY <1>2, FS_RemoveElement
  <2>7. Cardinality(F) <= n
    BY <1>2, <2>3, <2>4, <2>5, <2>6
  <2> QED BY <1>2, <2>7
<1> QED BY <1>3, <1>4

\* If some are left over, they are n.
LEMMA FirstAreFull ==
  ASSUME NEW gt, NEW S, OrderedBy(gt, S), NEW n \in Nat, First(gt, S, n) # S
  PROVE  Cardinality(First(gt, S, n)) = n
<1> DEFINE F == First(gt, S, n)
<1>1. F \in SUBSET S
  BY DEF First
<1>2. OrderedBy(gt, S \ F) /\ S \ F # {}
  BY <1>1, OrderedSubset
<1>3. PICK y \in S \ F : \A x \in S \ F : y = x \/ <<y, x>> \in gt
  BY <1>2, Highest
<1>4. Over(gt, S, y) \subseteq F
  BY <1>3, <1>1 DEF Over, OrderedBy
<1>5. Cardinality(Over(gt, S, y)) \in Nat
  BY AboveIsFinite DEF OrderedBy
<1>6. Cardinality(Over(gt, S, y)) >= n
  BY <1>3, <1>5 DEF First
<1>7. IsFiniteSet(F) /\ Cardinality(F) \in Nat /\ Cardinality(F) <= n
  BY FirstAreFew
<1>8. Cardinality(Over(gt, S, y)) <= Cardinality(F)
  BY <1>4, <1>7, FS_Subset
<1> QED BY <1>5, <1>6, <1>7, <1>8

-----------------------------------------------------------------------------
(* Lists: the inductive invariant.                                         *)

\* Where the id decides between equal times, every row has a place of its own.
PlacesOK ==
  kind \notin DateOnly =>
    \A x, y \in Rows :
      status[x] # "NONE" /\ status[y] # "NONE" /\ place[x] = place[y] => x = y

\* The row of the cursor exists or existed, and is listed until it is touched.
CursorOK ==
  /\ cursor # None => status[cursor] # "NONE"
  /\ ~lost /\ cursor # None => cursor \in Listed

\* A row shown in this reading stands at or above the cursor's row.
ShownAbove ==
  ~rose /\ more =>
    \A r \in Rows \ fell :
      ~Tied(r) /\ times[r] > 0 => cursor # None /\ place[r] >= place[cursor]

ListInv ==
  /\ TypeOK /\ PlacesOK /\ CursorOK
  /\ \A r \in Rows : status[r] = "NONE" => times[r] = 0
  /\ ShownOnce /\ ShownAbove
  /\ ReadingIsComplete

-----------------------------------------------------------------------------
(* What a query returns.                                                   *)

LEMMA PlacesAreNumbers == TypeOK => \A r \in Rows : place[r] \in Nat
BY ListConstantsOK DEF TypeOK, Places

\* Two rows are not both the first one.
LEMMA OneFirst ==
  ASSUME NEW S, IsFiniteSet(S), NEW P \in Firsts(S, 1)
  PROVE  /\ \A x, y \in P : x = y
         /\ P = {} => S = {}
<1>1. P \subseteq S /\ Cardinality(P) <= 1 /\ (P # S => Cardinality(P) = 1)
  BY DEF Firsts
<1>2. IsFiniteSet(P) /\ Cardinality(P) \in Nat
  BY <1>1, FS_Subset, FS_CardinalityType
<1>3. Cardinality(P) = 0 \/ Cardinality(P) = 1
  BY <1>1, <1>2
<1> QED BY <1>1, <1>2, <1>3, FS_EmptySet, FS_Singleton

\* A page is closed upwards, and the list ends when, and only when, its page
\* holds all that is left.
LEMMA PageOfRest ==
  ASSUME NEW rest, NEW found \in Firsts(rest, Take + 1), NEW page \in Firsts(found, Take)
  PROVE  /\ page \subseteq rest
         /\ \A r \in page, x \in rest \ page : place[r] >= place[x]
         /\ ~HasNext(found, page) \/ page = {} => page = rest
<1>1. /\ found \subseteq rest
      /\ \A r \in found, x \in rest \ found : place[r] >= place[x]
      /\ found # rest => Cardinality(found) = Take + 1
  BY DEF Firsts
<1>2. /\ page \subseteq found
      /\ \A r \in page, x \in found \ page : place[r] >= place[x]
      /\ Cardinality(page) <= Take
      /\ page # found => Cardinality(page) = Take
  BY DEF Firsts
<1>3. ASSUME ~HasNext(found, page) \/ page = {}, page # rest PROVE FALSE
  <2>1. Take \in Nat /\ Take # 0
    BY ListConstantsOK
  <2>2. page # found \/ Cardinality(page) = Take + 1
    BY <1>1, <1>3
  <2>3. Cardinality(page) = Take
    BY <1>2, <2>1, <2>2
  <2>4. page # {}
    BY <2>1, <2>3, FS_EmptySet
  <2>5. page # found
    BY <2>1, <2>2, <2>3
  <2> QED BY <1>3, <2>3, <2>4, <2>5 DEF HasNext, FullPageMeansMore, OneMoreWasFound
<1> QED BY <1>1, <1>2, <1>3

\* Of the rows with a place of their own, what follows the cursor is below it; as
\* long as the cursor's row is listed, skip: 1 passes over that row and no other of
\* them.
LEMMA RestBelow ==
  ASSUME ListInv, NEW rest \in After(cursor)
  PROVE  /\ rest \subseteq Listed
         /\ \A r \in rest : ~Tied(r) /\ cursor # None => place[r] < place[cursor]
         /\ \A r \in Listed :
              /\ ~Tied(r) /\ (cursor # None => cursor \in Listed /\ place[r] < place[cursor])
              => r \in rest
<1>1. PICK P \in Skipped(cursor) : rest = From(cursor) \ P
  BY DEF After
<1>2. From(cursor) \subseteq Listed /\ Listed \subseteq Rows
  BY DEF From, Listed
<1>3. \A r \in Rows : place[r] \in Nat
  BY PlacesAreNumbers DEF ListInv
<1>4. CASE cursor = None
  BY <1>1, <1>2, <1>4 DEF Skipped, From
<1>5. CASE cursor # None
  <2>1. cursor \in Rows /\ status[cursor] # "NONE"
    BY <1>5 DEF ListInv, TypeOK, CursorOK
  <2>2. IsFiniteSet(From(cursor))
    BY <1>2, FS_Subset, ListConstantsOK
  <2>3. P \in Firsts(From(cursor), 1) \/ (kind \in DateOnly /\ P \in UpToCursor(cursor))
    BY <1>5, <2>1 DEF Skipped
  <2>4. ASSUME NEW r \in rest, ~Tied(r), r = cursor PROVE FALSE
    <3>1. r \in From(cursor) /\ r \notin P /\ cursor \in Listed
      BY <1>1, <1>2, <2>4
    <3>2. P \in Firsts(From(cursor), 1)
      BY <2>3, <2>4, <3>1 DEF UpToCursor
    <3>3. PICK p \in P : TRUE
      BY <2>2, <3>1, <3>2, OneFirst
    <3>4. p \in From(cursor) /\ place[p] >= place[r]
      BY <3>1, <3>2 DEF Firsts
    <3>5. p \in Rows /\ status[p] = "IN" /\ place[p] <= place[cursor]
      BY <1>2, <1>5, <3>4 DEF From, Listed
    <3>6. place[p] = place[r]
      BY <1>3, <2>1, <2>4, <3>4, <3>5
    <3> QED BY <2>4, <3>1, <3>3, <3>5, <3>6 DEF Tied
  <2>5. ASSUME NEW r \in rest, ~Tied(r) PROVE place[r] < place[cursor]
    <3>1. r \in Rows /\ place[r] <= place[cursor]
      BY <1>1, <1>2, <1>5 DEF From
    <3>2. place[r] # place[cursor]
      BY <2>1, <2>4, <2>5 DEF Tied
    <3> QED BY <1>3, <2>1, <3>1, <3>2
  <2>6. ASSUME NEW r \in Listed, ~Tied(r), cursor \in Listed, place[r] < place[cursor]
        PROVE  r \in rest
    <3>1. r \in From(cursor) /\ cursor \in From(cursor) /\ r \in Rows
      BY <1>2, <1>3, <1>5, <2>1, <2>6 DEF From, Listed
    <3>2. CASE P \in Firsts(From(cursor), 1) /\ r \in P
      <4>1. cursor \notin P
        BY <1>3, <2>1, <2>2, <2>6, <3>1, <3>2, OneFirst
      <4>2. place[r] >= place[cursor]
        BY <3>1, <3>2, <4>1 DEF Firsts
      <4> QED BY <1>3, <2>1, <2>6, <3>1, <4>2
    <3>3. CASE P \in UpToCursor(cursor) /\ r \in P
      <4>1. place[r] = place[cursor]
        BY <2>6, <3>3 DEF UpToCursor
      <4> QED BY <1>3, <2>1, <2>6, <3>1, <4>1
    <3> QED BY <1>1, <2>3, <3>1, <3>2, <3>3
  <2> QED BY <1>1, <1>2, <1>5, <2>5, <2>6
<1> QED BY <1>4, <1>5

-----------------------------------------------------------------------------
(* Lists: the steps.                                                       *)

LEMMA TypeInit == Init => TypeOK
<1> SUFFICES ASSUME Init PROVE TypeOK
  OBVIOUS
<1>1. status \in [Rows -> {"NONE", "IN", "OUT", "GONE"}] /\ kind \in Kinds
  BY DEF Init
<1>2. place \in [Rows -> {0} \cup Places] /\ times \in [Rows -> 0..2]
  BY DEF Init
<1> QED BY <1>1, <1>2 DEF Init, TypeOK

LEMMA TypeNext == TypeOK /\ [Next]_vars => TypeOK'
<1> SUFFICES ASSUME TypeOK, [Next]_vars PROVE TypeOK'
  OBVIOUS
<1> USE DEF TypeOK, rowVars, readVars
<1>1. CASE Open
  <2>1. times' \in [Rows -> 0..2]
    BY <1>1 DEF Open
  <2> QED BY <1>1, <2>1 DEF Open
<1>2. CASE NextPage
  <2>1. PICK rest, found, page :
          /\ rest \in After(cursor)
          /\ found \in Firsts(rest, Take + 1) /\ page \in Firsts(found, Take)
          /\ more' = (HasNext(found, page) /\ CursorRows(page) # {})
          /\ (cursor' \in CursorRows(page) \/ cursor' = None)
          /\ times' = [r \in Rows |-> IF r \in Shown(page) THEN Again(times[r]) ELSE times[r]]
    BY <1>2 DEF NextPage
  <2>2. page \subseteq Rows
    BY <2>1, PageOfRest DEF After, From, Listed
  <2>3. times' \in [Rows -> 0..2]
    BY <2>1 DEF Again
  <2> QED BY <1>2, <2>1, <2>2, <2>3 DEF NextPage, CursorRows, HasNext, FullPageMeansMore,
                                        OneMoreWasFound
<1>3. ASSUME NEW r \in Rows, Appears(r) \/ Moves(r) PROVE TypeOK'
  <2>1. status' \in [Rows -> {"NONE", "IN", "OUT", "GONE"}]
    BY <1>3 DEF Appears, Moves, Asked
  <2>2. place' \in [Rows -> {0} \cup Places]
    BY <1>3 DEF Appears, Moves, TakesPlace
  <2>3. rose' \in BOOLEAN /\ fell' \in SUBSET Rows
    BY <1>3 DEF Appears, Moves
  <2> QED BY <1>3, <2>1, <2>2, <2>3 DEF Appears, Moves, Touches
<1>4. ASSUME NEW r \in Rows, Leaves(r) \/ IsDeleted(r) PROVE TypeOK'
  BY <1>4 DEF Leaves, IsDeleted, Touches
<1>5. CASE UNCHANGED vars
  BY <1>5 DEF vars
<1> QED BY <1>1, <1>2, <1>3, <1>4, <1>5 DEF Next

\* The type invariant of Lists, for any instance.
THEOREM ListTypeCorrect == Spec => []TypeOK
BY TypeInit, TypeNext, PTL DEF Spec

\* A page shows what is owed, and nothing of it again.
LEMMA PageNext ==
  ASSUME ListInv, NextPage, TypeOK'
  PROVE  ListInv'
<1>1. PICK rest, found, page :
        /\ rest \in After(cursor)
        /\ found \in Firsts(rest, Take + 1) /\ page \in Firsts(found, Take)
        /\ more' = (HasNext(found, page) /\ CursorRows(page) # {})
        /\ \/ /\ more'
              /\ cursor' \in CursorRows(page)
              /\ \A r \in CursorRows(page) : place[cursor'] <= place[r]
           \/ ~more' /\ cursor' = None
        /\ times' = [r \in Rows |-> IF r \in Shown(page) THEN Again(times[r]) ELSE times[r]]
  BY DEF NextPage
<1>2. more /\ UNCHANGED <<kind, status, place, touched, fell, lost, rose>>
  BY DEF NextPage, rowVars
<1>3. /\ rest \subseteq Listed
      /\ \A r \in rest : ~Tied(r) /\ cursor # None => place[r] < place[cursor]
      /\ \A r \in Listed :
           ~Tied(r) /\ (cursor # None => cursor \in Listed /\ place[r] < place[cursor])
           => r \in rest
  BY <1>1, RestBelow
<1>4. /\ page \subseteq rest
      /\ \A r \in page, x \in rest \ page : place[r] >= place[x]
      /\ ~HasNext(found, page) \/ page = {} => page = rest
  BY <1>1, PageOfRest
<1>5. page \subseteq Listed /\ Listed \subseteq Rows /\ Shown(page) \subseteq page
  BY <1>3, <1>4 DEF Listed, Shown
<1>6. \A r \in Rows : place[r] \in Nat /\ times[r] \in 0..2 /\ times'[r] \in 0..2
  BY PlacesAreNumbers DEF ListInv, TypeOK
<1>7. cursor # None => cursor \in Rows
  BY DEF ListInv, TypeOK
<1>8. \A r \in Rows : Tied(r)' <=> Tied(r)
  BY <1>2 DEF Tied
<1>9. more' => cursor' \in page /\ cursor' \in Rows /\ cursor' # None
  BY <1>1, <1>5, ListConstantsOK DEF CursorRows
<1>10. \A r \in Rows : times'[r] = IF r \in Shown(page) THEN Again(times[r]) ELSE times[r]
  BY <1>1
<1>11. CursorOK' /\ PlacesOK'
  BY <1>1, <1>2, <1>5, <1>9 DEF CursorOK, PlacesOK, ListInv, Listed
<1>12. \A r \in Rows : status'[r] = "NONE" => times'[r] = 0
  BY <1>2, <1>5, <1>10 DEF ListInv, Listed
<1>13. ASSUME ~rose, NEW r \in Rows \ fell, ~Tied(r)
       PROVE  /\ times'[r] <= 1
              /\ more' /\ times'[r] > 0 => place[r] >= place[cursor']
  <2>1. times[r] <= 1
    BY <1>13 DEF ListInv, ShownOnce
  <2>2. times[r] > 0 => cursor # None /\ place[r] >= place[cursor]
    BY <1>2, <1>13 DEF ListInv, ShownAbove
  <2>3. CASE r \in page
    <3>1. times[r] = 0
      BY <1>3, <1>4, <1>6, <1>7, <1>13, <2>2, <2>3
    <3>2. times'[r] <= 1
      BY <1>10, <3>1 DEF Again
    <3>3. more' => place[r] >= place[cursor']
      BY <1>1, <1>6, <1>9, <2>3 DEF CursorRows
    <3> QED BY <3>2, <3>3
  <2>4. CASE r \notin page
    <3>1. times'[r] = times[r]
      BY <1>5, <1>10, <2>4
    <3>2. ASSUME more', times[r] > 0 PROVE place[r] >= place[cursor']
      <4>1. cursor # None /\ place[r] >= place[cursor] /\ cursor \in Rows
        BY <1>7, <2>2, <3>2
      <4>2. cursor' \in From(cursor)
        BY <1>1, <1>4, <1>9, <3>2 DEF After
      <4>3. place[cursor'] <= place[cursor]
        BY <4>1, <4>2 DEF From
      <4> QED BY <1>6, <1>9, <3>2, <4>1, <4>3
    <3> QED BY <2>1, <3>1, <3>2
  <2> QED BY <2>3, <2>4
<1>14. ShownOnce' /\ ShownAbove'
  BY <1>2, <1>8, <1>9, <1>13 DEF ShownOnce, ShownAbove
<1>15. ASSUME ~lost, NEW r \in Listed \ (touched \cup Unshown), ~Tied(r)
       PROVE  times'[r] = IF Passed(r)' THEN 1 ELSE 0
  <2>1. times[r] = IF cursor # None /\ place[r] >= place[cursor] THEN 1 ELSE 0
    BY <1>2, <1>15 DEF ListInv, ReadingIsComplete, Passed
  <2>2. cursor # None => cursor \in Listed
    BY <1>15 DEF ListInv, CursorOK
  <2>3. r \in rest <=> (cursor # None => place[r] < place[cursor])
    BY <1>3, <1>15, <2>2
  <2>4. times[r] = IF r \in rest THEN 0 ELSE 1
    BY <1>5, <1>6, <1>7, <1>15, <2>1, <2>3
  <2>5. r \in Shown(page) <=> r \in page
    BY <1>15 DEF Shown, Unshown
  <2>6. times'[r] = IF r \in rest THEN IF r \in page THEN 1 ELSE 0 ELSE 1
    BY <1>4, <1>5, <1>10, <1>15, <2>4, <2>5 DEF Again
  <2>7. CASE ~more'
    <3>1. page = rest
      BY <1>1, <1>4, <2>7 DEF CursorRows
    <3> QED BY <2>6, <2>7, <3>1 DEF Passed
  <2>8. CASE more'
    <3>1. Passed(r)' <=> place[r] >= place[cursor']
      BY <1>2, <1>9, <2>8 DEF Passed
    <3>2. CASE r \in page
      BY <1>1, <1>4, <1>6, <1>9, <2>6, <2>8, <3>1, <3>2, <1>5 DEF CursorRows
    <3>3. CASE r \in rest /\ r \notin page
      <4>1. place[cursor'] >= place[r] /\ r # cursor' /\ status[cursor'] # "NONE"
        BY <1>4, <1>5, <1>9, <2>8, <3>3 DEF Listed
      <4>2. place[cursor'] # place[r]
        BY <1>9, <1>15, <2>8, <4>1 DEF Tied
      <4>3. ~(place[r] >= place[cursor'])
        BY <1>5, <1>6, <1>9, <1>15, <2>8, <4>1, <4>2
      <4> QED BY <2>6, <3>1, <3>3, <4>3
    <3>4. CASE r \notin rest
      <4>1. cursor # None /\ place[r] >= place[cursor] /\ cursor \in Rows
        BY <1>5, <1>6, <1>7, <1>15, <2>3, <3>4
      <4>2. cursor' \in From(cursor)
        BY <1>1, <1>4, <1>9, <2>8 DEF After
      <4>3. place[cursor'] <= place[cursor]
        BY <4>1, <4>2 DEF From
      <4>4. place[r] >= place[cursor']
        BY <1>5, <1>6, <1>9, <1>15, <2>8, <4>1, <4>3
      <4> QED BY <2>6, <3>1, <3>4, <4>4
    <3> QED BY <3>2, <3>3, <3>4
  <2> QED BY <2>7, <2>8
<1>16. ReadingIsComplete'
  BY <1>2, <1>5, <1>8, <1>15 DEF ReadingIsComplete, Listed, Unshown
<1> QED BY <1>11, <1>12, <1>14, <1>16 DEF ListInv

\* A row that is touched is no longer owed; rows that are shown and do not go down
\* stay above a cursor that does not go up; who has a place alone had it before.
LEMMA TouchNext ==
  ASSUME ListInv, TypeOK', PlacesOK', NEW r \in Rows, Touches(r),
         \A x \in Rows \ {r} : status'[x] = status[x] /\ place'[x] = place[x],
         status'[r] # "NONE",
         kind \in DateOnly /\ status[r] # "NONE" => place'[r] = place[r],
         fell \subseteq fell', times[r] > 0 /\ place'[r] < place[r] => r \in fell',
         ~rose' => ~rose /\ (r = cursor => place'[r] <= place[r])
  PROVE  ListInv'
<1>1. UNCHANGED <<kind, cursor, more, times>> /\ touched' = touched \cup {r}
  BY DEF Touches, readVars
<1>2. ~lost' => ~lost /\ r # cursor
  BY DEF Touches
<1>3. cursor # None => cursor \in Rows
  BY DEF ListInv, TypeOK
<1>4. \A x \in Rows : place[x] \in Nat /\ place'[x] \in Nat /\ times[x] \in Nat
  BY ListConstantsOK DEF ListInv, TypeOK, Places
<1>5. CursorOK'
  BY <1>1, <1>2, <1>3 DEF ListInv, CursorOK, Listed
<1>6. \A x \in Rows : status'[x] = "NONE" => times'[x] = 0
  BY <1>1 DEF ListInv
<1>7. ASSUME NEW x \in Rows, status[x] # "NONE", Tied(x) PROVE Tied(x)'
  <2>1. PICK y \in Rows \ {x} : status[y] # "NONE" /\ place[y] = place[x]
    BY <1>7 DEF Tied
  <2>2. kind \in DateOnly
    BY <1>7, <2>1 DEF ListInv, PlacesOK
  <2>3. place'[x] = place[x] /\ place'[y] = place[y] /\ status'[y] # "NONE"
    BY <1>7, <2>1, <2>2
  <2> QED BY <2>1, <2>3 DEF Tied
<1>8. ShownOnce'
  <2> SUFFICES ASSUME ~rose', NEW x \in Rows \ fell', ~Tied(x)', times[x] > 0
               PROVE  times[x] <= 1
    BY <1>1, <1>4 DEF ShownOnce
  <2>1. status[x] # "NONE"
    BY DEF ListInv
  <2> QED BY <1>7, <2>1 DEF ListInv, ShownOnce
<1>9. ShownAbove'
  <2> SUFFICES ASSUME ~rose', more, NEW x \in Rows \ fell', ~Tied(x)', times[x] > 0
               PROVE  cursor # None /\ place'[x] >= place'[cursor]
    BY <1>1 DEF ShownAbove
  <2>1. status[x] # "NONE"
    BY DEF ListInv
  <2>2. cursor # None /\ place[x] >= place[cursor] /\ cursor \in Rows
    BY <1>3, <1>7, <2>1 DEF ListInv, ShownAbove
  <2>3. place'[x] >= place[x]
    BY <1>4
  <2>4. place'[cursor] <= place[cursor]
    BY <1>4, <2>2
  <2> QED BY <1>4, <2>2, <2>3, <2>4
<1>10. ReadingIsComplete'
  <2> SUFFICES ASSUME ~lost', NEW x \in (Listed \ (touched \cup Unshown))', ~Tied(x)'
               PROVE  times[x] = IF Passed(x)' THEN 1 ELSE 0
    BY <1>1 DEF ReadingIsComplete
  <2>1. x \in Listed \ (touched \cup Unshown) /\ x \in Rows \ {r}
    BY <1>1 DEF Listed, Unshown
  <2>2. ~Tied(x)
    BY <1>7, <2>1 DEF Listed
  <2>3. Passed(x)' <=> Passed(x)
    BY <1>1, <1>2, <1>3, <2>1 DEF Passed
  <2> QED BY <1>2, <2>1, <2>2, <2>3 DEF ListInv, ReadingIsComplete
<1> QED BY <1>5, <1>6, <1>8, <1>9, <1>10 DEF ListInv

\* A place is taken where it is free, unless a date alone is the order.
LEMMA PlaceIsFree ==
  ASSUME ListInv, NEW r \in Rows, NEW p, TakesPlace(r, p), kind' = kind,
         \A x \in Rows \ {r} : status'[x] = status[x]
  PROVE  PlacesOK'
<1>1. place' = [place EXCEPT ![r] = p] /\ place \in [Rows -> {0} \cup Places]
  BY DEF TakesPlace, ListInv, TypeOK
<1>2. \A x \in Rows : place'[x] = IF x = r THEN p ELSE place[x]
  BY <1>1
<1> QED BY <1>2 DEF TakesPlace, ListInv, PlacesOK

LEMMA InvNext == ListInv /\ [Next]_vars => ListInv'
<1> SUFFICES ASSUME ListInv, [Next]_vars PROVE ListInv'
  OBVIOUS
<1>0. TypeOK'
  BY TypeNext DEF ListInv
<1>1. CASE Open
  BY <1>0, <1>1 DEF Open, rowVars, ListInv, PlacesOK, CursorOK, ShownOnce, ShownAbove,
                    ReadingIsComplete, Passed, Listed
<1>2. CASE NextPage
  BY <1>0, <1>2, PageNext
<1>3. ASSUME NEW r \in Rows, Appears(r) PROVE ListInv'
  <2>1. PICK p \in Places : TakesPlace(r, p)
    BY <1>3 DEF Appears
  <2>2. Touches(r) /\ status[r] = "NONE" /\ UNCHANGED <<fell, rose>> /\ kind' = kind
    BY <1>3 DEF Appears, Touches
  <2>3. /\ \A x \in Rows \ {r} : status'[x] = status[x] /\ place'[x] = place[x]
        /\ status'[r] # "NONE"
    BY <1>3, <2>1 DEF Appears, Asked, TakesPlace, ListInv, TypeOK
  <2>4. times[r] = 0 /\ r # cursor
    BY <2>2, ListConstantsOK DEF ListInv, CursorOK
  <2>5. PlacesOK'
    BY <2>1, <2>2, <2>3, PlaceIsFree
  <2> QED BY <1>0, <2>2, <2>3, <2>4, <2>5, TouchNext
<1>4. ASSUME NEW r \in Rows, Moves(r) PROVE ListInv'
  <2>1. PICK p \in Places \ {place[r]} :
          /\ TakesPlace(r, p)
          /\ rose' = (rose \/ (r = cursor /\ p > place[r]))
          /\ fell' = fell \cup {x \in {r} : times[x] > 0 /\ p < place[x]}
    BY <1>4 DEF Moves
  <2>2. Touches(r) /\ kind' = kind /\ kind \notin DateOnly
    BY <1>4 DEF Moves, Touches, Moving, DateOnly
  <2>3. /\ \A x \in Rows \ {r} : status'[x] = status[x] /\ place'[x] = place[x]
        /\ status'[r] # "NONE" /\ place'[r] = p
    BY <1>4, <2>1 DEF Moves, Asked, TakesPlace, ListInv, TypeOK
  <2>4. p \in Nat /\ place[r] \in Nat
    BY PlacesAreNumbers, ListConstantsOK DEF ListInv, Places
  <2>5. PlacesOK'
    BY <2>1, <2>2, <2>3, PlaceIsFree
  <2>6. fell \subseteq fell' /\ (times[r] > 0 /\ place'[r] < place[r] => r \in fell')
    BY <2>1, <2>3
  <2>7. ~rose' => ~rose /\ (r = cursor => place'[r] <= place[r])
    <3>1. ~rose' => ~rose /\ ~(r = cursor /\ p > place[r])
      BY <2>1 DEF ListInv, TypeOK
    <3> QED BY <2>3, <2>4, <3>1
  <2> QED BY <1>0, <2>2, <2>3, <2>5, <2>6, <2>7, TouchNext
<1>5. ASSUME NEW r \in Rows, Leaves(r) \/ IsDeleted(r) PROVE ListInv'
  <2>1. /\ Touches(r) /\ UNCHANGED <<kind, place, fell, rose>>
        /\ status[r] \in {"IN", "OUT"}
    BY <1>5 DEF Leaves, IsDeleted, Touches
  <2>2. /\ \A x \in Rows \ {r} : status'[x] = status[x] /\ place'[x] = place[x]
        /\ status'[r] # "NONE" /\ place'[r] = place[r]
    BY <1>5, <2>1 DEF Leaves, IsDeleted, ListInv, TypeOK
  <2>3. PlacesOK'
    <3>1. \A x \in Rows : (status'[x] # "NONE" <=> status[x] # "NONE") /\ place'[x] = place[x]
      BY <2>1, <2>2
    <3> QED BY <2>1, <3>1 DEF ListInv, PlacesOK
  <2>4. place[r] \in Nat
    BY PlacesAreNumbers DEF ListInv
  <2> QED BY <1>0, <2>1, <2>2, <2>3, <2>4, TouchNext
<1>6. CASE UNCHANGED vars
  BY <1>0, <1>6 DEF vars, rowVars, readVars, ListInv, PlacesOK, CursorOK, ShownOnce,
                    ShownAbove, ReadingIsComplete, Passed, Listed, Tied, Unshown
<1> QED BY <1>1, <1>2, <1>3, <1>4, <1>5, <1>6 DEF Next

LEMMA InvHolds == Spec => []ListInv
<1>1. Init => ListInv
  BY TypeInit, ListConstantsOK DEF Init, ListInv, PlacesOK, CursorOK, ShownOnce, ShownAbove,
                  ReadingIsComplete, Listed
<1> QED BY <1>1, InvNext, PTL DEF Spec

\* Whatever leaves the list, moves or is deleted, a row is shown twice in a reading
\* only when the cursor moved up, the row itself moved down after it was shown, or,
\* among incoming requests ordered by a date, it shares that date with another
\* (skip: 1 and the comparison with the cursor's row).
THEOREM ListShownOnce == Spec => []ShownOnce
<1>1. ListInv => ShownOnce
  BY DEF ListInv
<1> QED BY <1>1, InvHolds, PTL

\* While the cursor's row stays where it is, a reading shows every row that stayed
\* in the list once when it has passed it and not before: pages leave no gap, and
\* the list does not end early (listArgs, paginate, notificationService.list); of
\* incoming requests ordered by a date, those that share it with no other.
THEOREM ListReadingIsComplete == Spec => []ReadingIsComplete
<1>1. ListInv => ReadingIsComplete
  BY DEF ListInv
<1> QED BY <1>1, InvHolds, PTL

-----------------------------------------------------------------------------
(* MoverSearch: the list of movers.                                        *)

\* The figures and ids put the movers of the list in a row.
ByFigure == {p \in Movers \X Movers : Precedes(p[1], p[2])}

\* Nothing has been shown before the list is opened.
SearchInv ==
  /\ SearchTypeOK
  /\ sort = "NONE" => nextCursor = NoCursor /\ \A m \in Movers : timesShown[m] = 0
  /\ UnchangedSeenOnce

LEMMA FiguresAreNumbers ==
  \A f \in Profiles, by \in Sorts : f[by] \in Int
<1>1. ASSUME NEW f \in Profiles
      PROVE  f["rating"] \in Int /\ f["review"] \in Int /\ f["career"] \in Int /\ f["confirmed"] \in Int
  <2>1. f \in [rating : Int, review : Nat, career : Int, confirmed : Int]
    BY SearchConstantsOK
  <2> QED BY <2>1
<1> QED BY <1>1 DEF Sorts

LEMMA ListedFigures ==
  ASSUME SearchTypeOK, sort # "NONE"
  PROVE  /\ \A m \in ListedMovers :
              m \in Movers /\ m \in Int /\ row[m] \in Profiles /\ row[m][sort] \in Int
         /\ nextCursor # NoCursor =>
              /\ nextCursor.id \in Movers /\ nextCursor.id \in Int
              /\ nextCursor.row \in Profiles /\ nextCursor.row[sort] \in Int
<1>1. \A m \in ListedMovers : m \in Movers /\ row[m] \in Profiles
  BY DEF ListedMovers, SearchTypeOK
<1>2. nextCursor # NoCursor => nextCursor.id \in Movers /\ nextCursor.row \in Profiles
  BY DEF SearchTypeOK, Cursors
<1>3. sort \in Sorts /\ Movers \subseteq Int
  BY SearchConstantsOK DEF SearchTypeOK
<1> QED BY <1>1, <1>2, <1>3, FiguresAreNumbers

LEMMA FiguresOrder ==
  ASSUME SearchTypeOK, sort # "NONE"
  PROVE  OrderedBy(ByFigure, ListedMovers)
<1>1. \A m \in ListedMovers : m \in Movers /\ m \in Int /\ row[m][sort] \in Int
  BY ListedFigures
<1>2. \A m, n \in ListedMovers :
        <<m, n>> \in ByFigure <=> row[m][sort] > row[n][sort] \/ (row[m][sort] = row[n][sort] /\ m > n)
  BY <1>1 DEF ByFigure, Precedes, Before
<1>3. IsFiniteSet(ListedMovers)
  <2>1. ListedMovers \in SUBSET Movers /\ IsFiniteSet(Movers)
    BY SearchConstantsOK DEF ListedMovers
  <2> QED BY <2>1, FS_Subset
<1>4. \A m \in ListedMovers : <<m, m>> \notin ByFigure
  BY <1>1, <1>2
<1>5. ASSUME NEW x \in ListedMovers, NEW y \in ListedMovers, NEW z \in ListedMovers,
             <<x, y>> \in ByFigure, <<y, z>> \in ByFigure
      PROVE  <<x, z>> \in ByFigure
  <2> DEFINE a == row[x][sort]
             b == row[y][sort]
             c == row[z][sort]
  <2>1. a \in Int /\ b \in Int /\ c \in Int /\ x \in Int /\ y \in Int /\ z \in Int
    BY <1>1
  <2>2. (a > b \/ (a = b /\ x > y)) /\ (b > c \/ (b = c /\ y > z))
    BY <1>2, <1>5
  <2>3. <<x, z>> \in ByFigure <=> a > c \/ (a = c /\ x > z)
    BY <1>2
  <2> HIDE DEF a, b, c
  <2> QED BY <2>1, <2>2, <2>3
<1>6. ASSUME NEW x \in ListedMovers, NEW y \in ListedMovers
      PROVE  x = y \/ <<x, y>> \in ByFigure \/ <<y, x>> \in ByFigure
  <2> DEFINE a == row[x][sort]
             b == row[y][sort]
  <2>1. a \in Int /\ b \in Int /\ x \in Int /\ y \in Int
    BY <1>1
  <2>2. /\ <<x, y>> \in ByFigure <=> a > b \/ (a = b /\ x > y)
        /\ <<y, x>> \in ByFigure <=> b > a \/ (b = a /\ y > x)
    BY <1>2
  <2> HIDE DEF a, b
  <2> QED BY <2>1, <2>2
<1> QED BY <1>3, <1>4, <1>5, <1>6 DEF OrderedBy

LEMMA FirstByFigure ==
  ASSUME NEW S \in SUBSET Movers, NEW n
  PROVE  FirstMovers(S, n) = First(ByFigure, S, n)
<1>1. ASSUME NEW m \in S PROVE {x \in S : Precedes(x, m)} = Over(ByFigure, S, m)
  BY <1>1 DEF Over, ByFigure
<1>2. ASSUME NEW m \in S PROVE m \in FirstMovers(S, n) <=> m \in First(ByFigure, S, n)
  BY <1>1, <1>2 DEF FirstMovers, First
<1>3. FirstMovers(S, n) \subseteq S /\ First(ByFigure, S, n) \subseteq S
  BY DEF FirstMovers, First
<1> QED BY <1>2, <1>3

\* A page that leaves some behind has a last one, which all the others precede.
LEMMA LastIsLowest ==
  ASSUME NEW S \in SUBSET Movers, OrderedBy(ByFigure, S), S # {}
  PROVE  LastOf(S) \in S /\ \A x \in S : ~Precedes(LastOf(S), x)
<1>1. PICK m \in S : \A x \in S : m = x \/ <<x, m>> \in ByFigure
  BY Lowest
<1>2. \A x \in S : <<m, x>> \notin ByFigure
  BY <1>1 DEF OrderedBy
<1>3. \A x \in S : ~Precedes(m, x)
  BY <1>2 DEF ByFigure
<1> QED BY <1>3 DEF LastOf

LEMMA LastOfPage ==
  ASSUME SearchTypeOK, sort # "NONE", NEW page,
         page = FirstMovers(Remaining, PageSize), Remaining # page
  PROVE  /\ page \subseteq Remaining
         /\ LastOf(page) \in page
         /\ \A x \in page : ~Precedes(LastOf(page), x)
<1>1. Remaining \in SUBSET ListedMovers /\ Remaining \in SUBSET Movers
  BY DEF Remaining, ListedMovers
<1>2. OrderedBy(ByFigure, Remaining)
  BY <1>1, FiguresOrder, OrderedSubset
<1>3. page = First(ByFigure, Remaining, PageSize)
  BY <1>1, FirstByFigure
<1>4. page \in SUBSET Remaining /\ page \in SUBSET Movers
  BY <1>1, <1>3 DEF First
<1>5. PageSize \in Nat /\ PageSize # 0
  BY SearchConstantsOK
<1>6. Cardinality(page) = PageSize
  BY <1>2, <1>3, <1>5, FirstAreFull
<1>7. page # {}
  BY <1>5, <1>6, FS_EmptySet
<1>8. OrderedBy(ByFigure, page)
  BY <1>2, <1>4, OrderedSubset
<1> QED BY <1>4, <1>7, <1>8, LastIsLowest

LEMMA NewPageSeenOnce ==
  ASSUME SearchInv, ListByFilters
  PROVE  UnchangedSeenOnce'
<1> DEFINE A    == Remaining
           page == FirstMovers(A, PageSize)
           last == LastOf(page)
           sees(m) == timesShown'[m] = IF ~hasNext' \/ (nextCursor' # NoCursor /\ ~AfterCursor(m)')
                                       THEN 1 ELSE 0
<1>1. sort # "NONE" /\ hasNext /\ UNCHANGED <<row, sort, changed>>
  BY DEF ListByFilters, ShowPage
<1> SUFFICES ASSUME NEW m \in ListedMovers \ changed PROVE sees(m)
  BY <1>1 DEF UnchangedSeenOnce, ListedMovers
<1>2. SearchTypeOK
  BY DEF SearchInv
<1>3. A \subseteq ListedMovers /\ ListedMovers \subseteq Movers /\ m \in Movers
  BY DEF Remaining, ListedMovers
<1>4. OrderedBy(ByFigure, ListedMovers) /\ OrderedBy(ByFigure, A)
  BY <1>1, <1>2, <1>3, FiguresOrder, OrderedSubset
<1>5. page = First(ByFigure, A, PageSize) /\ page \subseteq A
  BY <1>3, FirstByFigure DEF First
<1>6. timesShown[m] = IF m \in A THEN 0 ELSE 1
  BY <1>1 DEF SearchInv, UnchangedSeenOnce, Remaining, AfterCursor
<1>7. timesShown'[m] = IF m \in page THEN timesShown[m] + 1 ELSE timesShown[m]
  BY <1>3 DEF ListByFilters, ShowPage
<1>8. timesShown'[m] = IF m \in A THEN IF m \in page THEN 1 ELSE 0 ELSE 1
  BY <1>5, <1>6, <1>7
<1>9. CASE A = page
  <2>1. ~hasNext'
    BY <1>9 DEF ListByFilters, ShowPage
  <2> QED BY <1>8, <1>9, <2>1
<1>10. CASE A # page
  <2>1. hasNext' /\ nextCursor' = [id |-> last, row |-> row[last]]
    BY <1>10 DEF ListByFilters, ShowPage
  <2>2. nextCursor' # NoCursor /\ nextCursor'.id = last /\ nextCursor'.row = row[last]
    BY <2>1 DEF NoCursor
  <2>3. PageSize \in Nat /\ PageSize # 0
    BY SearchConstantsOK
  <2>5. last \in page /\ \A x \in page : ~Precedes(last, x)
    BY <1>1, <1>2, <1>10, LastOfPage
  <2>6. last \in A /\ last \in ListedMovers
    BY <1>3, <1>5, <2>5
  <2>7. sees(m) <=> timesShown'[m] = IF Precedes(last, m) THEN 0 ELSE 1
    BY <1>1, <2>1, <2>2 DEF AfterCursor, Precedes
  <2> HIDE DEF A, page, last, sees
  <2>8. CASE m \in page
    BY <1>5, <1>8, <2>5, <2>7, <2>8
  <2>9. CASE m \in A /\ m \notin page
    <3>1. <<m, last>> \notin ByFigure
      BY <1>4, <1>5, <2>3, <2>5, <2>9, FirstIsUpward
    <3>2. <<last, m>> \in ByFigure
      BY <1>4, <2>5, <2>6, <2>9, <3>1 DEF OrderedBy
    <3>3. Precedes(last, m)
      BY <3>2 DEF ByFigure
    <3> QED BY <1>8, <2>7, <2>9, <3>3
  <2>10. CASE m \notin A
    <3>1. nextCursor # NoCursor /\ ~Before(nextCursor.row[sort], nextCursor.id, row[m][sort], m)
      BY <2>10 DEF A, Remaining, AfterCursor
    <3>2. Before(nextCursor.row[sort], nextCursor.id, row[last][sort], last)
      BY <2>6, <3>1 DEF A, Remaining, AfterCursor
    <3>3. /\ m \in Int /\ row[m][sort] \in Int /\ last \in Int /\ row[last][sort] \in Int
          /\ nextCursor.id \in Int /\ nextCursor.row[sort] \in Int
      BY <1>1, <1>2, <2>6, <3>1, ListedFigures
    <3>4. ~Precedes(last, m)
      BY <3>1, <3>2, <3>3 DEF Precedes, Before
    <3> QED BY <1>8, <2>7, <2>10, <3>4
  <2> QED BY <2>8, <2>9, <2>10
<1> QED BY <1>9, <1>10

LEMMA SearchTypeNext ==
  ASSUME SearchInv, [SearchNext]_searchVars
  PROVE  SearchTypeOK'
<1> USE DEF SearchInv, SearchTypeOK, listVars
<1>1. ASSUME NEW by \in Sorts, OpenSearch(by) PROVE SearchTypeOK'
  BY <1>1 DEF OpenSearch
<1>2. CASE ListByFilters
  <2> DEFINE page == FirstMovers(Remaining, PageSize)
             last == LastOf(page)
  <2>1. sort # "NONE" /\ UNCHANGED <<row, sort, changed, ranked>>
    BY <1>2 DEF ListByFilters, ShowPage
  <2>2. timesShown' \in [Movers -> Nat] /\ hasNext' \in BOOLEAN
    BY <1>2 DEF ListByFilters, ShowPage
  <2>3. CASE Remaining = page
    <3>1. nextCursor' = NoCursor
      BY <1>2, <2>3 DEF ListByFilters, ShowPage
    <3> QED BY <2>1, <2>2, <3>1 DEF Cursors
  <2>4. CASE Remaining # page
    <3>1. nextCursor' = [id |-> last, row |-> row[last]]
      BY <1>2, <2>4 DEF ListByFilters, ShowPage
    <3>2. last \in ListedMovers
      BY <2>1, <2>4, LastOfPage DEF Remaining
    <3>3. last \in Movers /\ row[last] \in Profiles
      BY <2>1, <3>2, ListedFigures
    <3> HIDE DEF last
    <3> QED BY <2>1, <2>2, <3>1, <3>3 DEF Cursors
  <2> QED BY <2>3, <2>4
<1>3. CASE CloseSearch
  BY <1>3 DEF CloseSearch, Cursors
<1>4. ASSUME NEW m \in Movers, RowChanges(m) PROVE SearchTypeOK'
  <2>1. PICK f \in Profiles \cup {NotListed} : row' = [row EXCEPT ![m] = f]
    BY <1>4 DEF RowChanges
  <2>2. row' \in [Movers -> Profiles \cup {NotListed}]
    BY <2>1
  <2>3. changed' \in SUBSET Movers /\ UNCHANGED <<sort, nextCursor, hasNext, timesShown>>
    BY <1>4 DEF RowChanges
  <2> QED BY <2>2, <2>3
<1>5. CASE UNCHANGED <<row, listVars>>
  BY <1>5
<1> QED BY <1>1, <1>2, <1>3, <1>4, <1>5
        DEF SearchNext, searchVars, ListRankCandidates, ReadMean,
            PickBestMover, ShowRecommendation

LEMMA SearchInvInit ==
  ASSUME SearchInit
  PROVE  SearchInv
<1>1. SearchTypeOK
  BY DEF SearchInit, SearchTypeOK, Cursors
<1> QED BY <1>1 DEF SearchInit, SearchInv, UnchangedSeenOnce

LEMMA SearchInvNext ==
  ASSUME SearchInv, [SearchNext]_searchVars
  PROVE  SearchInv'
<1>0. SearchTypeOK'
  BY SearchTypeNext
<1> USE DEF SearchInv, listVars
<1>1. ASSUME NEW by \in Sorts, OpenSearch(by) PROVE SearchInv'
  <2>1. by # "NONE"
    BY DEF Sorts
  <2>2. nextCursor = NoCursor /\ (\A m \in Movers : timesShown[m] = 0)
        /\ hasNext' /\ sort' = by /\ UNCHANGED <<row, nextCursor, timesShown, changed>>
    BY <1>1 DEF OpenSearch
  <2>3. UnchangedSeenOnce'
    BY <2>2 DEF UnchangedSeenOnce, ListedMovers
  <2> QED BY <1>0, <2>1, <2>2, <2>3
<1>2. CASE ListByFilters
  <2>1. sort # "NONE" /\ sort' = sort
    BY <1>2 DEF ListByFilters, ShowPage
  <2> QED BY <1>0, <1>2, <2>1, NewPageSeenOnce
<1>3. CASE CloseSearch
  <2>1. sort' = "NONE" /\ nextCursor' = NoCursor /\ \A m \in Movers : timesShown'[m] = 0
    BY <1>3 DEF CloseSearch
  <2> QED BY <1>0, <2>1 DEF UnchangedSeenOnce
<1>4. ASSUME NEW m \in Movers, RowChanges(m) PROVE SearchInv'
  <2>1. UNCHANGED <<sort, nextCursor, hasNext, timesShown>>
    BY <1>4 DEF RowChanges
  <2>2. sort # "NONE" => changed' = changed \cup {m}
    BY <1>4 DEF RowChanges
  <2>3. \A n \in Movers \ {m} : row'[n] = row[n]
    BY <1>4 DEF RowChanges, SearchTypeOK
  <2>4. ASSUME sort' # "NONE", NEW n \in (ListedMovers \ changed)'
        PROVE  timesShown'[n] = IF ~hasNext' \/ (nextCursor' # NoCursor /\ ~AfterCursor(n)')
                                THEN 1 ELSE 0
    <3>1. n \in Movers \ {m} /\ n \in ListedMovers \ changed
      BY <2>1, <2>2, <2>3, <2>4 DEF ListedMovers
    <3>2. AfterCursor(n)' <=> AfterCursor(n)
      BY <2>1, <2>3, <3>1 DEF AfterCursor
    <3> QED BY <2>1, <2>4, <3>1, <3>2 DEF UnchangedSeenOnce
  <2>5. UnchangedSeenOnce'
    BY <2>4 DEF UnchangedSeenOnce
  <2> QED BY <1>0, <2>1, <2>5
<1>5. CASE UNCHANGED <<row, listVars>>
  BY <1>0, <1>5 DEF UnchangedSeenOnce, AfterCursor, ListedMovers
<1> QED BY <1>1, <1>2, <1>3, <1>4, <1>5
        DEF SearchNext, searchVars, ListRankCandidates, ReadMean,
            PickBestMover, ShowRecommendation

\* Whatever figures change between the pages, a mover whose row has not changed is
\* shown once when the cursor has passed it and not before: the cursor's figures and
\* id stand for the last mover shown even if that mover has moved or left
\* (mover.repository.ts: buildOrderBy, buildCursorWhere; limit + 1).
THEOREM SearchSeenOnce == SearchSpec => []UnchangedSeenOnce
<1>1. SearchInit => SearchInv
  BY SearchInvInit
<1>2. SearchInv /\ [SearchNext]_searchVars => SearchInv'
  BY SearchInvNext
<1>3. SearchInv => UnchangedSeenOnce
  BY DEF SearchInv
<1> QED BY <1>1, <1>2, <1>3, PTL DEF SearchSpec

-----------------------------------------------------------------------------
(* The mean of the ratings is a number: MapThenSumSet is a CHOOSE of a     *)
(* recursive function on the subsets, and a smallest subset without the    *)
(* property stands for induction.                                          *)

Pick(s) == CHOOSE x \in s : TRUE

Adds(g, f, S) ==
  g = [s \in SUBSET S |-> IF s = {} THEN 0 ELSE f[Pick(s)].rating + g[s \ {Pick(s)}]]

LEMMA PickIsElement == ASSUME NEW s, s # {} PROVE Pick(s) \in s
BY DEF Pick

LEMMA AddsUnique ==
  ASSUME NEW S, IsFiniteSet(S), NEW f, NEW g, NEW h, Adds(g, f, S), Adds(h, f, S)
  PROVE  \A T \in SUBSET S : g[T] = h[T]
<1> DEFINE B == {T \in SUBSET S : g[T] # h[T]}
<1> SUFFICES ASSUME B # {} PROVE FALSE
  OBVIOUS
<1>1. PICK T \in B : \A U \in SUBSET T : U # T => U \notin B
  <2> HIDE DEF B
  <2> SUFFICES B \in SUBSET SUBSET S BY LeastSubset
  <2> QED BY DEF B
<1>2. T \in SUBSET S /\ T # {}
  BY <1>1 DEF Adds
<1>3. Pick(T) \in T
  BY <1>2, PickIsElement
<1>4. T \ {Pick(T)} \in SUBSET T /\ T \ {Pick(T)} # T
  BY <1>3
<1>5. g[T \ {Pick(T)}] = h[T \ {Pick(T)}]
  BY <1>1, <1>2, <1>4
<1>6. g[T] = f[Pick(T)].rating + g[T \ {Pick(T)}] /\ h[T] = f[Pick(T)].rating + h[T \ {Pick(T)}]
  BY <1>2 DEF Adds
<1> QED BY <1>1, <1>5, <1>6

LEMMA AddsRestricted ==
  ASSUME NEW S, NEW T \in SUBSET S, NEW f, NEW g, Adds(g, f, S)
  PROVE  Adds([s \in SUBSET T |-> g[s]], f, T)
<1> DEFINE h == [s \in SUBSET T |-> g[s]]
<1>1. ASSUME NEW s \in SUBSET T
      PROVE  h[s] = IF s = {} THEN 0 ELSE f[Pick(s)].rating + h[s \ {Pick(s)}]
  <2>1. s \in SUBSET S /\ s \ {Pick(s)} \in SUBSET T
    OBVIOUS
  <2>2. g[s] = IF s = {} THEN 0 ELSE f[Pick(s)].rating + g[s \ {Pick(s)}]
    BY <2>1 DEF Adds
  <2> QED BY <2>1, <2>2
<1> QED BY <1>1 DEF Adds

LEMMA AddsPart ==
  ASSUME NEW S, IsFiniteSet(S), NEW T \in SUBSET S, NEW f, NEW g, NEW h,
         Adds(g, f, S), Adds(h, f, T)
  PROVE  h[T] = g[T]
<1>1. IsFiniteSet(T)
  BY FS_Subset
<1>2. Adds([s \in SUBSET T |-> g[s]], f, T)
  BY AddsRestricted
<1>3. h[T] = [s \in SUBSET T |-> g[s]][T]
  BY <1>1, <1>2, AddsUnique
<1> QED BY <1>3

LEMMA AddsExists ==
  ASSUME NEW S, IsFiniteSet(S), NEW f
  PROVE  \E g : Adds(g, f, S)
<1> DEFINE B == {T \in SUBSET S : ~ \E g : Adds(g, f, T)}
<1> SUFFICES ASSUME B # {} PROVE FALSE
  OBVIOUS
<1>1. PICK T \in B : \A U \in SUBSET T : U # T => U \notin B
  <2> HIDE DEF B
  <2> SUFFICES B \in SUBSET SUBSET S BY LeastSubset
  <2> QED BY DEF B
<1> DEFINE G(U) == CHOOSE g : Adds(g, f, U)
           h == [s \in SUBSET T |-> IF s = {} THEN 0
                                    ELSE f[Pick(s)].rating + G(s \ {Pick(s)})[s \ {Pick(s)}]]
<1>2. \A U \in SUBSET T : U # T => Adds(G(U), f, U)
  BY <1>1
<1>3. \A U \in SUBSET T : U # {} => Pick(U) \in U
  BY PickIsElement
<1>4. \A U \in SUBSET T : IsFiniteSet(U)
  BY <1>1, FS_Subset
<1>5. ASSUME NEW U \in SUBSET T, U # T
      PROVE  h[U] = G(U)[U]
  <2>1. Adds(G(U), f, U)
    BY <1>2, <1>5
  <2>2. CASE U = {}
    BY <2>1, <2>2 DEF Adds
  <2>3. CASE U # {}
    <3> DEFINE V == U \ {Pick(U)}
    <3>1. V \in SUBSET U /\ V # U /\ V \in SUBSET T /\ V # T
      BY <2>3, <1>3
    <3>2. Adds(G(V), f, V)
      BY <1>2, <3>1
    <3>3. IsFiniteSet(U)
      BY <1>4
    <3>4. G(V)[V] = G(U)[V]
      <4> HIDE DEF V, G, h
      <4> QED BY <2>1, <3>1, <3>2, <3>3, AddsPart
    <3>5. G(U)[U] = f[Pick(U)].rating + G(U)[V]
      BY <2>1, <2>3 DEF Adds
    <3> QED BY <2>3, <3>4, <3>5
  <2> QED BY <2>2, <2>3
<1>6. Adds(h, f, T)
  <2>1. ASSUME NEW s \in SUBSET T, s # {}
        PROVE  h[s] = f[Pick(s)].rating + h[s \ {Pick(s)}]
    <3>1. s \ {Pick(s)} \in SUBSET T /\ s \ {Pick(s)} # T
      BY <1>3, <2>1
    <3>2. h[s \ {Pick(s)}] = G(s \ {Pick(s)})[s \ {Pick(s)}]
      BY <1>5, <3>1
    <3>3. h[s] = f[Pick(s)].rating + G(s \ {Pick(s)})[s \ {Pick(s)}]
      BY <2>1
    <3> QED BY <3>2, <3>3
  <2>2. h[{}] = 0 /\ h = [s \in SUBSET T |-> h[s]]
    OBVIOUS
  <2> HIDE DEF h
  <2> QED BY <2>1, <2>2 DEF Adds
<1> QED BY <1>1, <1>6

LEMMA SumIsNumber ==
  ASSUME NEW S, IsFiniteSet(S), NEW f, \A x \in S : f[x].rating \in Int
  PROVE  (CHOOSE g : Adds(g, f, S))[S] \in Int
<1> DEFINE g == CHOOSE g : Adds(g, f, S)
           B == {T \in SUBSET S : g[T] \notin Int}
<1>1. Adds(g, f, S)
  BY AddsExists
<1> HIDE DEF g
<1> SUFFICES ASSUME B # {} PROVE FALSE
  BY DEF g
<1>2. PICK T \in B : \A U \in SUBSET T : U # T => U \notin B
  <2> HIDE DEF B
  <2> SUFFICES B \in SUBSET SUBSET S BY LeastSubset
  <2> QED BY DEF B
<1>3. T \in SUBSET S /\ g[T] \notin Int
  BY <1>2
<1>4. T # {}
  BY <1>1, <1>3 DEF Adds
<1>5. Pick(T) \in T /\ T \ {Pick(T)} \in SUBSET T /\ T \ {Pick(T)} # T
  BY <1>4, PickIsElement
<1>6. g[T \ {Pick(T)}] \in Int /\ f[Pick(T)].rating \in Int
  BY <1>2, <1>3, <1>5
<1>7. g[T] = f[Pick(T)].rating + g[T \ {Pick(T)}]
  BY <1>1, <1>3, <1>4 DEF Adds
<1> QED BY <1>3, <1>6, <1>7

LEMMA SumOfRatings ==
  ASSUME NEW S
  PROVE  MapThenSumSet(LAMBDA m : row[m].rating, S) = (CHOOSE g : Adds(g, row, S))[S]
BY DEF MapThenSumSet, MapThenFoldSet, Adds, Pick

IsMean(mean) == mean.sum \in Int /\ mean.count \in Nat

LEMMA MeanIsNumber ==
  ASSUME SearchTypeOK, NEW others \in Elsewhere
  PROVE  IsMean(ReviewedMean(others))
<1> DEFINE reviewed == {m \in ListedMovers : row[m].review > 0}
           count    == Cardinality(reviewed) + others.count
           sum      == MapThenSumSet(LAMBDA m : row[m].rating, reviewed)
<1>1. others.sum \in Int /\ others.count \in Nat
  BY SearchConstantsOK
<1>2. reviewed \in SUBSET Movers /\ \A m \in reviewed : row[m] \in Profiles
  BY DEF ListedMovers, SearchTypeOK
<1>3. IsFiniteSet(reviewed)
  BY <1>2, FS_Subset, SearchConstantsOK
<1>4. count \in Nat
  BY <1>1, <1>3, FS_CardinalityType
<1>5. \A m \in reviewed : row[m].rating \in Int
  BY <1>2, SearchConstantsOK
<1>6. sum \in Int
  BY <1>3, <1>5, SumIsNumber, SumOfRatings
<1>7. ReviewedMean(others) = IF count = 0 THEN NoReviewsMean
                                    ELSE [sum |-> sum + others.sum, count |-> count]
  BY DEF ReviewedMean
<1> HIDE DEF sum, count
<1>8. CASE count = 0
  BY <1>7, <1>8 DEF IsMean, NoReviewsMean
<1>9. CASE count # 0
  BY <1>1, <1>4, <1>6, <1>7, <1>9 DEF IsMean
<1> QED BY <1>8, <1>9

-----------------------------------------------------------------------------
(* Scores are numbers, so the keys of a candidate order the candidates.    *)

AreCandidates(c) ==
  /\ DOMAIN c \in SUBSET Movers /\ DOMAIN c # {}
  /\ c \in [DOMAIN c -> Profiles]

ByValue(S) == {p \in S \X S : p[1] > p[2]}

LEMMA Extremes ==
  ASSUME NEW S \in SUBSET Int, IsFiniteSet(S), S # {}
  PROVE  Max(S) \in Int /\ Min(S) \in Int /\ Max(S) >= Min(S)
<1>1. OrderedBy(ByValue(S), S)
  BY DEF OrderedBy, ByValue
<1>2. PICK x \in S : \A y \in S : x = y \/ <<x, y>> \in ByValue(S)
  BY <1>1, Highest
<1>3. PICK z \in S : \A y \in S : z = y \/ <<y, z>> \in ByValue(S)
  BY <1>1, Lowest
<1>4. ASSUME NEW y \in S PROVE x >= y /\ z <= y
  <2>1. x \in Int /\ y \in Int /\ z \in Int
    OBVIOUS
  <2>2. (x = y \/ x > y) /\ (z = y \/ y > z)
    BY <1>2, <1>3 DEF ByValue
  <2> QED BY <2>1, <2>2
<1>5. Max(S) \in S /\ \A y \in S : Max(S) >= y
  BY <1>4 DEF Max
<1>6. Min(S) \in S
  BY <1>4 DEF Min
<1> QED BY <1>5, <1>6

LEMMA LeastIsMin ==
  ASSUME NEW S \in SUBSET Int, NEW i \in S, \A j \in S : i <= j
  PROVE  Min(S) = i
<1> DEFINE k == Min(S)
<1>1. k \in S /\ \A j \in S : k <= j
  BY DEF Min
<1>2. k \in Int /\ i \in Int /\ k <= i /\ i <= k
  BY <1>1
<1> HIDE DEF k
<1>3. k = i
  BY <1>2
<1> QED BY <1>3 DEF k

LEMMA WeightIsNumber ==
  ASSUME NEW S \in SUBSET Int, IsFiniteSet(S), S # {}, NEW v \in Int
  PROVE  Above(S, v) \in Int /\ Width(S) \in Int
BY Extremes DEF Above, Width

LEMMA BayesIsNumber ==
  ASSUME NEW f \in Profiles, NEW mean, IsMean(mean)
  PROVE  BayesianRating(f, mean) \in Int
<1>1. f.review \in Nat /\ f.rating \in Int /\ Scale \in Int
  BY SearchConstantsOK
<1>2. mean.sum \in Int /\ mean.count \in Int
  BY DEF IsMean
<1>3. f.review * f.rating * mean.count \in Int
  <2>1. f.review * f.rating \in Int
    BY <1>1
  <2> QED BY <1>2, <2>1
<1>4. PriorWeight * mean.sum \in Int
  BY <1>2 DEF PriorWeight
<1> DEFINE x == f.review * f.rating * mean.count + PriorWeight * mean.sum
           d == f.review + PriorWeight
<1>5. x \in Int /\ d \in Int /\ d > 0
  BY <1>1, <1>3, <1>4 DEF PriorWeight
<1>6. BayesianRating(f, mean) = (x * Scale) \div d
  BY DEF BayesianRating
<1> HIDE DEF x, d
<1>7. x * Scale \in Int
  BY <1>1, <1>5
<1> QED BY <1>5, <1>6, <1>7

\* The values of one figure of the candidates.
LEMMA ValuesAreNumbers ==
  ASSUME NEW D, IsFiniteSet(D), D # {}, NEW g, \A x \in D : g[x] \in Int
  PROVE  /\ {g[x] : x \in D} \in SUBSET Int /\ {g[x] : x \in D} # {}
         /\ IsFiniteSet({g[x] : x \in D})
<1> DEFINE T == {g[x] : x \in D}
           h == [x \in D |-> g[x]]
<1>1. h \in Surjection(D, T)
  BY DEF Surjection
<1>2. IsFiniteSet(T)
  BY <1>1, FS_Surjection
<1> QED BY <1>2

-----------------------------------------------------------------------------
(* The loop keeps the best of those it has seen.                           *)

IsRanking(r) ==
  /\ AreCandidates(r.candidates) /\ IsMean(r.mean)
  /\ r.rounding \in [DOMAIN r.candidates -> Int]

\* A width is how far apart the values are, or 1.
LEMMA WidthIsPositive ==
  ASSUME NEW S \in SUBSET Int, IsFiniteSet(S), S # {}
  PROVE  Width(S) \in Nat \ {0}
BY Extremes DEF Width

LEMMA RankedFigures ==
  ASSUME NEW r, IsRanking(r)
  PROVE  /\ Bayes(r) \in SUBSET Int /\ IsFiniteSet(Bayes(r)) /\ Bayes(r) # {}
         /\ Careers(r) \in SUBSET Int /\ IsFiniteSet(Careers(r)) /\ Careers(r) # {}
         /\ Confirmed(r) \in SUBSET Int /\ IsFiniteSet(Confirmed(r)) /\ Confirmed(r) # {}
         /\ \A m \in DOMAIN r.candidates :
              /\ Computed(r)[m] \in Int /\ Rating(r, m) \in Int
              /\ r.candidates[m].career \in Int /\ r.candidates[m].confirmed \in Int
<1> DEFINE c  == r.candidates
           D  == DOMAIN c
           gb == Computed(r)
           gc == [x \in D |-> c[x].career]
           gk == [x \in D |-> c[x].confirmed]
<1>1. IsFiniteSet(D) /\ D # {}
  BY FS_Subset, SearchConstantsOK DEF AreCandidates, IsRanking
<1>2. \A x \in D : c[x] \in Profiles
  BY DEF AreCandidates, IsRanking
<1>3. \A x \in D : c[x].career \in Int /\ c[x].confirmed \in Int
  BY <1>2, SearchConstantsOK
<1>4. \A x \in D : BayesianRating(c[x], r.mean) \in Int
  BY <1>2, BayesIsNumber DEF IsRanking
<1>5. \A x \in D : r.rounding[x] \in Int
  BY DEF IsRanking
<1>6. \A x \in D : gb[x] \in Int
  <2> SUFFICES ASSUME NEW x \in D PROVE gb[x] \in Int
    OBVIOUS
  <2>1. gb[x] = BayesianRating(c[x], r.mean) + r.rounding[x]
    BY DEF Computed
  <2> QED BY <1>4, <1>5, <2>1
<1>7. \A x \in D : gc[x] \in Int /\ gk[x] \in Int
  BY <1>3
<1>8. Bayes(r) = {gb[x] : x \in D}
  BY DEF Bayes
<1>9. Careers(r) = {gc[x] : x \in D} /\ Confirmed(r) = {gk[x] : x \in D}
  BY DEF Careers, Confirmed
<1>10. \A m \in D : Rating(r, m) \in Int
  BY <1>4 DEF Rating
<1>11. \A m \in D : Computed(r)[m] \in Int
  BY <1>6
<1> HIDE DEF gb, gc, gk
<1>12. Bayes(r) \in SUBSET Int /\ IsFiniteSet(Bayes(r)) /\ Bayes(r) # {}
  BY <1>1, <1>6, <1>8, ValuesAreNumbers
<1>13. Careers(r) \in SUBSET Int /\ IsFiniteSet(Careers(r)) /\ Careers(r) # {}
  BY <1>1, <1>7, <1>9, ValuesAreNumbers
<1>14. Confirmed(r) \in SUBSET Int /\ IsFiniteSet(Confirmed(r)) /\ Confirmed(r) # {}
  BY <1>1, <1>7, <1>9, ValuesAreNumbers
<1> QED BY <1>3, <1>10, <1>11, <1>12, <1>13, <1>14

LEMMA ScoreIsNumber ==
  ASSUME NEW r, IsRanking(r), NEW m \in DOMAIN r.candidates
  PROVE  Score(r, m) \in Int
<1>1. /\ Above(Bayes(r), Computed(r)[m]) \in Int /\ Width(Bayes(r)) \in Int
      /\ Above(Careers(r), r.candidates[m].career) \in Int /\ Width(Careers(r)) \in Int
      /\ Above(Confirmed(r), r.candidates[m].confirmed) \in Int /\ Width(Confirmed(r)) \in Int
  BY RankedFigures, WeightIsNumber
<1>2. \A a, b, d \in Int : a * b * d \in Int
  <2>1. \A a, b \in Int : a * b \in Int
    OBVIOUS
  <2> QED BY <2>1
<1>3. \A a, b, d \in Int : a + b + d \in Int
  OBVIOUS
<1> QED BY <1>1, <1>2, <1>3 DEF Score

LEMMA UnitsArePositive ==
  ASSUME NEW r, IsRanking(r)
  PROVE  OneScore(r) \in Nat /\ OneRating(r) \in Nat
<1>1. /\ Width(Bayes(r)) \in Nat /\ Width(Careers(r)) \in Nat /\ Width(Confirmed(r)) \in Nat
  BY RankedFigures, WidthIsPositive
<1>2. Scale \in Nat /\ r.mean.count \in Nat
  BY SearchConstantsOK DEF IsRanking, IsMean
<1>3. \A a, b \in Nat : a * b \in Nat
  OBVIOUS
<1>4. 3 * Width(Bayes(r)) * Width(Careers(r)) * Width(Confirmed(r)) \in Nat
  BY <1>1, <1>3
<1>5. 10 * Scale * r.mean.count \in Nat
  BY <1>2, <1>3
<1> QED BY <1>4, <1>5 DEF OneScore, OneRating

LEMMA KeysAreNumbers ==
  ASSUME NEW r, IsRanking(r), NEW m \in DOMAIN r.candidates
  PROVE  /\ Score(r, m) \in Int /\ Rating(r, m) \in Int
         /\ r.candidates[m].confirmed \in Int /\ r.candidates[m].career \in Int
         /\ m \in Int
<1>1. m \in Int
  BY SearchConstantsOK DEF IsRanking, AreCandidates
<1> QED BY <1>1, ScoreIsNumber, RankedFigures

\* What exceeds is greater, of two one exceeds or they tie.
LEMMA ExceedsIsGreater ==
  ASSUME NEW x \in Int, NEW y \in Int, NEW one \in Nat
  PROVE  /\ Exceeds(x, y, one) => x > y
         /\ Exceeds(x, y, one) => ~Exceeds(y, x, one)
         /\ x = y => Ties(x, y, one)
<1>1. Precision \in Nat \ {0}
  BY SearchConstantsOK
<1>2. x * Precision \in Int /\ y * Precision \in Int
  BY <1>1
<1>3. y >= x => y * Precision >= x * Precision
  <2> SUFFICES ASSUME y >= x PROVE y * Precision >= x * Precision
    OBVIOUS
  <2>1. PICK d \in Nat : y = x + d
    <3>1. y - x \in Nat /\ y = x + (y - x)
      OBVIOUS
    <3> QED BY <3>1
  <2>2. (x + d) * Precision = x * Precision + d * Precision
    BY <1>1
  <2>3. d * Precision \in Nat
    BY <1>1
  <2> QED BY <1>2, <2>1, <2>2, <2>3
<1>4. Exceeds(x, y, one) => x > y
  BY <1>2, <1>3 DEF Exceeds
<1>5. Exceeds(x, y, one) => ~Exceeds(y, x, one)
  BY <1>2 DEF Exceeds
<1>6. x = y => Ties(x, y, one)
  BY <1>2 DEF Ties, Exceeds
<1> QED BY <1>4, <1>5, <1>6

\* Beats among candidates whose scores and ratings are equal or well apart.
LEMMA BeatsByKeys ==
  ASSUME NEW r, IsRanking(r), NEW m \in DOMAIN r.candidates, NEW n \in DOMAIN r.candidates,
         Distinct(r, {m, n})
  PROVE  Beats(r, m, n) <=>
           \/ Score(r, m) > Score(r, n)
           \/ /\ Score(r, m) = Score(r, n)
              /\ Rating(r, m) > Rating(r, n)
           \/ /\ Score(r, m) = Score(r, n) /\ Rating(r, m) = Rating(r, n)
              /\ \/ r.candidates[m].confirmed > r.candidates[n].confirmed
                 \/ /\ r.candidates[m].confirmed = r.candidates[n].confirmed
                    /\ r.candidates[m].career > r.candidates[n].career
                 \/ /\ r.candidates[m].confirmed = r.candidates[n].confirmed
                    /\ r.candidates[m].career = r.candidates[n].career
                    /\ m < n
<1>1. /\ Score(r, m) \in Int /\ Score(r, n) \in Int
      /\ Rating(r, m) \in Int /\ Rating(r, n) \in Int
  BY KeysAreNumbers
<1>2. OneScore(r) \in Nat /\ OneRating(r) \in Nat
  BY UnitsArePositive
<1>4. /\ Ties(Score(r, m), Score(r, n), OneScore(r)) <=> Score(r, m) = Score(r, n)
      /\ Exceeds(Score(r, m), Score(r, n), OneScore(r)) <=> Score(r, m) > Score(r, n)
  <2>1. Ties(Score(r, m), Score(r, n), OneScore(r)) <=> Score(r, m) = Score(r, n)
    BY <1>1, <1>2, ExceedsIsGreater DEF Distinct
  <2>2. Exceeds(Score(r, m), Score(r, n), OneScore(r)) => Score(r, m) > Score(r, n)
    BY <1>1, <1>2, ExceedsIsGreater
  <2>3. Exceeds(Score(r, n), Score(r, m), OneScore(r)) => Score(r, n) > Score(r, m)
    BY <1>1, <1>2, ExceedsIsGreater
  <2>4. Score(r, m) > Score(r, n) => Exceeds(Score(r, m), Score(r, n), OneScore(r))
    BY <1>1, <2>1, <2>3 DEF Ties
  <2> QED BY <2>1, <2>2, <2>4
<1>5. /\ Ties(Rating(r, m), Rating(r, n), OneRating(r)) <=> Rating(r, m) = Rating(r, n)
      /\ Exceeds(Rating(r, m), Rating(r, n), OneRating(r)) <=> Rating(r, m) > Rating(r, n)
  <2>1. Ties(Rating(r, m), Rating(r, n), OneRating(r)) <=> Rating(r, m) = Rating(r, n)
    BY <1>1, <1>2, ExceedsIsGreater DEF Distinct
  <2>2. Exceeds(Rating(r, m), Rating(r, n), OneRating(r)) => Rating(r, m) > Rating(r, n)
    BY <1>1, <1>2, ExceedsIsGreater
  <2>3. Exceeds(Rating(r, n), Rating(r, m), OneRating(r)) => Rating(r, n) > Rating(r, m)
    BY <1>1, <1>2, ExceedsIsGreater
  <2>4. Rating(r, m) > Rating(r, n) => Exceeds(Rating(r, m), Rating(r, n), OneRating(r))
    BY <1>1, <2>1, <2>3 DEF Ties
  <2> QED BY <2>1, <2>2, <2>4
<1> QED BY <1>4, <1>5 DEF Beats, IsBetterTie

\* Of two candidates one beats the other, and whom it beats the beaten one beat too.
LEMMA BeatsIsOrder ==
  ASSUME NEW r, IsRanking(r),
         NEW m \in DOMAIN r.candidates, NEW n \in DOMAIN r.candidates, NEW o \in DOMAIN r.candidates,
         Distinct(r, {m, n, o})
  PROVE  /\ m = n \/ Beats(r, m, n) \/ Beats(r, n, m)
         /\ Beats(r, m, n) /\ Beats(r, n, o) => Beats(r, m, o)
<1> DEFINE sm == Score(r, m)                 sn == Score(r, n)
           so == Score(r, o)                 bm == Rating(r, m)
           bn == Rating(r, n)                 bo == Rating(r, o)
           km == r.candidates[m].confirmed     kn == r.candidates[n].confirmed
           ko == r.candidates[o].confirmed     cm == r.candidates[m].career
           cn == r.candidates[n].career        co == r.candidates[o].career
<1>1. /\ sm \in Int /\ sn \in Int /\ so \in Int /\ bm \in Int /\ bn \in Int /\ bo \in Int
      /\ km \in Int /\ kn \in Int /\ ko \in Int /\ cm \in Int /\ cn \in Int /\ co \in Int
      /\ m \in Int /\ n \in Int /\ o \in Int
  BY KeysAreNumbers
<1> DEFINE Lex(s, b, k, c, i, t, d, l, e, j) ==
      \/ s > t
      \/ s = t /\ b > d
      \/ s = t /\ b = d /\ (k > l \/ (k = l /\ c > e) \/ (k = l /\ c = e /\ i < j))
<1>12. Distinct(r, {m, n}) /\ Distinct(r, {n, m}) /\ Distinct(r, {n, o}) /\ Distinct(r, {m, o})
  BY DEF Distinct
<1>2. Beats(r, m, n) <=> Lex(sm, bm, km, cm, m, sn, bn, kn, cn, n)
  BY <1>12, BeatsByKeys
<1>3. Beats(r, n, m) <=> Lex(sn, bn, kn, cn, n, sm, bm, km, cm, m)
  BY <1>12, BeatsByKeys
<1>4. Beats(r, n, o) <=> Lex(sn, bn, kn, cn, n, so, bo, ko, co, o)
  BY <1>12, BeatsByKeys
<1>5. Beats(r, m, o) <=> Lex(sm, bm, km, cm, m, so, bo, ko, co, o)
  BY <1>12, BeatsByKeys
<1> HIDE DEF sm, sn, so, bm, bn, bo, km, kn, ko, cm, cn, co
<1>6. \/ m = n
      \/ Lex(sm, bm, km, cm, m, sn, bn, kn, cn, n)
      \/ Lex(sn, bn, kn, cn, n, sm, bm, km, cm, m)
  BY <1>1
<1>7. Lex(sm, bm, km, cm, m, sn, bn, kn, cn, n) /\ Lex(sn, bn, kn, cn, n, so, bo, ko, co, o)
        => Lex(sm, bm, km, cm, m, so, bo, ko, co, o)
  BY <1>1
<1> HIDE DEF Lex
<1> QED BY <1>2, <1>3, <1>4, <1>5, <1>6, <1>7

\* Beating somebody is outranking him: the first key in which they differ decides.
LEMMA BeatsOutranks ==
  ASSUME NEW r, IsRanking(r),
         NEW m \in DOMAIN r.candidates, NEW n \in DOMAIN r.candidates,
         Distinct(r, {m, n}), Beats(r, m, n)
  PROVE  Outranks(r, m, n)
<1> DEFINE keys == <<"score", "bayes", "confirmed", "career">>
           a == Rated(r, m)
           b == Rated(r, n)
           differ == {i \in 1..4 : a[keys[i]] # b[keys[i]]}
<1>1. /\ a[keys[1]] = Score(r, m) /\ a[keys[2]] = Rating(r, m)
      /\ a[keys[3]] = r.candidates[m].confirmed /\ a[keys[4]] = r.candidates[m].career
  BY DEF Rated
<1>2. /\ b[keys[1]] = Score(r, n) /\ b[keys[2]] = Rating(r, n)
      /\ b[keys[3]] = r.candidates[n].confirmed /\ b[keys[4]] = r.candidates[n].career
  BY DEF Rated
<1>3. Outranks(r, m, n) <=>
        IF differ = {} THEN m < n
        ELSE a[keys[Min(differ)]] > b[keys[Min(differ)]]
  BY DEF Outranks
<1> DEFINE A(i) == a[keys[i]]
           B(i) == b[keys[i]]
<1>4. \A i \in 1..4 : A(i) \in Int /\ B(i) \in Int
  <2>1. /\ A(1) \in Int /\ A(2) \in Int /\ A(3) \in Int /\ A(4) \in Int
        /\ B(1) \in Int /\ B(2) \in Int /\ B(3) \in Int /\ B(4) \in Int
    BY <1>1, <1>2, KeysAreNumbers
  <2>2. \A i \in 1..4 : i = 1 \/ i = 2 \/ i = 3 \/ i = 4
    OBVIOUS
  <2> HIDE DEF A, B
  <2> QED BY <2>1, <2>2
<1>5. \/ A(1) > B(1)
      \/ A(1) = B(1) /\ A(2) > B(2)
      \/ A(1) = B(1) /\ A(2) = B(2) /\ A(3) > B(3)
      \/ A(1) = B(1) /\ A(2) = B(2) /\ A(3) = B(3) /\ A(4) > B(4)
      \/ A(1) = B(1) /\ A(2) = B(2) /\ A(3) = B(3) /\ A(4) = B(4) /\ m < n
  <2> HIDE DEF a, b, keys
  <2> QED BY <1>1, <1>2, BeatsByKeys
<1>6. differ = {i \in 1..4 : A(i) # B(i)}
  OBVIOUS
<1>7. Outranks(r, m, n) <=>
        IF differ = {} THEN m < n ELSE A(Min(differ)) > B(Min(differ))
  BY <1>3
<1> HIDE DEF A, B, differ, a, b, keys
<1>8. ASSUME NEW i \in 1..4, A(i) > B(i), \A j \in 1..4 : j < i => A(j) = B(j)
      PROVE  Outranks(r, m, n)
  <2>1. differ \in SUBSET Int
    BY <1>6
  <2>2. i \in differ
    BY <1>4, <1>6, <1>8
  <2>3. \A j \in differ : i <= j
    BY <1>6, <1>8
  <2>4. Min(differ) = i
    BY <2>1, <2>2, <2>3, LeastIsMin
  <2> QED BY <1>7, <1>8, <2>2, <2>4
<1>9. CASE A(1) > B(1)
  <2>1. \A j \in 1..4 : ~(j < 1)
    OBVIOUS
  <2> QED BY <1>8, <1>9, <2>1
<1>10. CASE A(1) = B(1) /\ A(2) > B(2)
  <2>1. \A j \in 1..4 : j < 2 => j = 1
    OBVIOUS
  <2> QED BY <1>8, <1>10, <2>1
<1>11. CASE A(1) = B(1) /\ A(2) = B(2) /\ A(3) > B(3)
  <2>1. \A j \in 1..4 : j < 3 => j = 1 \/ j = 2
    OBVIOUS
  <2> QED BY <1>8, <1>11, <2>1
<1>12. CASE A(1) = B(1) /\ A(2) = B(2) /\ A(3) = B(3) /\ A(4) > B(4)
  <2>1. \A j \in 1..4 : j < 4 => j = 1 \/ j = 2 \/ j = 3
    OBVIOUS
  <2> QED BY <1>8, <1>12, <2>1
<1>13. CASE A(1) = B(1) /\ A(2) = B(2) /\ A(3) = B(3) /\ A(4) = B(4) /\ m < n
  <2>1. \A j \in 1..4 : j = 1 \/ j = 2 \/ j = 3 \/ j = 4
    OBVIOUS
  <2>2. differ = {}
    BY <1>6, <1>13, <2>1
  <2> QED BY <1>7, <1>13, <2>2
<1> QED BY <1>5, <1>9, <1>10, <1>11, <1>12, <1>13

\* Nobody is the best before the first is seen; then one whose score every other
\* seen exceeds by at most a tie for each of them, and who beats them if they are
\* distinct.
SeenIn(r) == DOMAIN r.candidates \ r.left

InReach(r, b) ==
  \A n \in SeenIn(r) :
    ~Exceeds(Score(r, n), Score(r, b), (Cardinality(SeenIn(r)) - 1) * OneScore(r))

KeepsBest(r) ==
  /\ r.left \in SUBSET DOMAIN r.candidates
  /\ \/ SeenIn(r) = {} /\ r.best = {}
     \/ \E b \in SeenIn(r) :
          /\ r.best = {b}
          /\ InReach(r, b)
          /\ Distinct(r, SeenIn(r)) => \A n \in SeenIn(r) : b = n \/ Beats(r, b, n)

RankInv ==
  \/ ranked = NotRanking
  \/ ranked.phase = "READ" /\ AreCandidates(ranked.candidates)
  \/ /\ ranked = [phase |-> "PICK", candidates |-> ranked.candidates, mean |-> ranked.mean,
                   rounding |-> ranked.rounding, left |-> ranked.left, best |-> ranked.best]
     /\ IsRanking(ranked)
     /\ KeepsBest(ranked)

\* The comparisons depend only on what was read.
LEMMA SameComparisons ==
  ASSUME NEW r, NEW q,
         q.candidates = r.candidates, q.mean = r.mean, q.rounding = r.rounding
  PROVE  /\ \A x : Score(q, x) = Score(r, x)
         /\ OneScore(q) = OneScore(r)
         /\ \A x, y : Beats(q, x, y) <=> Beats(r, x, y)
         /\ \A S : Distinct(q, S) <=> Distinct(r, S)
<1>1. Computed(q) = Computed(r)
  BY DEF Computed
<1>2. Bayes(q) = Bayes(r) /\ Careers(q) = Careers(r) /\ Confirmed(q) = Confirmed(r)
  BY <1>1 DEF Bayes, Careers, Confirmed
<1>3. \A x : Score(q, x) = Score(r, x)
  BY <1>1, <1>2 DEF Score
<1>4. \A x : Rating(q, x) = Rating(r, x)
  BY DEF Rating
<1>5. OneScore(q) = OneScore(r) /\ OneRating(q) = OneRating(r)
  BY <1>2 DEF OneScore, OneRating
<1>6. \A x, y : Beats(q, x, y) <=> Beats(r, x, y)
  BY <1>3, <1>4, <1>5 DEF Beats
<1>7. \A S : Distinct(q, S) <=> Distinct(r, S)
  BY <1>3, <1>4, <1>5 DEF Distinct
<1> QED BY <1>3, <1>5, <1>6, <1>7

\* What another n - 1 ties are out of reach of, another n are.
LEMMA FurtherOut ==
  ASSUME NEW x \in Int, NEW y \in Int, NEW z \in Int, NEW one \in Nat, NEW k \in Nat,
         k # 0, ~Exceeds(x, y, (k - 1) * one)
  PROVE  /\ ~Exceeds(x, y, k * one)
         /\ ~Exceeds(y, z, one) => ~Exceeds(x, z, k * one)
<1>1. Precision \in Int
  BY SearchConstantsOK
<1>2. k * one = (k - 1) * one + one /\ (k - 1) * one \in Nat /\ k * one \in Nat
  <2>1. PICK j \in Nat : k = j + 1
    <3>1. k - 1 \in Nat /\ k = (k - 1) + 1
      OBVIOUS
    <3> QED BY <3>1
  <2>2. (j + 1) * one = j * one + one /\ j * one \in Nat
    OBVIOUS
  <2>3. k - 1 = j
    BY <2>1
  <2> QED BY <2>1, <2>2, <2>3
<1>3. x * Precision \in Int /\ y * Precision \in Int /\ z * Precision \in Int
  BY <1>1
<1> DEFINE xp == x * Precision   yp == y * Precision   zp == z * Precision
           u == (k - 1) * one    v == k * one
<1>4. xp \in Int /\ yp \in Int /\ zp \in Int /\ u \in Nat /\ v \in Nat /\ v = u + one
  BY <1>2, <1>3
<1>5. ~(xp > yp + u)
  BY DEF Exceeds
<1>6. (Exceeds(x, y, v) <=> xp > yp + v) /\ (Exceeds(y, z, one) <=> yp > zp + one)
      /\ (Exceeds(x, z, v) <=> xp > zp + v)
  BY DEF Exceeds
<1> HIDE DEF xp, yp, zp, u, v
<1>7. ~(xp > yp + v)
  BY <1>4, <1>5
<1>8. ~(yp > zp + one) => ~(xp > zp + v)
  BY <1>4, <1>5
<1> QED BY <1>6, <1>7, <1>8 DEF v

LEMMA OneTurn ==
  ASSUME NEW r, NEW q, IsRanking(r), KeepsBest(r), NEW m \in r.left,
         q.candidates = r.candidates, q.mean = r.mean, q.rounding = r.rounding,
         q.left = r.left \ {m},
         q.best = IF \A n \in r.best : Beats(r, m, n) THEN {m} ELSE r.best
  PROVE  IsRanking(q) /\ KeepsBest(q)
<1>1. IsRanking(q)
  BY DEF IsRanking
<1>2. /\ \A x : Score(q, x) = Score(r, x)
      /\ OneScore(q) = OneScore(r)
      /\ \A x, y : Beats(q, x, y) <=> Beats(r, x, y)
      /\ \A S : Distinct(q, S) <=> Distinct(r, S)
  BY SameComparisons
<1>3. /\ m \in DOMAIN r.candidates /\ m \notin SeenIn(r) /\ SeenIn(q) = SeenIn(r) \cup {m}
      /\ q.left \in SUBSET DOMAIN q.candidates
      /\ SeenIn(r) \subseteq DOMAIN r.candidates
  BY DEF KeepsBest, SeenIn
<1>4. IsFiniteSet(SeenIn(r))
  <2>1. IsFiniteSet(DOMAIN r.candidates)
    BY FS_Subset, SearchConstantsOK DEF IsRanking, AreCandidates
  <2> QED BY <1>3, <2>1, FS_Subset
<1>5. /\ Cardinality(SeenIn(r)) \in Nat
      /\ Cardinality(SeenIn(q)) - 1 = Cardinality(SeenIn(r))
  <2>1. Cardinality(SeenIn(r)) \in Nat
    BY <1>4, FS_CardinalityType
  <2>2. Cardinality(SeenIn(q)) = Cardinality(SeenIn(r)) + 1
    BY <1>3, <1>4, FS_AddElement
  <2> QED BY <2>1, <2>2
<1>6. OneScore(r) \in Nat
  BY UnitsArePositive
<1>7. \A x \in DOMAIN r.candidates : Score(r, x) \in Int
  BY KeysAreNumbers
<1>8. CASE SeenIn(r) = {} /\ r.best = {}
  <2>1. SeenIn(q) = {m}
    BY <1>3, <1>8
  <2>2. q.best = {m}
    BY <1>8
  <2>3. \A n \in SeenIn(q) : m = n \/ Beats(q, m, n)
    BY <2>1
  <2>4. Cardinality(SeenIn(q)) - 1 = 0
    BY <1>5, <1>8, FS_EmptySet
  <2>5. 0 * OneScore(r) = 0
    BY <1>6
  <2>6. ~Exceeds(Score(r, m), Score(r, m), 0)
    BY <1>3, <1>7, ExceedsIsGreater
  <2>7. InReach(q, m)
    BY <1>2, <2>1, <2>4, <2>5, <2>6 DEF InReach
  <2> QED BY <1>1, <1>3, <2>1, <2>2, <2>3, <2>7 DEF KeepsBest
<1>9. ASSUME NEW b \in SeenIn(r), r.best = {b}, InReach(r, b),
             Distinct(r, SeenIn(r)) => \A n \in SeenIn(r) : b = n \/ Beats(r, b, n)
      PROVE  KeepsBest(q)
  <2>1. b \in DOMAIN r.candidates /\ b # m
    BY <1>3
  <2> DEFINE k == Cardinality(SeenIn(r))
  <2>2. k \in Nat /\ k # 0 /\ k = Cardinality(SeenIn(q)) - 1
    BY <1>4, <1>5, FS_EmptySet
  <2> HIDE DEF k
  <2>3. \A n \in SeenIn(r) : ~Exceeds(Score(r, n), Score(r, b), (k - 1) * OneScore(r))
    BY <1>9 DEF InReach, k
  <2>4. \A n \in SeenIn(r) :
          /\ ~Exceeds(Score(r, n), Score(r, b), k * OneScore(r))
          /\ ~Exceeds(Score(r, b), Score(r, m), OneScore(r))
               => ~Exceeds(Score(r, n), Score(r, m), k * OneScore(r))
    BY <1>3, <1>6, <1>7, <2>1, <2>2, <2>3, FurtherOut
  <2>5. Distinct(q, SeenIn(q)) =>
          /\ \A n \in SeenIn(r) : b = n \/ Beats(r, b, n)
          /\ \A n \in SeenIn(r) : Distinct(r, {m, b, n})
    BY <1>2, <1>3, <1>9 DEF Distinct
  <2>6. k * OneScore(r) \in Nat /\ (k - 1) * OneScore(r) \in Nat
    <3>3. \A i \in Nat : i # 0 => i - 1 \in Nat
      OBVIOUS
    <3>1. k - 1 \in Nat
      BY <2>2, <3>3, Zenon
    <3>2. \A i, j \in Nat : i * j \in Nat
      OBVIOUS
    <3> QED BY <1>6, <2>2, <3>1, <3>2
  <2>7. CASE Beats(r, m, b)
    <3>1. q.best = {m}
      BY <1>9, <2>7
    <3>2. Distinct(q, SeenIn(q)) => \A n \in SeenIn(q) : m = n \/ Beats(r, m, n)
      BY <1>3, <2>1, <2>5, <2>7, BeatsIsOrder
    <3>3. ~Exceeds(Score(r, b), Score(r, m), OneScore(r))
      BY <1>3, <1>6, <1>7, <2>1, <2>7, ExceedsIsGreater DEF Beats, Ties
    <3>4. ~Exceeds(Score(r, m), Score(r, m), k * OneScore(r))
      BY <1>3, <1>7, <2>6, ExceedsIsGreater
    <3>5. InReach(q, m)
      <4>1. \A n \in SeenIn(q) : ~Exceeds(Score(r, n), Score(r, m), k * OneScore(r))
        BY <1>3, <2>4, <3>3, <3>4
      <4>2. \A n \in SeenIn(q) : ~Exceeds(Score(q, n), Score(q, m), k * OneScore(q))
        BY <1>2, <4>1
      <4> QED BY <2>2, <4>2, Zenon DEF InReach
    <3> QED BY <1>2, <1>3, <3>1, <3>2, <3>5 DEF KeepsBest
  <2>8. CASE ~Beats(r, m, b)
    <3>1. q.best = {b}
      BY <1>9, <2>8
    <3>2. Distinct(q, SeenIn(q)) => Beats(r, b, m)
      BY <1>3, <2>1, <2>5, <2>8, BeatsIsOrder
    <3>3. Distinct(q, SeenIn(q)) => \A n \in SeenIn(q) : b = n \/ Beats(r, b, n)
      BY <1>3, <2>5, <3>2
    <3>4. ~Exceeds(Score(r, m), Score(r, b), k * OneScore(r))
      <4>1. ~Exceeds(Score(r, m), Score(r, b), OneScore(r))
        BY <2>8 DEF Beats
      <4>2. ~Exceeds(Score(r, m), Score(r, m), (k - 1) * OneScore(r))
        BY <1>3, <1>7, <2>6, ExceedsIsGreater
      <4> QED BY <1>3, <1>6, <1>7, <2>1, <2>2, <4>1, <4>2, FurtherOut
    <3>5. InReach(q, b)
      <4>1. \A n \in SeenIn(q) : ~Exceeds(Score(r, n), Score(r, b), k * OneScore(r))
        BY <1>3, <2>4, <3>4
      <4>2. \A n \in SeenIn(q) : ~Exceeds(Score(q, n), Score(q, b), k * OneScore(q))
        BY <1>2, <4>1
      <4> QED BY <2>2, <4>2, Zenon DEF InReach
    <3> QED BY <1>2, <1>3, <3>1, <3>3, <3>5 DEF KeepsBest
  <2> QED BY <2>7, <2>8
<1> QED BY <1>1, <1>8, <1>9 DEF KeepsBest

LEMMA RankingExcept ==
  ASSUME NEW r, NEW k, NEW e,
         r = [phase |-> "PICK", candidates |-> r.candidates, mean |-> r.mean,
              rounding |-> r.rounding, left |-> r.left, best |-> r.best]
  PROVE  [r EXCEPT !.left = k, !.best = e]
           = [phase |-> "PICK", candidates |-> r.candidates, mean |-> r.mean,
              rounding |-> r.rounding, left |-> k, best |-> e]
<1>1. ASSUME NEW c, NEW a, NEW g, NEW l, NEW b,
             r = [phase |-> "PICK", candidates |-> c, mean |-> a, rounding |-> g, left |-> l, best |-> b]
      PROVE  [r EXCEPT !.left = k, !.best = e]
               = [phase |-> "PICK", candidates |-> c, mean |-> a, rounding |-> g, left |-> k, best |-> e]
  <2>1. [r EXCEPT !.left = k, !.best = e] = [[r EXCEPT !.left = k] EXCEPT !.best = e]
    BY <1>1
  <2>2. [r EXCEPT !.left = k]
          = [phase |-> "PICK", candidates |-> c, mean |-> a, rounding |-> g, left |-> k, best |-> b]
    BY <1>1
  <2>3. [[phase |-> "PICK", candidates |-> c, mean |-> a, rounding |-> g, left |-> k, best |-> b] EXCEPT !.best = e]
          = [phase |-> "PICK", candidates |-> c, mean |-> a, rounding |-> g, left |-> k, best |-> e]
    OBVIOUS
  <2> QED BY <2>1, <2>2, <2>3
<1> QED BY <1>1

LEMMA RankNext ==
  ASSUME SearchInv, RankInv, [SearchNext]_searchVars
  PROVE  RankInv'
<1> USE DEF NotRanking
<1>1. CASE ListRankCandidates
  <2> DEFINE c == [m \in ListedMovers |-> row[m]]
  <2>1. ListedMovers # {} /\ ListedMovers \in SUBSET Movers
    BY <1>1 DEF ListRankCandidates, ListedMovers
  <2>2. \A m \in ListedMovers : row[m] \in Profiles
    BY DEF ListedMovers, SearchInv, SearchTypeOK
  <2>3. AreCandidates(c)
    BY <2>1, <2>2 DEF AreCandidates
  <2>4. ranked' = [phase |-> "READ", candidates |-> c]
    BY <1>1 DEF ListRankCandidates
  <2> HIDE DEF c
  <2> QED BY <2>3, <2>4 DEF RankInv
<1>2. CASE ReadMean
  <2>1. ranked.phase = "READ"
    BY <1>2 DEF ReadMean
  <2>2. AreCandidates(ranked.candidates)
    BY <2>1 DEF RankInv
  <2>7. PICK others \in Elsewhere :
          \E g \in Roundings(ranked.candidates, ReviewedMean(others)) :
            ranked' = [phase |-> "PICK", candidates |-> ranked.candidates,
                       mean |-> ReviewedMean(others), rounding |-> g,
                       left |-> DOMAIN ranked.candidates, best |-> {}]
    BY <1>2 DEF ReadMean
  <2>3. PICK g \in Roundings(ranked.candidates, ReviewedMean(others)) :
          ranked' = [phase |-> "PICK", candidates |-> ranked.candidates,
                     mean |-> ReviewedMean(others), rounding |-> g,
                     left |-> DOMAIN ranked.candidates, best |-> {}]
    BY <2>7
  <2>4. IsMean(ReviewedMean(others))
    BY MeanIsNumber DEF SearchInv
  <2>6. g \in [DOMAIN ranked.candidates -> Int]
    BY SearchConstantsOK DEF Roundings
  <2>5. IsRanking(ranked') /\ KeepsBest(ranked')
    BY <2>2, <2>3, <2>4, <2>6 DEF IsRanking, KeepsBest, SeenIn
  <2> QED BY <2>3, <2>5 DEF RankInv
<1>3. CASE PickBestMover
  <2>1. ranked.phase = "PICK"
    BY <1>3 DEF PickBestMover
  <2>2. /\ ranked = [phase |-> "PICK", candidates |-> ranked.candidates, mean |-> ranked.mean,
                     rounding |-> ranked.rounding, left |-> ranked.left, best |-> ranked.best]
        /\ IsRanking(ranked) /\ KeepsBest(ranked)
    BY <2>1 DEF RankInv
  <2>3. PICK m \in ranked.left :
          ranked' = [ranked EXCEPT !.left = @ \ {m},
                       !.best = IF \A n \in @ : Beats(ranked, m, n) THEN {m} ELSE @]
    BY <1>3 DEF PickBestMover
  <2> DEFINE best == IF \A n \in ranked.best : Beats(ranked, m, n) THEN {m} ELSE ranked.best
  <2>4. ranked' = [phase |-> "PICK", candidates |-> ranked.candidates, mean |-> ranked.mean,
                   rounding |-> ranked.rounding, left |-> ranked.left \ {m}, best |-> best]
    <3>1. ranked' = [ranked EXCEPT !.left = ranked.left \ {m}, !.best = best]
      BY <2>3, Zenon
    <3> DEFINE rest == ranked.left \ {m}
    <3> HIDE DEF best, rest
    <3>2. [ranked EXCEPT !.left = rest, !.best = best]
            = [phase |-> "PICK", candidates |-> ranked.candidates, mean |-> ranked.mean,
               rounding |-> ranked.rounding, left |-> rest, best |-> best]
      <4>1. ranked = [phase |-> "PICK", candidates |-> ranked.candidates, mean |-> ranked.mean,
                      rounding |-> ranked.rounding, left |-> ranked.left, best |-> ranked.best]
        BY <2>2
      <4> QED BY <4>1, RankingExcept, Zenon
    <3> QED BY <3>1, <3>2 DEF rest
  <2>5. /\ ranked'.candidates = ranked.candidates /\ ranked'.mean = ranked.mean
        /\ ranked'.rounding = ranked.rounding
        /\ ranked'.left = ranked.left \ {m} /\ ranked'.best = best
    <3> HIDE DEF best
    <3> QED BY <2>4
  <2>6. IsRanking(ranked') /\ KeepsBest(ranked')
    BY <2>2, <2>5, OneTurn
  <2> HIDE DEF best
  <2> QED BY <2>4, <2>5, <2>6 DEF RankInv
<1>4. CASE ShowRecommendation
  BY <1>4 DEF ShowRecommendation, RankInv
<1>5. CASE UNCHANGED ranked
  BY <1>5 DEF RankInv
<1> QED
  BY <1>1, <1>2, <1>3, <1>4, <1>5
  DEF SearchNext, searchVars, OpenSearch, ListByFilters, ShowPage, CloseSearch,
      RowChanges

LEMMA KeptIsPicked ==
  ASSUME RankInv
  PROVE  BestIsPicked
<1> SUFFICES ASSUME ranked.phase = "PICK" PROVE BestIsPicked
  BY DEF BestIsPicked
<1>1. IsRanking(ranked) /\ KeepsBest(ranked)
  BY DEF RankInv, NotRanking
<1>2. CASE SeenIn(ranked) = {} /\ ranked.best = {}
  BY <1>2 DEF SeenIn, BestIsPicked
<1>3. ASSUME NEW b \in SeenIn(ranked), ranked.best = {b}, InReach(ranked, b),
             Distinct(ranked, SeenIn(ranked)) =>
               \A n \in SeenIn(ranked) : b = n \/ Beats(ranked, b, n)
      PROVE  BestIsPicked
  <2>1. Cardinality({b}) = 1
    BY FS_Singleton
  <2>2. SeenIn(ranked) \subseteq DOMAIN ranked.candidates
    BY DEF SeenIn
  <2>3. Distinct(ranked, SeenIn(ranked)) =>
          \A n \in SeenIn(ranked) : b = n \/ Outranks(ranked, b, n)
    <3> SUFFICES ASSUME Distinct(ranked, SeenIn(ranked)), NEW n \in SeenIn(ranked), b # n
                 PROVE  Outranks(ranked, b, n)
      OBVIOUS
    <3>1. Distinct(ranked, {b, n})
      BY DEF Distinct
    <3> QED BY <1>1, <1>3, <2>2, <3>1, BeatsOutranks
  <2>4. \A n \in SeenIn(ranked) :
          ~Exceeds(Score(ranked, n), Score(ranked, b),
                   (Cardinality(SeenIn(ranked)) - 1) * OneScore(ranked))
    BY <1>3 DEF InReach
  <2> QED BY <1>3, <2>1, <2>3, <2>4 DEF SeenIn, BestIsPicked
<1> QED BY <1>1, <1>2, <1>3 DEF KeepsBest

\* For any figures, any precision and any order in which the candidates are read, the
\* loop ends with one mover.  If no two of those read differ by less than the precision
\* in score or in rating, it is the first of them by score, rating, confirmations,
\* career and id; if some do, nobody's score is further above his than one tie for
\* each other candidate (mover-ai.rank.ts: pickBestMover).
THEOREM SearchPicksBest == SearchSpec => []BestIsPicked
<1>1. SearchInit => SearchInv /\ RankInv
  BY SearchInvInit DEF SearchInit, RankInv
<1>2. SearchInv /\ RankInv /\ [SearchNext]_searchVars => SearchInv' /\ RankInv'
  BY SearchInvNext, RankNext
<1>3. RankInv => BestIsPicked
  BY KeptIsPicked
<1> QED BY <1>1, <1>2, <1>3, PTL DEF SearchSpec

=============================================================================
