-------------------------------- MODULE Lists --------------------------------
(***************************************************************************)
(* A client that reads a list page after page: notifications, chat rooms,  *)
(* messages, reviews, estimates, a mover's incoming requests.  All of them *)
(* hand out the id of a row as the cursor and ask Prisma for what follows  *)
(* that row, which meanwhile may have moved, left the list or be deleted.  *)
(* The list of movers has a cursor of its own: module MoverSearch.         *)
(***************************************************************************)
EXTENDS Integers, FiniteSets

CONSTANTS
  Rows,       \* of the table
  Bare,       \* notifications whose origin is gone: read, but not shown
  Take,       \* take
  MaxPlace,   \* bound of the model: places in the order
  None        \* no row

ASSUME ListConstantsOK ==
  /\ IsFiniteSet(Rows) /\ None \notin Rows
  /\ Bare \subseteq Rows
  /\ Take \in Nat \ {0}
  /\ MaxPlace \in Nat

VARIABLES
  kind,       \* which list
  status,     \* by row: NONE, IN the list, OUT of what is asked for, GONE
  place,      \* by row: where it stands in the order, what comes first highest
  cursor,     \* the row after which to go on, or None
  more,       \* the client may ask for another page
  times,      \* history of the reading: how often each row was shown (2: or more),
  touched,    \* the rows that moved, came or went,
  fell,       \* the rows that were shown and then moved down,
  lost,       \* the cursor's row moved or went while it was the cursor,
  rose        \* and moved up

rowVars  == <<status, place>>
readVars == <<cursor, more, times>>
vars == <<kind, rowVars, readVars, touched, fell, lost, rose>>

\* What the order and the condition of each list let happen.  The incoming requests
\* are ordered by id, or by a date alone, which several may share; in the other
\* orders the id decides between equal times, so that a place has one row.
Kinds    == {"NOTIFICATIONS", "ROOMS", "MESSAGES", "REVIEWS", "ESTIMATES",
             "REQUESTS", "REQUESTS_BY_DATE"}
Moving   == {"NOTIFICATIONS", "ROOMS"}
Filtered == Kinds \ {"ROOMS", "MESSAGES"}
DateOnly == {"REQUESTS_BY_DATE"}

Places == 1..MaxPlace

TypeOK ==
  /\ kind \in Kinds
  /\ status \in [Rows -> {"NONE", "IN", "OUT", "GONE"}]
  /\ place \in [Rows -> {0} \cup Places]
  /\ cursor \in Rows \cup {None}
  /\ more \in BOOLEAN
  /\ times \in [Rows -> 0..2]
  /\ touched \in SUBSET Rows /\ fell \in SUBSET Rows
  /\ lost \in BOOLEAN /\ rose \in BOOLEAN

Init ==
  /\ kind \in Kinds
  /\ status = [r \in Rows |-> "NONE"]
  /\ place = [r \in Rows |-> 0]
  /\ cursor = None
  /\ more = FALSE
  /\ times = [r \in Rows |-> 0]
  /\ touched = Rows   \* there is no reading yet
  /\ fell = {}
  /\ lost = FALSE /\ rose = FALSE

-----------------------------------------------------------------------------
(* Reading.                                                                *)

Listed == {r \in Rows : status[r] = "IN"}

\* Prisma compares with the present place of the cursor's row, whether or not
\* the row is still asked for; a row that is deleted has none.
From(c) == {r \in Listed : c = None \/ (status[c] # "GONE" /\ place[r] <= place[c])}

\* What a query may return as the first n of S: rows that share a place come in
\* any order, and in another one in the next query.
Firsts(S, n) ==
  {P \in SUBSET S : /\ \A r \in P, x \in S \ P : place[r] >= place[x]
                    /\ Cardinality(P) <= n
                    /\ P # S => Cardinality(P) = n}

\* Where the order has no unique field, Prisma looks for the cursor's row itself
\* and passes over what comes before: rows tied with it, or all if it is not there.
UpToCursor(c) ==
  IF c \in Listed THEN {P \in SUBSET From(c) : c \in P /\ \A r \in P : place[r] = place[c]}
                  ELSE {From(c)}

\* skip: 1 passes over the first one, whatever it is.
Skipped(c) ==
  IF c = None THEN {{}}
              ELSE Firsts(From(c), 1) \cup (IF kind \in DateOnly THEN UpToCursor(c) ELSE {})

\* A mutant: the page begins with the cursor's row.
AfterWithCursor(c) == {From(c)}

After(c) == {From(c) \ P : P \in Skipped(c)}

\* take + 1 rows tell that there are more; the lists of estimates and requests
\* return no more than a page, and the client asks until one is short.
FullPageMeansMore(found, page) == Cardinality(page) = Take
OneMoreWasFound(found, page)   == found # page

HasNext(found, page) ==
  IF kind \in {"ESTIMATES", "REQUESTS", "REQUESTS_BY_DATE"}
  THEN FullPageMeansMore(found, page)
  ELSE OneMoreWasFound(found, page)

\* toItem makes nothing of a row without its origin.
Shown(page) == IF kind = "NOTIFICATIONS" THEN page \ Bare ELSE page

\* A mutant: the cursor is the last item shown.
LastItem(page) == Shown(page)

\* The next cursor is among the rows read, also those that are not shown.
CursorRows(page) == page

Again(n) == IF n < 2 THEN n + 1 ELSE n

NextPage ==
  /\ more
  /\ \E rest \in After(cursor) : \E found \in Firsts(rest, Take + 1) :
     \E page \in Firsts(found, Take) :
       /\ more' = (HasNext(found, page) /\ CursorRows(page) # {})
       /\ \/ /\ more'
             /\ \E last \in CursorRows(page) :
                  /\ \A r \in CursorRows(page) : place[last] <= place[r]
                  /\ cursor' = last
          \/ ~more' /\ cursor' = None
       /\ times' = [r \in Rows |-> IF r \in Shown(page) THEN Again(times[r]) ELSE times[r]]
  /\ UNCHANGED <<kind, rowVars, touched, fell, lost, rose>>

\* The client opens the list, or begins anew.
Open ==
  /\ cursor' = None
  /\ more' = TRUE
  /\ times' = [r \in Rows |-> 0]
  /\ touched' = {} /\ fell' = {}
  /\ lost' = FALSE /\ rose' = FALSE
  /\ UNCHANGED <<kind, rowVars>>

-----------------------------------------------------------------------------
(* What happens to the rows meanwhile.                                     *)

Touches(r) ==
  /\ touched' = touched \cup {r}
  /\ lost' = (lost \/ r = cursor)
  /\ UNCHANGED <<kind, readVars>>

\* Ids may commit in another order than they were given, and dates come in any
\* order: a row may stand anywhere.
TakesPlace(r, p) ==
  /\ kind \in DateOnly \/ \A x \in Rows \ {r} : status[x] # "NONE" => place[x] # p
  /\ place' = [place EXCEPT ![r] = p]

\* Asked for from the start, or not yet: a review before it is paid for.
Asked == {"IN"} \cup {s \in {"OUT"} : kind \in Filtered}

Appears(r) ==
  /\ status[r] = "NONE"
  /\ \E s \in Asked : status' = [status EXCEPT ![r] = s]
  /\ \E p \in Places : TakesPlace(r, p)
  /\ Touches(r)
  /\ UNCHANGED <<fell, rose>>

\* A message gives the room and its one notification the time of the message,
\* which of two concurrent ones need not be the later one.
Moves(r) ==
  /\ kind \in Moving
  /\ status[r] \in {"IN", "OUT"}
  /\ \E s \in Asked : status' = [status EXCEPT ![r] = s]
  /\ \E p \in Places \ {place[r]} :
       /\ TakesPlace(r, p)
       /\ rose' = (rose \/ (r = cursor /\ p > place[r]))
       /\ fell' = fell \cup {x \in {r} : times[x] > 0 /\ p < place[x]}
  /\ Touches(r)

\* It is read, written, paid or answered, or a cancellation undoes that.
Leaves(r) ==
  /\ kind \in Filtered
  /\ status[r] \in {"IN", "OUT"}
  /\ status' = [status EXCEPT ![r] = IF @ = "IN" THEN "OUT" ELSE "IN"]
  /\ Touches(r)
  /\ UNCHANGED <<place, fell, rose>>

\* By its owner, or with the account of one of the two sides.
IsDeleted(r) ==
  /\ status[r] \in {"IN", "OUT"}
  /\ status' = [status EXCEPT ![r] = "GONE"]
  /\ Touches(r)
  /\ UNCHANGED <<place, fell, rose>>

Next ==
  \/ Open \/ NextPage
  \/ \E r \in Rows : Appears(r) \/ Moves(r) \/ Leaves(r) \/ IsDeleted(r)

Spec == Init /\ [][Next]_vars

-----------------------------------------------------------------------------
(* Safety.                                                                 *)

Passed(r) == ~more \/ (cursor # None /\ place[r] >= place[cursor])

\* Another row has the same place: only where a date alone is the order.
Tied(r) == \E x \in Rows \ {r} : status[x] # "NONE" /\ place[x] = place[r]

Unshown == IF kind = "NOTIFICATIONS" THEN Bare ELSE {}

\* As long as the row that serves as cursor stays where it is, a reading shows each
\* row that stayed in the list exactly once, whatever else comes, goes or moves
\* (listArgs, paginate, notificationService.list: skip 1, take + 1, the cursor of
\* the last row read).  Incoming requests with the same moving date are excepted:
\* getMoverRequests does not order them by id, and pages miss or repeat them.
ReadingIsComplete ==
  ~lost => \A r \in Listed \ (touched \cup Unshown) :
    ~Tied(r) => times[r] = IF Passed(r) THEN 1 ELSE 0

\* Also when the row of the cursor left the list, moved down or was deleted, no row
\* is shown a second time, except one that moved down itself after it was shown (a
\* room that an older message reached last) and requests that share a moving date.
\* Only a cursor that moved up brings the other rows again.
ShownOnce == ~rose => \A r \in Rows \ fell : ~Tied(r) => times[r] <= 1

=============================================================================
