------------------------- MODULE Reputation_proofs -------------------------
(***************************************************************************)
(* Proofs about Reputation, for any number of customers, movers, reviews   *)
(* and calls: the figures of a profile are those of the rows they stand    *)
(* for, and no review has more photos than the limit.                      *)
(*                                                                         *)
(* A transaction on a review computes the average of the reviews it read   *)
(* when it began.  The argument says what a transaction that is not yet    *)
(* defeated still knows about the rows (Knows), and that a step either     *)
(* leaves those rows as they are or defeats the transaction (StillOpen).   *)
(* The average itself is never computed: that two functions of stars are   *)
(* equal is all that is used of it.                                        *)
(***************************************************************************)
EXTENDS Reputation, FiniteSetTheorems, TLAPS

\* Averages that occur; what the sum of some stars is plays no role.
Averages == {0} \cup {Average(stars) : stars \in StarsOfSome}

Figures == [exists : {TRUE}, avgRating : Averages, reviewCount : Nat,
            favoriteCount : Int, career : 0..MaxCareer]

TypedProfiles == {Gone} \cup Figures

RowsOK ==
  /\ review \in [Reviews -> ReviewRows]
  /\ \A r \in Reviews : review[r].status = "CONFIRMED" => review[r].rating \in Ratings
  /\ favorite \subseteq Customers \X Movers
  /\ profile \in [Movers -> TypedProfiles]
  /\ call \in [Calls -> CallStates]

Open(t) == t.op \in {"WRITING", "CHANGING"} /\ ~t.stale

\* The stars of r's mover once r has so many.
StarsWith(r, rating) ==
  [x \in ConfirmedOf(About[r]) \cup {r} |-> IF x = r THEN rating ELSE review[x].rating]

\* What a transaction that may commit knows.
Knows(t) ==
  Open(t) =>
    LET r == t.of.review IN
    /\ t.op = "WRITING" =>
         /\ review[r].status = IF t.of.op = "WRITE" THEN "PENDING" ELSE "CONFIRMED"
         /\ t.stars = StarsWith(r, t.of.rating)
    /\ t.op = "CHANGING" =>
         /\ review[r] # Deleted
         /\ IF t.of.op = "ADD" THEN review[r].images < MaxImages ELSE review[r].images > 0

TransactionsKnow == \A k \in Calls : Knows(call[k])

\* The inductive strengthening.
ReputationInv ==
  /\ RowsOK
  /\ TransactionsKnow
  /\ RatingIsAverage
  /\ FavoriteCountIsExact
  /\ ImagesWithinLimit

\* A step that writes `rows` leaves no transaction open that relies on them.
StillOpen(rows) ==
  \A k \in Calls : Open(call'[k]) =>
    /\ call'[k] = call[k]
    /\ RowsOf(call[k]) \cap rows = {}

CallsKept(rows) == call' \in [Calls -> CallStates] /\ StillOpen(rows)

-----------------------------------------------------------------------------
(* The table of calls.                                                     *)

WritingStates  == [op : {"WRITING"}, of : WriteCalls, stars : StarsOfSome, stale : BOOLEAN]
ChangingStates == [op : {"CHANGING"}, of : PhotoCalls, edits : BOOLEAN, stale : BOOLEAN]
FavoriteStates == [op : {"FAVORITE"}, customer : Customers, movers : SUBSET Movers, bulk : BOOLEAN]

LEMMA StatesByOp ==
  ASSUME NEW t \in CallStates
  PROVE  /\ t.op = "IDLE" => t = Idle
         /\ t.op \in Writes => t \in WriteCalls
         /\ t.op \in Photos => t \in PhotoCalls
         /\ t.op = "WRITING" => t \in WritingStates
         /\ t.op = "CHANGING" => t \in ChangingStates
         /\ t.op = "FAVORITE" => t \in FavoriteStates
         /\ t.op \in {"IDLE", "WRITE", "EDIT", "ADD", "DROP", "WRITING", "CHANGING", "FAVORITE"}
BY DEF CallStates, Idle, Writes, Photos, WriteCalls, PhotoCalls, WritingStates,
       ChangingStates, FavoriteStates

LEMMA StatesOfCalls ==
  /\ Idle \in CallStates /\ ~Open(Idle)
  /\ \A t \in WriteCalls \cup PhotoCalls \cup FavoriteStates : t \in CallStates /\ ~Open(t)
  /\ WritingStates \cup ChangingStates \subseteq CallStates
BY DEF CallStates, Idle, Open, Writes, Photos, WriteCalls, PhotoCalls, WritingStates,
       ChangingStates, FavoriteStates

\* A defeated transaction is still one of the states.
LEMMA StaleState ==
  ASSUME NEW t \in CallStates, t.op \in {"WRITING", "CHANGING"}
  PROVE  [t EXCEPT !.stale = TRUE] \in CallStates /\ ~Open([t EXCEPT !.stale = TRUE])
<1> DEFINE s == [t EXCEPT !.stale = TRUE]
<1>1. CASE t.op = "WRITING"
  <2>1. t \in WritingStates
    BY <1>1, StatesByOp
  <2>2. s \in WritingStates /\ s.stale
    BY <2>1 DEF WritingStates
  <2> HIDE DEF s
  <2>3. s \in CallStates /\ ~Open(s)
    BY <2>2, StatesOfCalls DEF Open
  <2> QED BY <2>3 DEF s
<1>2. CASE t.op = "CHANGING"
  <2>1. t \in ChangingStates
    BY <1>2, StatesByOp
  <2>2. s \in ChangingStates /\ s.stale
    BY <2>1 DEF ChangingStates
  <2> HIDE DEF s
  <2>3. s \in CallStates /\ ~Open(s)
    BY <2>2, StatesOfCalls DEF Open
  <2> QED BY <2>3 DEF s
<1> QED BY <1>1, <1>2

LEMMA CommittedKept ==
  ASSUME RowsOK, NEW rows, NEW own, call' = Committed(rows, own, Idle)
  PROVE  CallsKept(rows)
<1>1. \A k \in Calls : call[k] \in CallStates
  BY DEF RowsOK
<1>2. ASSUME NEW k \in Calls
      PROVE  call'[k] \in CallStates
             /\ (Open(call'[k]) => call'[k] = call[k] /\ RowsOf(call[k]) \cap rows = {})
  <2>1. CASE k \in own
    <3>1. call'[k] = Idle
      BY <2>1 DEF Committed
    <3> QED BY <3>1, StatesOfCalls
  <2>2. CASE k \notin own /\ InTransaction(k) /\ RowsOf(call[k]) \cap rows # {}
    <3>1. call'[k] = [call[k] EXCEPT !.stale = TRUE]
      BY <2>2 DEF Committed
    <3> QED BY <1>1, <2>2, <3>1, StaleState DEF InTransaction
  <2>3. CASE k \notin own /\ ~(InTransaction(k) /\ RowsOf(call[k]) \cap rows # {})
    <3>1. call'[k] = call[k]
      BY <2>3 DEF Committed
    <3> QED BY <1>1, <2>3, <3>1 DEF InTransaction, Open
  <2> QED BY <2>1, <2>2, <2>3
<1>3. call' \in [Calls -> CallStates]
  BY <1>2 DEF Committed
<1> QED BY <1>2, <1>3 DEF CallsKept, StillOpen

\* A call that goes on outside any transaction.
LEMMA GoesOnKept ==
  ASSUME RowsOK, NEW k \in Calls, NEW s \in CallStates, ~Open(s),
         call' = [call EXCEPT ![k] = s]
  PROVE  CallsKept({})
<1>1. call'[k] = s /\ (\A c \in Calls \ {k} : call'[c] = call[c])
      /\ call' \in [Calls -> CallStates]
  BY DEF RowsOK
<1> QED BY <1>1 DEF CallsKept, StillOpen

-----------------------------------------------------------------------------
(* What a step has to leave alone, by the part of the invariant.           *)

\* A transaction that stays open still knows its rows.
LEMMA KnowledgeKept ==
  ASSUME ReputationInv, NEW rows, CallsKept(rows),
         review' \in [Reviews -> ReviewRows],
         \A r \in Reviews : <<"REVIEW", r>> \notin rows /\ review[r].status # "UNPAID" =>
           review'[r].status = review[r].status,
         \A x \in Reviews : <<"PROFILE", About[x]>> \notin rows =>
           /\ review'[x].rating = review[x].rating
           /\ review'[x].status = "CONFIRMED" <=> review[x].status = "CONFIRMED",
         \A r \in Reviews : <<"PHOTOS", r>> \notin rows /\ review[r] # Deleted =>
           review'[r] # Deleted /\ review'[r].images = review[r].images
  PROVE  TransactionsKnow'
<1> SUFFICES ASSUME NEW k \in Calls, Open(call'[k]) PROVE Knows(call[k])'
  BY DEF TransactionsKnow, Knows, Open
<1> DEFINE t == call[k]
           r == t.of.review
<1>1. call'[k] = t /\ Open(t) /\ RowsOf(t) \cap rows = {} /\ t \in CallStates
  BY DEF CallsKept, StillOpen, ReputationInv, RowsOK
<1>2. Knows(t)
  BY DEF ReputationInv, TransactionsKnow
<1>3. CASE t.op = "WRITING"
  <2>1. t \in WritingStates /\ r \in Reviews /\ t.of.rating \in Ratings
    BY <1>1, <1>3, StatesByOp DEF WritingStates, WriteCalls
  <2>2. <<"REVIEW", r>> \notin rows /\ <<"PROFILE", About[r]>> \notin rows
    BY <1>1, <1>3 DEF RowsOf
  <2>3. review'[r].status = review[r].status
    BY <1>1, <1>2, <1>3, <2>1, <2>2 DEF Knows
  <2>4. ASSUME NEW a \in Reviews, NEW rating \in Ratings, <<"PROFILE", About[a]>> \notin rows
        PROVE  StarsWith(a, rating)' = StarsWith(a, rating)
    <3>1. ConfirmedOf(About[a])' = ConfirmedOf(About[a])
      BY <2>4 DEF ConfirmedOf
    <3>2. \A x \in ConfirmedOf(About[a]) : review'[x].rating = review[x].rating
      BY <2>4 DEF ConfirmedOf
    <3> QED BY <3>1, <3>2 DEF StarsWith
  <2>5. ASSUME NEW a \in Reviews, NEW rating \in Ratings, a = r, rating = t.of.rating
        PROVE  Knows(t)'
    <3>1. t.stars = StarsWith(a, rating)'
      BY <1>1, <1>2, <1>3, <2>2, <2>4, <2>5 DEF Knows
    <3> QED BY <1>1, <1>2, <1>3, <2>3, <2>5, <3>1 DEF Knows, Open
  <2> QED BY <2>1, <2>5
<1>4. CASE t.op = "CHANGING"
  <2>1. t \in ChangingStates /\ r \in Reviews
    BY <1>1, <1>4, StatesByOp DEF ChangingStates, PhotoCalls
  <2>2. <<"PHOTOS", r>> \notin rows
    BY <1>1, <1>4 DEF RowsOf
  <2>3. review[r] # Deleted
    BY <1>1, <1>2, <1>4 DEF Knows
  <2> QED BY <1>1, <1>2, <1>4, <2>1, <2>2, <2>3 DEF Knows, Open
<1> QED BY <1>1, <1>3, <1>4 DEF Open

\* Nobody's reviews, stars and figures change.
LEMMA RatingKept ==
  ASSUME ReputationInv,
         \A m \in Movers : profile'[m].exists =>
           /\ profile[m].exists
           /\ profile'[m].avgRating = profile[m].avgRating
           /\ profile'[m].reviewCount = profile[m].reviewCount,
         \A x \in Reviews : profile'[About[x]].exists =>
           /\ review'[x].rating = review[x].rating
           /\ review'[x].status = "CONFIRMED" <=> review[x].status = "CONFIRMED"
  PROVE  RatingIsAverage'
<1> SUFFICES ASSUME NEW m \in Movers, profile'[m].exists
             PROVE  /\ profile'[m].reviewCount = Cardinality(ConfirmedOf(m)')
                    /\ profile'[m].avgRating = Average(StarsOf(ConfirmedOf(m)))'
  BY DEF RatingIsAverage, Existing
<1>1. profile[m].reviewCount = Cardinality(ConfirmedOf(m))
      /\ profile[m].avgRating = Average(StarsOf(ConfirmedOf(m)))
  BY DEF ReputationInv, RatingIsAverage, Existing
<1>2. ConfirmedOf(m)' = ConfirmedOf(m)
  BY DEF ConfirmedOf
<1>3. StarsOf(ConfirmedOf(m))' = StarsOf(ConfirmedOf(m))
  BY <1>2 DEF StarsOf, ConfirmedOf
<1>4. Average(StarsOf(ConfirmedOf(m)))' = Average(StarsOf(ConfirmedOf(m)))
  BY <1>3
<1> QED BY <1>1, <1>2, <1>4

Fans(m) == {c \in Customers : <<c, m>> \in favorite}

LEMMA FavoritesKept ==
  ASSUME ReputationInv,
         \A m \in Movers : profile'[m].exists =>
           /\ profile[m].exists
           /\ profile'[m].favoriteCount = profile[m].favoriteCount
           /\ Fans(m)' = Fans(m)
  PROVE  FavoriteCountIsExact'
BY DEF ReputationInv, FavoriteCountIsExact, Fans, Existing

\* A step that writes none of these tables.
LEMMA RestKeeps ==
  ASSUME ReputationInv, NEW rows, CallsKept(rows), UNCHANGED <<review, favorite, profile>>
  PROVE  ReputationInv'
<1>1. RowsOK'
  BY DEF ReputationInv, RowsOK, CallsKept
<1>2. TransactionsKnow'
  BY KnowledgeKept DEF ReputationInv, RowsOK
<1>3. RatingIsAverage'
  BY RatingKept
<1>4. FavoriteCountIsExact'
  BY FavoritesKept DEF Fans
<1>5. ImagesWithinLimit'
  BY DEF ReputationInv, ImagesWithinLimit
<1> QED BY <1>1, <1>2, <1>3, <1>4, <1>5 DEF ReputationInv

-----------------------------------------------------------------------------
(* Reading and checking.                                                   *)

LEMMA ChecksKeep ==
  ASSUME ReputationInv, NEW k \in Calls,
         \/ \E r \in Reviews :
              \/ \E stars \in Ratings : ReviewCheck(k, r, stars)
              \/ \E op \in Photos : ImageCheck(k, r, op)
         \/ \E c \in Customers :
              \/ \E m \in Movers : FavoriteCheck(k, c, m)
              \/ \E asked \in SUBSET Movers : BulkCheck(k, c, asked)
         \/ Conflict(k) \/ CallEnds(k)
  PROVE  ReputationInv'
<1> DEFINE Outside == {s \in CallStates : ~Open(s)}
<1>1. UNCHANGED <<review, favorite, profile>>
  BY DEF ReviewCheck, ImageCheck, FavoriteCheck, BulkCheck, Conflict, CallEnds
<1>2. RowsOK /\ 1 \in 1..MaxAttempts
  BY ReputationConstantsOK DEF ReputationInv
<1>3. \E s \in Outside : call' = [call EXCEPT ![k] = s]
  <2>1. ASSUME NEW r \in Reviews, NEW stars \in Ratings, ReviewCheck(k, r, stars)
        PROVE  \E s \in Outside : call' = [call EXCEPT ![k] = s]
    <3>1. PICK op \in Writes :
            call' = [call EXCEPT ![k] = [op |-> op, review |-> r, rating |-> stars, n |-> 1]]
      BY <2>1 DEF ReviewCheck, Writes
    <3>2. [op |-> op, review |-> r, rating |-> stars, n |-> 1] \in WriteCalls
      BY <1>2 DEF WriteCalls
    <3> QED BY <3>1, <3>2, StatesOfCalls
  <2>2. ASSUME NEW r \in Reviews, NEW op \in Photos, ImageCheck(k, r, op)
        PROVE  \E s \in Outside : call' = [call EXCEPT ![k] = s]
    <3>1. [op |-> op, review |-> r, n |-> 1] \in PhotoCalls
      BY <1>2 DEF PhotoCalls
    <3> QED BY <2>2, <3>1, StatesOfCalls DEF ImageCheck
  <2>3. ASSUME NEW c \in Customers, NEW movers \in SUBSET Movers, NEW bulk \in BOOLEAN,
               call' = [call EXCEPT ![k] =
                 [op |-> "FAVORITE", customer |-> c, movers |-> movers, bulk |-> bulk]]
        PROVE  \E s \in Outside : call' = [call EXCEPT ![k] = s]
    <3>1. [op |-> "FAVORITE", customer |-> c, movers |-> movers, bulk |-> bulk] \in FavoriteStates
      BY DEF FavoriteStates
    <3> QED BY <2>3, <3>1, StatesOfCalls
  <2>4. ASSUME NEW c \in Customers, NEW m \in Movers, FavoriteCheck(k, c, m)
        PROVE  \E s \in Outside : call' = [call EXCEPT ![k] = s]
    BY <2>3, <2>4 DEF FavoriteCheck
  <2>5. ASSUME NEW c \in Customers, NEW asked \in SUBSET Movers, BulkCheck(k, c, asked)
        PROVE  \E s \in Outside : call' = [call EXCEPT ![k] = s]
    BY <2>3, <2>5 DEF BulkCheck
  <2>6. ASSUME Conflict(k) PROVE \E s \in Outside : call' = [call EXCEPT ![k] = s]
    <3> DEFINE of == call[k].of
    <3>1. call[k] \in WritingStates \cup ChangingStates
      BY <1>2, <2>6, StatesByOp DEF Conflict, InTransaction, RowsOK
    <3>2. of \in WriteCalls \cup PhotoCalls
      BY <3>1 DEF WritingStates, ChangingStates
    <3>3. of.n < MaxAttempts => [of EXCEPT !.n = of.n + 1] \in WriteCalls \cup PhotoCalls
      BY <3>2, ReputationConstantsOK DEF WriteCalls, PhotoCalls
    <3>4. call' = [call EXCEPT ![k] = IF of.n < MaxAttempts THEN [of EXCEPT !.n = of.n + 1] ELSE Idle]
      BY <2>6 DEF Conflict, MayRetry
    <3> HIDE DEF of
    <3>5. CASE of.n < MaxAttempts
      BY <3>3, <3>4, <3>5, StatesOfCalls
    <3>6. CASE ~(of.n < MaxAttempts)
      BY <3>4, <3>6, StatesOfCalls
    <3> QED BY <3>5, <3>6
  <2>7. ASSUME CallEnds(k) PROVE \E s \in Outside : call' = [call EXCEPT ![k] = s]
    BY <2>7, StatesOfCalls DEF CallEnds
  <2> QED BY <2>1, <2>2, <2>4, <2>5, <2>6, <2>7
<1> QED BY <1>1, <1>2, <1>3, GoesOnKept, RestKeeps

\* A transaction begins with what the rows say now.
LEMMA BeginsKeep ==
  ASSUME ReputationInv, NEW k \in Calls, ReviewBegin(k) \/ ImageBegin(k)
  PROVE  ReputationInv'
<1>1. RowsOK /\ call[k] \in CallStates /\ call \in [Calls -> CallStates]
  BY DEF ReputationInv, RowsOK
<1>2. UNCHANGED <<review, favorite, profile>>
  BY DEF ReviewBegin, ImageBegin
<1>3. ASSUME NEW s \in CallStates, Knows(s), call' = [call EXCEPT ![k] = s]
      PROVE  ReputationInv'
  <2>1. call'[k] = s /\ (\A c \in Calls \ {k} : call'[c] = call[c])
        /\ call' \in [Calls -> CallStates]
    BY <1>1, <1>3
  <2>2. RowsOK'
    BY <1>1, <1>2, <2>1 DEF RowsOK
  <2>3. ASSUME NEW c \in Calls PROVE Knows(call[c])'
    <3>1. Knows(call'[c])
      BY <1>3, <2>1 DEF ReputationInv, TransactionsKnow
    <3>2. \A r \in Reviews, rating \in Ratings : StarsWith(r, rating)' = StarsWith(r, rating)
      BY <1>2 DEF StarsWith, ConfirmedOf
    <3>3. call'[c].op = "WRITING" =>
            call'[c].of.review \in Reviews /\ call'[c].of.rating \in Ratings
      BY <2>1, StatesByOp DEF WritingStates, WriteCalls
    <3>4. ASSUME NEW r \in Reviews, NEW rating \in Ratings, call'[c].op = "WRITING",
                 r = call'[c].of.review, rating = call'[c].of.rating, Open(call'[c])
          PROVE  call'[c].stars = StarsWith(r, rating)'
      BY <3>1, <3>2, <3>4 DEF Knows
    <3> QED BY <1>2, <3>1, <3>3, <3>4 DEF Knows, Open
  <2>4. RatingIsAverage' /\ FavoriteCountIsExact' /\ ImagesWithinLimit'
    BY <1>2, RatingKept, FavoritesKept DEF Fans, ReputationInv, ImagesWithinLimit
  <2> QED BY <2>2, <2>3, <2>4 DEF ReputationInv, TransactionsKnow
<1>4. CASE call' = [call EXCEPT ![k] = Idle]
  BY <1>3, <1>4, StatesOfCalls DEF Knows
<1>5. ASSUME ReviewBegin(k), call' # [call EXCEPT ![k] = Idle] PROVE ReputationInv'
  <2> DEFINE c == call[k]
             others == StarsOf(ConfirmedOf(About[c.review]) \ {c.review})
             stars == [r \in DOMAIN others \cup {c.review} |->
                         IF r = c.review THEN c.rating ELSE others[r]]
             s == [op |-> "WRITING", of |-> c, stale |-> FALSE, stars |-> stars]
  <2>1. c \in WriteCalls /\ call' = [call EXCEPT ![k] = s]
        /\ review[c.review].status = IF c.op = "WRITE" THEN "PENDING" ELSE "CONFIRMED"
    BY <1>1, <1>5, StatesByOp DEF ReviewBegin
  <2>2. c.review \in Reviews /\ c.rating \in Ratings
    BY <2>1 DEF WriteCalls
  <2>3. \A r \in ConfirmedOf(About[c.review]) : r \in Reviews /\ review[r].rating \in Ratings
    BY <1>1 DEF ConfirmedOf, RowsOK
  <2>4. DOMAIN others = ConfirmedOf(About[c.review]) \ {c.review}
    BY DEF StarsOf
  <2>5. stars = StarsWith(c.review, c.rating)
    BY <2>4 DEF StarsWith, StarsOf
  <2>6. stars \in StarsOfSome
    <3> DEFINE d == ConfirmedOf(About[c.review]) \cup {c.review}
    <3>1. d \in SUBSET Reviews
      BY <2>2, <2>3
    <3>2. StarsWith(c.review, c.rating) \in [d -> Ratings]
      BY <2>2, <2>3 DEF StarsWith
    <3> HIDE DEF d
    <3> QED BY <2>5, <3>1, <3>2 DEF StarsOfSome
  <2> HIDE DEF stars
  <2>7. s \in WritingStates /\ s.op = "WRITING" /\ s.of = c /\ s.stars = stars
    BY <2>1, <2>6 DEF WritingStates
  <2> HIDE DEF s
  <2>8. Knows(s)
    BY <2>1, <2>5, <2>7 DEF Knows
  <2> QED BY <1>3, <2>1, <2>7, <2>8, StatesOfCalls
<1>6. ASSUME ImageBegin(k), call' # [call EXCEPT ![k] = Idle] PROVE ReputationInv'
  <2> DEFINE c == call[k]
             edits == review[c.review].status = "CONFIRMED"
             s == [op |-> "CHANGING", of |-> c, edits |-> edits, stale |-> FALSE]
  <2>1. c \in PhotoCalls /\ call' = [call EXCEPT ![k] = s] /\ review[c.review] # Deleted
        /\ IF c.op = "ADD" THEN review[c.review].images < MaxImages
                           ELSE review[c.review].images > 0
    BY <1>1, <1>6, StatesByOp DEF ImageBegin, HasRoom
  <2>2. s \in ChangingStates /\ s.op = "CHANGING" /\ s.of = c
    BY <2>1 DEF ChangingStates
  <2> HIDE DEF s
  <2>3. Knows(s)
    BY <2>1, <2>2 DEF Knows
  <2> QED BY <1>3, <2>1, <2>2, <2>3, StatesOfCalls
<1> QED BY <1>4, <1>5, <1>6

-----------------------------------------------------------------------------
(* Commits.                                                                *)

LEMMA ProfileThere ==
  ASSUME NEW p \in TypedProfiles
  PROVE  p.exists <=> p \in Figures
<1>1. ~Gone.exists
  BY DEF Gone
<1>2. \A q \in Figures : q.exists
  BY DEF Figures
<1> QED BY <1>1, <1>2 DEF TypedProfiles

LEMMA ReviewCommitKeeps ==
  ASSUME ReputationInv, NEW k \in Calls, ReviewCommit(k)
  PROVE  ReputationInv'
<1> SUFFICES ASSUME NEW t, t = call[k], NEW r, r = t.of.review, NEW m, m = About[r],
                    NEW rows, rows = RowsOf(t)
             PROVE  ReputationInv'
  OBVIOUS
<1>1. RowsOK /\ t \in CallStates /\ t.op = "WRITING" /\ ~t.stale
  BY DEF ReputationInv, RowsOK, ReviewCommit, Stale
<1>2. t \in WritingStates
  BY <1>1, StatesByOp
<1>3. r \in Reviews /\ m \in Movers /\ t.of.rating \in Ratings /\ t.of.op \in Writes
      /\ t.stars \in StarsOfSome
  BY <1>2, ReputationConstantsOK DEF WritingStates, WriteCalls
<1>4. Open(t) /\ Knows(t)
  BY <1>1 DEF Open, ReputationInv, TransactionsKnow
<1>5. review[r].status = (IF t.of.op = "WRITE" THEN "PENDING" ELSE "CONFIRMED")
      /\ t.stars = StarsWith(r, t.of.rating)
  BY <1>1, <1>4 DEF Knows
<1>6. rows = {<<"REVIEW", r>>, <<"PROFILE", m>>} /\ CallsKept(rows) /\ UNCHANGED favorite
  BY <1>1, CommittedKept DEF ReviewCommit, RowsOf
<1>7. /\ profile[m].exists
      /\ review' = [review EXCEPT ![r].status = "CONFIRMED", ![r].rating = t.of.rating]
      /\ profile' = [profile EXCEPT ![m].avgRating = Average(t.stars),
                                    ![m].reviewCount = @ + ReviewsAdded(t.of.op)]
  BY DEF ReviewCommit
\* The two rows that change.
<1>8. /\ review' \in [Reviews -> ReviewRows]
      /\ review'[r].status = "CONFIRMED" /\ review'[r].rating = t.of.rating
      /\ review'[r].images = review[r].images /\ review'[r] # Deleted
      /\ \A x \in Reviews \ {r} : review'[x] = review[x]
  <2>1. review[r] \in [status : Statuses, rating : Ratings \cup {0}, images : Int]
    BY <1>1, <1>3, <1>5 DEF RowsOK, ReviewRows, Deleted
  <2> DEFINE row == [review[r] EXCEPT !.status = "CONFIRMED", !.rating = t.of.rating]
  <2>2. row \in [status : Statuses, rating : Ratings \cup {0}, images : Int]
        /\ row.status = "CONFIRMED" /\ row.rating = t.of.rating /\ row.images = review[r].images
    BY <1>3, <2>1 DEF Statuses
  <2>3. review' = [review EXCEPT ![r] = row]
    BY <1>1, <1>3, <1>7 DEF RowsOK
  <2> HIDE DEF row
  <2>4. row \in ReviewRows /\ row # Deleted
    BY <2>2 DEF ReviewRows, Deleted
  <2> QED BY <1>1, <1>3, <2>2, <2>3, <2>4 DEF RowsOK
<1>9. /\ profile' \in [Movers -> TypedProfiles]
      /\ profile'[m].exists /\ profile'[m].avgRating = Average(t.stars)
      /\ profile'[m].reviewCount = profile[m].reviewCount + ReviewsAdded(t.of.op)
      /\ profile'[m].favoriteCount = profile[m].favoriteCount
      /\ \A x \in Movers \ {m} : profile'[x] = profile[x]
  <2>1. profile[m] \in Figures /\ profile[m].reviewCount \in Nat
    <3>1. profile[m] \in TypedProfiles
      BY <1>1, <1>3 DEF RowsOK
    <3>2. profile[m] \in Figures
      BY <1>7, <3>1, ProfileThere, Zenon
    <3> QED BY <3>2 DEF Figures
  <2> DEFINE avg == Average(t.stars)
             count == profile[m].reviewCount + ReviewsAdded(t.of.op)
             p == [profile[m] EXCEPT !.avgRating = avg, !.reviewCount = count]
  <2>2. avg \in Averages /\ count \in Nat
    BY <1>3, <2>1 DEF Averages, ReviewsAdded
  <2>3. p \in Figures /\ p.avgRating = avg /\ p.reviewCount = count
        /\ p.favoriteCount = profile[m].favoriteCount
    <3>1. ASSUME NEW old \in Figures, old = profile[m], NEW a \in Averages, a = avg,
                 NEW n \in Nat, n = count
          PROVE  /\ p \in Figures /\ p.avgRating = avg /\ p.reviewCount = count
                 /\ p.favoriteCount = profile[m].favoriteCount
      <4> HIDE DEF avg, count
      <4>1. p = [old EXCEPT !.avgRating = a, !.reviewCount = n]
        BY <3>1
      <4> HIDE DEF p
      <4>2. p.avgRating = a /\ p.reviewCount = n /\ p.favoriteCount = old.favoriteCount
        BY <4>1 DEF Figures
      <4>3. p \in Figures
        BY <4>1 DEF Figures
      <4> QED BY <3>1, <4>2, <4>3
    <3> QED BY <2>1, <2>2, <3>1
  <2>4. profile' = [profile EXCEPT ![m] = p]
    BY <1>1, <1>3, <1>7 DEF RowsOK
  <2> HIDE DEF p
  <2>5. p \in TypedProfiles /\ p.exists
    BY <2>3, ProfileThere DEF TypedProfiles
  <2> QED BY <1>1, <1>3, <2>3, <2>4, <2>5 DEF RowsOK
<1>10. RowsOK'
  BY <1>1, <1>3, <1>6, <1>8, <1>9 DEF RowsOK, CallsKept
<1>11. TransactionsKnow'
  <2>1. \A x \in Reviews : <<"REVIEW", x>> \notin rows => x # r
    BY <1>6
  <2>2. \A x \in Reviews : <<"PROFILE", About[x]>> \notin rows => x # r
    BY <1>6
  <2>3. \A x \in Reviews : review[x] # Deleted => review'[x] # Deleted /\ review'[x].images = review[x].images
    BY <1>8
  <2> QED BY <1>6, <1>8, <2>1, <2>2, <2>3, KnowledgeKept
<1>12. RatingIsAverage'
  <2> SUFFICES ASSUME NEW x \in Movers, profile'[x].exists
               PROVE  /\ profile'[x].reviewCount = Cardinality(ConfirmedOf(x)')
                      /\ profile'[x].avgRating = Average(StarsOf(ConfirmedOf(x)))'
    BY DEF RatingIsAverage, Existing
  <2>1. profile[x].exists
    BY <1>7, <1>9
  <2>2. profile[x].reviewCount = Cardinality(ConfirmedOf(x))
        /\ profile[x].avgRating = Average(StarsOf(ConfirmedOf(x)))
    BY <2>1 DEF ReputationInv, RatingIsAverage, Existing
  <2>3. CASE x # m
    <3>1. ConfirmedOf(x)' = ConfirmedOf(x) /\ r \notin ConfirmedOf(x)
      BY <1>8, <2>3 DEF ConfirmedOf
    <3>2. StarsOf(ConfirmedOf(x))' = StarsOf(ConfirmedOf(x))
      BY <1>8, <3>1 DEF StarsOf, ConfirmedOf
    <3>3. Average(StarsOf(ConfirmedOf(x)))' = Average(StarsOf(ConfirmedOf(x)))
      BY <3>2
    <3> QED BY <1>9, <2>2, <2>3, <3>1, <3>3
  <2>4. CASE x = m
    <3>1. ConfirmedOf(x)' = ConfirmedOf(x) \cup {r}
      BY <1>3, <1>8, <2>4 DEF ConfirmedOf
    <3>2. StarsOf(ConfirmedOf(x))' = t.stars
      <4>1. t.stars = [y \in ConfirmedOf(x) \cup {r} |->
                         IF y = r THEN t.of.rating ELSE review[y].rating]
        BY <1>5, <2>4 DEF StarsWith
      <4>2. \A y \in ConfirmedOf(x) \cup {r} :
              review'[y].rating = IF y = r THEN t.of.rating ELSE review[y].rating
        BY <1>3, <1>8 DEF ConfirmedOf
      <4>3. StarsOf(ConfirmedOf(x))' = [y \in ConfirmedOf(x) \cup {r} |-> review'[y].rating]
        BY <3>1 DEF StarsOf
      <4> QED BY <4>1, <4>2, <4>3
    <3>3. Average(StarsOf(ConfirmedOf(x)))' = Average(t.stars)
      BY <3>2
    <3>4. IsFiniteSet(ConfirmedOf(x)) /\ Cardinality(ConfirmedOf(x)) \in Nat
      BY FS_Subset, FS_CardinalityType, ReputationConstantsOK DEF ConfirmedOf
    <3>5. Cardinality(ConfirmedOf(x) \cup {r}) =
            Cardinality(ConfirmedOf(x)) + ReviewsAdded(t.of.op)
      <4>1. r \in ConfirmedOf(x) <=> t.of.op # "WRITE"
        BY <1>3, <1>5, <2>4 DEF ConfirmedOf
      <4>2. Cardinality(ConfirmedOf(x) \cup {r}) =
              IF r \in ConfirmedOf(x) THEN Cardinality(ConfirmedOf(x))
                                      ELSE Cardinality(ConfirmedOf(x)) + 1
        BY <3>4, FS_AddElement
      <4>3. ReviewsAdded(t.of.op) = IF r \in ConfirmedOf(x) THEN 0 ELSE 1
        BY <4>1 DEF ReviewsAdded
      <4> QED BY <3>4, <4>2, <4>3
    <3> QED BY <1>9, <2>2, <2>4, <3>1, <3>3, <3>5
  <2> QED BY <2>3, <2>4
<1>13. FavoriteCountIsExact'
  <2>1. \A x \in Movers : profile'[x].exists =>
          profile[x].exists /\ profile'[x].favoriteCount = profile[x].favoriteCount
    BY <1>7, <1>9
  <2>2. \A x \in Movers : Fans(x)' = Fans(x)
    BY <1>6 DEF Fans
  <2> QED BY <2>1, <2>2, FavoritesKept
<1>14. ImagesWithinLimit'
  BY <1>8 DEF ReputationInv, ImagesWithinLimit
<1> QED BY <1>10, <1>11, <1>12, <1>13, <1>14 DEF ReputationInv

LEMMA ImageCommitKeeps ==
  ASSUME ReputationInv, NEW k \in Calls, ImageCommit(k)
  PROVE  ReputationInv'
<1> SUFFICES ASSUME NEW t, t = call[k], NEW r, r = t.of.review, NEW rows, rows = RowsOf(t)
             PROVE  ReputationInv'
  OBVIOUS
<1>1. RowsOK /\ t \in CallStates /\ t.op = "CHANGING" /\ ~t.stale
  BY DEF ReputationInv, RowsOK, ImageCommit, Stale
<1>2. t \in ChangingStates
  BY <1>1, StatesByOp
<1>3. r \in Reviews /\ t.of.op \in Photos
  BY <1>2 DEF ChangingStates, PhotoCalls
<1>4. Open(t) /\ Knows(t)
  BY <1>1 DEF Open, ReputationInv, TransactionsKnow
<1>5. review[r] # Deleted /\ review[r].images \in 0..MaxImages
      /\ IF t.of.op = "ADD" THEN review[r].images < MaxImages ELSE review[r].images > 0
  BY <1>1, <1>3, <1>4 DEF Knows, ReputationInv, ImagesWithinLimit
<1>6. <<"PHOTOS", r>> \in rows /\ CallsKept(rows) /\ UNCHANGED <<favorite, profile>>
  BY <1>1, CommittedKept DEF ImageCommit, RowsOf
<1> DEFINE n == IF t.of.op = "ADD" THEN review[r].images + 1 ELSE review[r].images - 1
           row == [review[r] EXCEPT !.images = n]
<1>7. review' = [review EXCEPT ![r] = row]
  BY <1>1, <1>3 DEF RowsOK, ImageCommit
<1>8. n \in 0..MaxImages
  BY <1>3, <1>5, ReputationConstantsOK DEF Photos
<1>9. review[r] \in [status : Statuses, rating : Ratings \cup {0}, images : Int]
  BY <1>1, <1>3, <1>5 DEF RowsOK, ReviewRows
<1>10. row \in [status : Statuses, rating : Ratings \cup {0}, images : Int]
       /\ row.status = review[r].status /\ row.rating = review[r].rating /\ row.images = n
  BY <1>8, <1>9
<1> HIDE DEF n, row
<1>11. row \in ReviewRows /\ row # Deleted
  BY <1>10 DEF ReviewRows, Deleted, Statuses
<1>12. /\ review' \in [Reviews -> ReviewRows]
       /\ \A x \in Reviews : review'[x].status = review[x].status
                             /\ review'[x].rating = review[x].rating
       /\ review'[r].images = n /\ \A x \in Reviews \ {r} : review'[x] = review[x]
  BY <1>1, <1>3, <1>7, <1>10, <1>11 DEF RowsOK
<1>13. RowsOK'
  BY <1>1, <1>6, <1>12 DEF RowsOK, CallsKept
<1>14. TransactionsKnow'
  <2>1. \A x \in Reviews : <<"PHOTOS", x>> \notin rows => x # r
    BY <1>6
  <2> QED BY <1>6, <1>12, <2>1, KnowledgeKept
<1>15. RatingIsAverage' /\ FavoriteCountIsExact'
  BY <1>6, <1>12, RatingKept, FavoritesKept DEF Fans
<1>16. ImagesWithinLimit'
  BY <1>8, <1>12 DEF ReputationInv, ImagesWithinLimit
<1> QED BY <1>13, <1>14, <1>15, <1>16 DEF ReputationInv

-----------------------------------------------------------------------------
(* Favorites.                                                              *)

\* The counters of these movers, and nothing else, have moved.
CountersMoved(movers, by) ==
  \A m \in Movers :
    /\ profile'[m].exists <=> profile[m].exists
    /\ profile[m].exists =>
         /\ profile'[m].avgRating = profile[m].avgRating
         /\ profile'[m].reviewCount = profile[m].reviewCount
         /\ profile'[m].favoriteCount =
              IF m \in movers THEN profile[m].favoriteCount + by ELSE profile[m].favoriteCount

LEMMA Recounted ==
  ASSUME RowsOK, NEW movers \in SUBSET Movers, NEW by \in Int, profile' = Recount(movers, by)
  PROVE  /\ profile' \in [Movers -> TypedProfiles]
         /\ CountersMoved(movers, by)
<1>1. ASSUME NEW m \in Movers
      PROVE  /\ profile'[m] \in TypedProfiles
             /\ profile'[m].exists <=> profile[m].exists
             /\ profile[m].exists =>
                   /\ profile'[m].avgRating = profile[m].avgRating
                   /\ profile'[m].reviewCount = profile[m].reviewCount
                   /\ profile'[m].favoriteCount =
                        IF m \in movers THEN profile[m].favoriteCount + by
                                        ELSE profile[m].favoriteCount
  <2>1. profile[m] \in TypedProfiles
    BY DEF RowsOK
  <2>2. CASE m \in movers \cap Existing
    <3>1. profile[m].exists
      BY <2>2 DEF Existing
    <3>2. profile[m] \in Figures
      BY <2>1, <3>1, ProfileThere, Zenon
    <3>3. ASSUME NEW old \in Figures, old = profile[m], NEW new, new = profile'[m]
          PROVE  /\ new \in Figures /\ new.avgRating = old.avgRating
                 /\ new.reviewCount = old.reviewCount
                 /\ new.favoriteCount = old.favoriteCount + by
      <4>1. new = [old EXCEPT !.favoriteCount = old.favoriteCount + by]
        BY <2>2, <3>3 DEF Recount
      <4>2. new.avgRating = old.avgRating /\ new.reviewCount = old.reviewCount
            /\ new.favoriteCount = old.favoriteCount + by
        BY <4>1 DEF Figures
      <4>3. old.favoriteCount \in Int /\ old.favoriteCount + by \in Int
        BY DEF Figures
      <4>4. new \in Figures
        BY <4>1, <4>3 DEF Figures
      <4> QED BY <4>2, <4>4
    <3>4. /\ profile'[m] \in Figures /\ profile'[m].avgRating = profile[m].avgRating
          /\ profile'[m].reviewCount = profile[m].reviewCount
          /\ profile'[m].favoriteCount = profile[m].favoriteCount + by
      BY <3>2, <3>3
    <3>5. profile'[m] \in TypedProfiles /\ profile'[m].exists
      BY <3>4, ProfileThere DEF TypedProfiles
    <3> QED BY <2>2, <3>1, <3>4, <3>5
  <2>3. CASE m \notin movers \cap Existing
    <3>1. profile'[m] = profile[m]
      BY <2>3 DEF Recount
    <3> QED BY <2>1, <2>3, <3>1 DEF Existing
  <2> QED BY <2>2, <2>3
<1>2. profile' \in [Movers -> TypedProfiles]
  BY <1>1 DEF Recount
<1> QED BY <1>1, <1>2 DEF CountersMoved

LEMMA FansFinite ==
  ASSUME NEW m
  PROVE  IsFiniteSet(Fans(m)) /\ Cardinality(Fans(m)) \in Nat
BY FS_Subset, FS_CardinalityType, ReputationConstantsOK DEF Fans

\* Rows of one customer come or go, and with each one the counter moves.
LEMMA FavoritesMove ==
  ASSUME ReputationInv, NEW rows, CallsKept(rows), NEW c \in Customers,
         NEW movers \in SUBSET Movers, NEW by \in {1, -1}, UNCHANGED review,
         profile' = Recount(movers, by), favorite' \subseteq Customers \X Movers,
         \A m \in Movers : profile[m].exists =>
           Fans(m)' = IF m \notin movers THEN Fans(m)
                      ELSE IF by = 1 THEN Fans(m) \cup {c} ELSE Fans(m) \ {c},
         \A m \in movers : profile[m].exists => (by = 1 <=> c \notin Fans(m))
  PROVE  ReputationInv'
<1>1. RowsOK /\ by \in Int
  BY DEF ReputationInv
<1>2. profile' \in [Movers -> TypedProfiles]
  BY <1>1, Recounted, Zenon
<1>3. CountersMoved(movers, by)
  BY <1>1, Recounted, Zenon
<1>4. RowsOK'
  BY <1>1, <1>2 DEF RowsOK, CallsKept
<1>5. TransactionsKnow'
  BY <1>1, KnowledgeKept DEF RowsOK
<1>6. RatingIsAverage'
  BY <1>3, RatingKept DEF CountersMoved
<1>7. ASSUME NEW m \in Movers, profile'[m].exists
      PROVE  profile'[m].favoriteCount = Cardinality(Fans(m)')
  <2>1. profile[m].exists
    BY <1>3, <1>7 DEF CountersMoved
  <2>2. profile[m].favoriteCount = Cardinality(Fans(m))
    BY <2>1 DEF ReputationInv, FavoriteCountIsExact, Existing, Fans
  <2>3. CASE m \notin movers
    BY <1>3, <2>1, <2>2, <2>3 DEF CountersMoved
  <2>4. CASE m \in movers /\ by = 1
    <3>1. Cardinality(Fans(m) \cup {c}) = Cardinality(Fans(m)) + 1
      BY <2>1, <2>4, FansFinite, FS_AddElement
    <3> QED BY <1>3, <2>1, <2>2, <2>4, <3>1 DEF CountersMoved
  <2>5. CASE m \in movers /\ by = -1
    <3>0. c \in Fans(m) /\ IsFiniteSet(Fans(m))
      BY <2>1, <2>5, FansFinite
    <3>1. Cardinality(Fans(m) \ {c}) = Cardinality(Fans(m)) - 1
      BY <3>0, FS_RemoveElement
    <3>2. Fans(m)' = Fans(m) \ {c}
      BY <2>1, <2>5
    <3>3. profile'[m].favoriteCount = Cardinality(Fans(m)) + by
      BY <1>3, <2>1, <2>2, <2>5 DEF CountersMoved
    <3> QED BY <2>5, <3>1, <3>2, <3>3, FansFinite
  <2> QED BY <2>3, <2>4, <2>5
<1>8. FavoriteCountIsExact'
  BY <1>7 DEF FavoriteCountIsExact, Existing, Fans
<1>9. ImagesWithinLimit'
  BY DEF ReputationInv, ImagesWithinLimit
<1> QED BY <1>4, <1>5, <1>6, <1>8, <1>9 DEF ReputationInv

LEMMA FavoriteCreateKeeps ==
  ASSUME ReputationInv, NEW k \in Calls, FavoriteCreate(k)
  PROVE  ReputationInv'
<1> SUFFICES ASSUME NEW c, c = call[k].customer, NEW movers, movers = call[k].movers,
                    NEW created, created = NewFavorites(c, movers)
             PROVE  ReputationInv'
  OBVIOUS
<1>1. RowsOK /\ call[k] \in FavoriteStates
  BY StatesByOp DEF ReputationInv, RowsOK, FavoriteCreate
<1>2. c \in Customers /\ movers \in SUBSET Movers /\ created \in SUBSET Movers
  BY <1>1 DEF FavoriteStates, NewFavorites
<1>3. CASE call' = [call EXCEPT ![k] = Idle] /\ UNCHANGED <<favorite, profile>>
  BY <1>1, <1>3, StatesOfCalls, GoesOnKept, RestKeeps DEF FavoriteCreate
<1>4. CASE /\ favorite' = favorite \cup ({c} \X movers)
           /\ profile' = Recount(created, 1)
           /\ call' = Committed(UNION {ProfileRow(m) : m \in created}, {k}, Idle)
  <2> DEFINE rows == UNION {ProfileRow(m) : m \in created}
  <2>1. CallsKept(rows)
    BY <1>1, <1>4, CommittedKept
  <2>2. favorite' \subseteq Customers \X Movers
    BY <1>1, <1>2, <1>4 DEF RowsOK
  <2>3. \A m \in Movers : Fans(m)' = IF m \notin created THEN Fans(m) ELSE Fans(m) \cup {c}
    BY <1>2, <1>4 DEF Fans, NewFavorites
  <2>4. \A m \in created : c \notin Fans(m)
    BY DEF NewFavorites, Fans
  <2>5. UNCHANGED review
    BY DEF FavoriteCreate
  <2> HIDE DEF rows
  <2>6. \A m \in Movers : profile[m].exists =>
          Fans(m)' = IF m \notin created THEN Fans(m)
                     ELSE IF 1 = 1 THEN Fans(m) \cup {c} ELSE Fans(m) \ {c}
    BY <2>3
  <2>7. \A m \in created : profile[m].exists => (1 = 1 <=> c \notin Fans(m))
    BY <2>4
  <2> QED BY <1>2, <1>4, <2>1, <2>2, <2>5, <2>6, <2>7, FavoritesMove
<1> QED BY <1>3, <1>4 DEF FavoriteCreate

LEMMA FavoriteDeleteKeeps ==
  ASSUME ReputationInv, NEW c \in Customers, NEW asked \in SUBSET Movers,
         FavoriteDelete(c, asked)
  PROVE  ReputationInv'
<1> DEFINE dropped == {m \in asked : <<c, m>> \in favorite}
           rows == UNION {ProfileRow(m) : m \in dropped}
<1>1. RowsOK /\ dropped \in SUBSET Movers
  BY DEF ReputationInv
<1>2. /\ favorite' = favorite \ ({c} \X dropped) /\ profile' = Recount(dropped, -1)
      /\ call' = Committed(rows, {}, Idle) /\ UNCHANGED review
  BY DEF FavoriteDelete
<1>3. CallsKept(rows)
  BY <1>1, <1>2, CommittedKept
<1>4. favorite' \subseteq Customers \X Movers
  BY <1>1, <1>2 DEF RowsOK
<1>5. ASSUME NEW gone, gone = dropped PROVE ReputationInv'
  <2>1. \A m \in Movers : Fans(m)' = IF m \notin gone THEN Fans(m) ELSE Fans(m) \ {c}
    BY <1>2, <1>5 DEF Fans
  <2>2. \A m \in gone : c \in Fans(m)
    BY <1>5 DEF Fans
  <2>3. \A m \in Movers : profile[m].exists =>
          Fans(m)' = IF m \notin gone THEN Fans(m)
                     ELSE IF -1 = 1 THEN Fans(m) \cup {c} ELSE Fans(m) \ {c}
    BY <2>1
  <2>4. \A m \in gone : profile[m].exists => (-1 = 1 <=> c \notin Fans(m))
    BY <2>2
  <2>5. gone \in SUBSET Movers /\ profile' = Recount(gone, -1) /\ UNCHANGED review
    BY <1>1, <1>2, <1>5
  <2> HIDE DEF dropped, rows
  <2> QED BY <1>3, <1>4, <2>3, <2>4, <2>5, FavoritesMove
<1> QED BY <1>5

-----------------------------------------------------------------------------
(* The rest of the system.                                                 *)

LEMMA PayKeeps ==
  ASSUME ReputationInv, NEW r \in Reviews, Pay(r)
  PROVE  ReputationInv'
<1>1. RowsOK /\ review[r].status = "UNPAID" /\ UNCHANGED <<favorite, profile, call>>
  BY DEF ReputationInv, Pay
<1>2. CallsKept({})
  BY <1>1 DEF CallsKept, StillOpen, RowsOK
<1> DEFINE row == [review[r] EXCEPT !.status = "PENDING"]
<1>3. review[r] \in [status : Statuses, rating : Ratings \cup {0}, images : Int]
  BY <1>1 DEF RowsOK, ReviewRows, Deleted
<1>4. row \in [status : Statuses, rating : Ratings \cup {0}, images : Int]
      /\ row.status = "PENDING" /\ row.rating = review[r].rating /\ row.images = review[r].images
  BY <1>3 DEF Statuses
<1>5. review' = [review EXCEPT ![r] = row]
  BY <1>1 DEF Pay, RowsOK
<1> HIDE DEF row
<1>6. row \in ReviewRows /\ row # Deleted
  BY <1>4 DEF ReviewRows, Deleted
<1>7. /\ review' \in [Reviews -> ReviewRows]
      /\ review'[r].status = "PENDING" /\ review'[r] # Deleted
      /\ \A x \in Reviews : /\ review'[x].rating = review[x].rating
                            /\ review'[x].images = review[x].images
      /\ \A x \in Reviews \ {r} : review'[x] = review[x]
  BY <1>1, <1>4, <1>5, <1>6 DEF RowsOK
<1>8. RowsOK'
  BY <1>1, <1>7 DEF RowsOK
<1>9. TransactionsKnow'
  BY <1>1, <1>2, <1>7, KnowledgeKept
<1>10. RatingIsAverage' /\ FavoriteCountIsExact'
  BY <1>1, <1>7, RatingKept, FavoritesKept DEF Fans
<1>11. ImagesWithinLimit'
  BY <1>7 DEF ReputationInv, ImagesWithinLimit
<1> QED BY <1>8, <1>9, <1>10, <1>11 DEF ReputationInv

LEMMA CareerKeeps ==
  ASSUME ReputationInv, IncrementMoverCareer
  PROVE  ReputationInv'
<1> DEFINE rows == UNION {ProfileRow(m) : m \in Existing}
<1>1. RowsOK /\ CallsKept(rows) /\ UNCHANGED <<review, favorite>>
  BY CommittedKept DEF ReputationInv, IncrementMoverCareer
<1>2. ASSUME NEW m \in Movers
      PROVE  /\ profile'[m] \in TypedProfiles
             /\ profile'[m].exists => profile[m].exists
             /\ profile'[m].exists =>
                  /\ profile'[m].avgRating = profile[m].avgRating
                  /\ profile'[m].reviewCount = profile[m].reviewCount
                  /\ profile'[m].favoriteCount = profile[m].favoriteCount
  <2>1. profile[m] \in TypedProfiles
    BY <1>1 DEF RowsOK
  <2>2. CASE profile'[m] = profile[m]
    BY <2>1, <2>2
  <2>3. CASE profile'[m] # profile[m]
    <3>1. profile[m].exists /\ profile[m].career < MaxCareer
          /\ profile'[m] = [profile[m] EXCEPT !.career = @ + 1]
      BY <2>3 DEF IncrementMoverCareer, Existing
    <3>2. profile[m] \in Figures
      BY <2>1, <3>1, ProfileThere, Zenon
    <3>3. ASSUME NEW old \in Figures, old = profile[m], NEW new, new = profile'[m]
          PROVE  /\ new \in Figures /\ new.avgRating = old.avgRating
                 /\ new.reviewCount = old.reviewCount /\ new.favoriteCount = old.favoriteCount
      <4>1. old.career < MaxCareer /\ new = [old EXCEPT !.career = old.career + 1]
        BY <3>1, <3>3
      <4>2. new.avgRating = old.avgRating /\ new.reviewCount = old.reviewCount
            /\ new.favoriteCount = old.favoriteCount
        BY <4>1 DEF Figures
      <4>3. old.career + 1 \in 0..MaxCareer
        BY <4>1, ReputationConstantsOK DEF Figures
      <4>4. new \in Figures
        BY <4>1, <4>3 DEF Figures
      <4> QED BY <4>2, <4>4
    <3> QED BY <3>1, <3>2, <3>3, ProfileThere DEF TypedProfiles
  <2> QED BY <2>2, <2>3
<1>3. profile' \in [Movers -> TypedProfiles]
  BY <1>2 DEF IncrementMoverCareer
<1>4. RowsOK'
  BY <1>1, <1>3 DEF RowsOK, CallsKept
<1>5. TransactionsKnow'
  BY <1>1, KnowledgeKept DEF RowsOK
<1>6. RatingIsAverage' /\ FavoriteCountIsExact'
  BY <1>1, <1>2, RatingKept, FavoritesKept DEF Fans
<1>7. ImagesWithinLimit'
  BY <1>1 DEF ReputationInv, ImagesWithinLimit
<1> QED BY <1>4, <1>5, <1>6, <1>7 DEF ReputationInv

\* Reviews and favorites go with the mover, and open transactions fail.
LEMMA DeleteMoverKeeps ==
  ASSUME ReputationInv, NEW m \in Movers, DeleteMoverAccount(m)
  PROVE  ReputationInv'
<1> DEFINE about == {r \in Reviews : About[r] = m}
           rows == ProfileRow(m) \cup ({"REVIEW", "PHOTOS"} \X about)
<1>1. /\ RowsOK
      /\ review' = [r \in Reviews |-> IF r \in about THEN Deleted ELSE review[r]]
      /\ favorite' = favorite \ (Customers \X {m})
      /\ profile' = [profile EXCEPT ![m] = Gone]
      /\ call' = Committed(rows, {}, Idle)
  BY DEF ReputationInv, DeleteMoverAccount
<1>2. CallsKept(rows)
  BY <1>1, CommittedKept
<1>3. /\ \A x \in Reviews : <<"REVIEW", x>> \notin rows => x \notin about
      /\ \A x \in Reviews : <<"PHOTOS", x>> \notin rows => x \notin about
      /\ \A x \in Reviews : <<"PROFILE", About[x]>> \notin rows => x \notin about
  BY DEF ProfileRow
<1>4. /\ \A x \in about : review'[x] = Deleted
      /\ \A x \in Reviews \ about : review'[x] = review[x]
      /\ \A x \in Reviews : x \in about <=> About[x] = m
      /\ about \subseteq Reviews
  BY <1>1
<1>5. Deleted \in ReviewRows /\ Deleted.status # "CONFIRMED" /\ Deleted.images = 0
  BY DEF Deleted, ReviewRows
<1>6. review' \in [Reviews -> ReviewRows]
  BY <1>1, <1>5 DEF RowsOK
<1>7. ~profile'[m].exists /\ profile' \in [Movers -> TypedProfiles]
      /\ \A x \in Movers \ {m} : profile'[x] = profile[x]
  <2>1. Gone \in TypedProfiles /\ ~Gone.exists
    BY DEF TypedProfiles, Gone
  <2> QED BY <1>1, <2>1 DEF RowsOK
<1>8. favorite' \subseteq Customers \X Movers /\ \A x \in Movers \ {m} : Fans(x)' = Fans(x)
  BY <1>1 DEF RowsOK, Fans
<1> HIDE DEF about, rows
<1>9. RowsOK'
  BY <1>1, <1>2, <1>4, <1>5, <1>6, <1>7, <1>8 DEF RowsOK, CallsKept
<1>10. TransactionsKnow'
  BY <1>2, <1>3, <1>4, <1>6, KnowledgeKept
<1>11. RatingIsAverage'
  <2>1. \A x \in Reviews : About[x] \in Movers
    BY ReputationConstantsOK
  <2>2. \A x \in Reviews : profile'[About[x]].exists => x \notin about
    BY <1>4, <1>7
  <2> QED BY <1>4, <1>7, <2>2, RatingKept
<1>12. FavoriteCountIsExact'
  BY <1>7, <1>8, FavoritesKept
<1>13. ImagesWithinLimit'
  BY <1>4, <1>5, ReputationConstantsOK DEF ReputationInv, ImagesWithinLimit
<1> QED BY <1>9, <1>10, <1>11, <1>12, <1>13 DEF ReputationInv

-----------------------------------------------------------------------------
(* Theorems.                                                               *)

LEMMA ReputationInit == Init => ReputationInv
<1> SUFFICES ASSUME Init PROVE ReputationInv
  OBVIOUS
<1>1. \A r \in Reviews : review[r].status = "UNPAID" /\ review[r].images = 0
  BY DEF Init
<1>2. \A m \in Movers : /\ profile[m].exists /\ profile[m].avgRating = 0
                        /\ profile[m].reviewCount = 0 /\ profile[m].favoriteCount = 0
  BY DEF Init, NewProfile
<1>3. RowsOK
  <2>1. NewProfile \in Figures
    BY ReputationConstantsOK DEF NewProfile, Figures, Averages
  <2>2. profile \in [Movers -> TypedProfiles]
    BY <2>1 DEF Init, TypedProfiles
  <2>3. review \in [Reviews -> ReviewRows]
    BY DEF Init, ReviewRows, Statuses
  <2>4. call \in [Calls -> CallStates]
    BY StatesOfCalls DEF Init
  <2> QED BY <1>1, <2>2, <2>3, <2>4 DEF RowsOK, Init
<1>4. TransactionsKnow
  BY StatesOfCalls DEF Init, TransactionsKnow, Knows
<1>5. \A m \in Movers : ConfirmedOf(m) = {} /\ DOMAIN StarsOf(ConfirmedOf(m)) = {}
  BY <1>1 DEF ConfirmedOf, StarsOf
<1>6. ASSUME NEW stars, DOMAIN stars = {} PROVE Average(stars) = 0
  BY <1>6, FS_EmptySet DEF Average
<1>7. RatingIsAverage
  BY <1>2, <1>5, <1>6, FS_EmptySet DEF RatingIsAverage, Existing
<1>8. FavoriteCountIsExact
  <2>1. \A m \in Movers : {c \in Customers : <<c, m>> \in favorite} = {}
    BY DEF Init
  <2> QED BY <1>2, <2>1, FS_EmptySet DEF FavoriteCountIsExact, Existing
<1>9. ImagesWithinLimit
  BY <1>1, ReputationConstantsOK DEF ImagesWithinLimit
<1> QED BY <1>3, <1>4, <1>7, <1>8, <1>9 DEF ReputationInv

LEMMA ReputationStep ==
  ASSUME ReputationInv, [Next]_vars
  PROVE  ReputationInv'
<1>1. CASE UNCHANGED vars
  <2>1. CallsKept({}) /\ UNCHANGED <<review, favorite, profile>>
    BY <1>1 DEF vars, CallsKept, StillOpen, ReputationInv, RowsOK
  <2> QED BY <2>1, RestKeeps
<1>2. CASE Next
  BY <1>2, ChecksKeep, BeginsKeep, ReviewCommitKeeps, ImageCommitKeeps, FavoriteCreateKeeps,
     FavoriteDeleteKeeps, PayKeeps, CareerKeeps, DeleteMoverKeeps DEF Next
<1> QED BY <1>1, <1>2

\* The figures agree with the rows, and each transaction that may commit knows
\* the rows it counts on, in every state.
THEOREM ReputationCorrect == Spec => []ReputationInv
<1>1. ReputationInv /\ [Next]_vars => ReputationInv'
  BY ReputationStep
<1> QED BY <1>1, ReputationInit, PTL DEF Spec

\* A mover's rating and number of reviews are those of the confirmed reviews
\* (confirmOwned, updateOwned).
THEOREM RatingStaysAverage == Spec => []RatingIsAverage
<1>1. ReputationInv => RatingIsAverage
  BY DEF ReputationInv
<1> QED BY <1>1, ReputationCorrect, PTL

\* favoriteCount is the number of rows (createOwned, createManyOwned, deleteOwned).
THEOREM FavoriteCountStaysExact == Spec => []FavoriteCountIsExact
<1>1. ReputationInv => FavoriteCountIsExact
  BY DEF ReputationInv
<1> QED BY <1>1, ReputationCorrect, PTL

\* No review has more photos than the limit (createImage counts them again).
THEOREM ImagesStayWithinLimit == Spec => []ImagesWithinLimit
<1>1. ReputationInv => ImagesWithinLimit
  BY DEF ReputationInv
<1> QED BY <1>1, ReputationCorrect, PTL
=============================================================================
