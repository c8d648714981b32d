----------------------------- MODULE Reputation -----------------------------
(***************************************************************************)
(* What customers leave behind about movers, reviews with their photos and *)
(* favorites, and the figures of the mover's profile computed from them,   *)
(* on which searches are ordered: modules review and favorite.             *)
(*                                                                         *)
(* Reviews and photos are written in Serializable transactions: of two     *)
(* open at once that touch the same row, only the first to commit does.    *)
(* Favorites are written in Read Committed ones, which wait for each       *)
(* other's rows and read them again, so that each is one step here.        *)
(***************************************************************************)
EXTENDS Integers, FiniteSets, FiniteSetsExt

CONSTANTS
  Customers, Movers,
  Reviews,       \* a row for each completed estimate
  Author,        \* its customer
  About,         \* its mover
  Ratings,       \* the stars in use, among 1..5
  Calls,         \* HTTP calls under way at once
  MaxImages,     \* MAX_REVIEW_IMAGES
  MaxAttempts,   \* CONFIRM_MAX_RETRIES
  MaxCareer      \* 60 in the code

ASSUME ReputationConstantsOK ==
  /\ IsFiniteSet(Customers) /\ IsFiniteSet(Reviews)
  /\ Author \in [Reviews -> Customers]
  /\ About \in [Reviews -> Movers]
  /\ Ratings \subseteq 1..5
  /\ MaxImages \in Nat
  /\ MaxAttempts \in Nat \ {0}
  /\ MaxCareer \in Nat

VARIABLES
  review,     \* the rows: status, rating (0 for NULL), number of photos
  favorite,   \* the rows: pairs of a customer and a mover
  profile,    \* MoverProfile, or Gone
  call

vars == <<review, favorite, profile, call>>

\* UNPAID: PENDING, and the estimate is not PAID yet.
Statuses == {"UNPAID", "PENDING", "CONFIRMED"}
Deleted  == [status |-> "DELETED", rating |-> 0, images |-> 0]
Gone     == [exists |-> FALSE]
Idle     == [op |-> "IDLE"]

ReviewRows  == {Deleted} \cup [status : Statuses, rating : Ratings \cup {0}, images : Int]
ProfileRows == {Gone} \cup [exists : {TRUE}, avgRating : Int, reviewCount : Nat,
                            favoriteCount : Int, career : 0..MaxCareer]

\* WRITE and EDIT are what the check chose: confirmOwned or updateOwned.
Writes == {"WRITE", "EDIT"}
Photos == {"ADD", "DROP"}

WriteCalls == [op : Writes, review : Reviews, rating : Ratings, n : 1..MaxAttempts]
PhotoCalls == [op : Photos, review : Reviews, n : 1..MaxAttempts]

\* The stars of some reviews.
StarsOfSome == UNION {[reviews -> Ratings] : reviews \in SUBSET Reviews}

CallStates ==
  {Idle} \cup WriteCalls \cup PhotoCalls
    \cup [op : {"WRITING"}, of : WriteCalls, stars : StarsOfSome, stale : BOOLEAN]
    \cup [op : {"CHANGING"}, of : PhotoCalls, edits : BOOLEAN, stale : BOOLEAN]
    \cup [op : {"FAVORITE"}, customer : Customers, movers : SUBSET Movers, bulk : BOOLEAN]

TypeOK ==
  /\ review \in [Reviews -> ReviewRows]
  /\ favorite \subseteq Customers \X Movers
  /\ profile \in [Movers -> ProfileRows]
  /\ call \in [Calls -> CallStates]

NewProfile == [exists |-> TRUE, avgRating |-> 0, reviewCount |-> 0, favoriteCount |-> 0, career |-> 0]

Init ==
  /\ review = [r \in Reviews |-> [status |-> "UNPAID", rating |-> 0, images |-> 0]]
  /\ favorite = {}
  /\ profile = [m \in Movers |-> NewProfile]
  /\ call = [k \in Calls |-> Idle]

-----------------------------------------------------------------------------
(* Reads.                                                                  *)

Existing == {m \in Movers : profile[m].exists}

ConfirmedOf(m) == {r \in Reviews : About[r] = m /\ review[r].status = "CONFIRMED"}

StarsOf(reviews) == [r \in reviews |-> review[r].rating]

\* _avg in tenths, rounded half up.
Average(stars) ==
  LET sum   == MapThenSumSet(LAMBDA r : stars[r], DOMAIN stars)
      count == Cardinality(DOMAIN stars) IN
  IF count = 0 THEN 0 ELSE (20 * sum + count) \div (2 * count)

-----------------------------------------------------------------------------
(* Transactions.                                                           *)

InTransaction(k) == call[k].op \in {"WRITING", "CHANGING"}

\* The rows a transaction writes, or reads in order to insert another.
RowsOf(t) ==
  IF t.op = "WRITING" THEN {<<"REVIEW", t.of.review>>, <<"PROFILE", About[t.of.review]>>}
  ELSE {<<"PHOTOS", t.of.review>>} \cup (IF t.edits THEN {<<"REVIEW", t.of.review>>} ELSE {})

\* A commit that writes `rows` defeats the transactions open on them; the
\* call of `own` has done its part and becomes `state`.
Committed(rows, own, state) ==
  [k \in Calls |->
     IF k \in own THEN state
     ELSE IF InTransaction(k) /\ RowsOf(call[k]) \cap rows # {}
     THEN [call[k] EXCEPT !.stale = TRUE] ELSE call[k]]

ProfileRow(m) == {<<"PROFILE", m>>}

\* A mutant: the transaction is Read Committed.
NeverStale(t) == FALSE

Stale(t) == t.stale

MayRetry(n) == n < MaxAttempts

\* P2034, also where PostgreSQL suspects a conflict that is none.
Conflict(k) ==
  /\ InTransaction(k)
  /\ call' = [call EXCEPT ![k] = LET c == call[k].of IN
                                 IF MayRetry(c.n) THEN [c EXCEPT !.n = c.n + 1] ELSE Idle]
  /\ UNCHANGED <<review, favorite, profile>>

-----------------------------------------------------------------------------
(* Writing and editing a review.                                           *)

\* confirm: a first review needs a paid move; a written one is edited.
ReviewCheck(k, r, stars) ==
  /\ call[k] = Idle
  /\ review[r].status \in {"PENDING", "CONFIRMED"}
  /\ call' = [call EXCEPT ![k] =
       [op |-> IF review[r].status = "CONFIRMED" THEN "EDIT" ELSE "WRITE",
        review |-> r, rating |-> stars, n |-> 1]]
  /\ UNCHANGED <<review, favorite, profile>>

\* The conditional update finds its row, and the average is read with it.
ReviewBegin(k) ==
  LET c == call[k]
      others == StarsOf(ConfirmedOf(About[c.review]) \ {c.review}) IN
  /\ c.op \in Writes
  /\ IF review[c.review].status = (IF c.op = "WRITE" THEN "PENDING" ELSE "CONFIRMED")
     THEN call' = [call EXCEPT ![k] =
            [op |-> "WRITING", of |-> c, stale |-> FALSE,
             stars |-> [r \in DOMAIN others \cup {c.review} |->
                          IF r = c.review THEN c.rating ELSE others[r]]]]
     ELSE call' = [call EXCEPT ![k] = Idle]
  /\ UNCHANGED <<review, favorite, profile>>

\* A mutant: an edit counts as another review.
CountsEveryWrite(op) == 1

\* reviewCount: { increment: 1 } in confirmOwned alone.
ReviewsAdded(op) == IF op = "WRITE" THEN 1 ELSE 0

ReviewCommit(k) ==
  LET t == call[k]
      r == t.of.review
      m == About[r] IN
  /\ t.op = "WRITING"
  /\ ~Stale(t)
  /\ profile[m].exists
  /\ review' = [review EXCEPT ![r].status = "CONFIRMED", ![r].rating = t.of.rating]
  /\ profile' = [profile EXCEPT ![m].avgRating = Average(t.stars),
                                ![m].reviewCount = @ + ReviewsAdded(t.of.op)]
  /\ call' = Committed(RowsOf(t), {k}, Idle)
  /\ UNCHANGED favorite

-----------------------------------------------------------------------------
(* Photos, before and after writing.                                       *)

\* addImage counts before it uploads; removeImage does not.
ImageCheck(k, r, op) ==
  /\ call[k] = Idle
  /\ review[r] # Deleted
  /\ op = "ADD" => review[r].images < MaxImages
  /\ call' = [call EXCEPT ![k] = [op |-> op, review |-> r, n |-> 1]]
  /\ UNCHANGED <<review, favorite, profile>>

\* A mutant: the count before the upload is trusted.
RoomWasChecked(images) == TRUE

\* createImage counts again.
HasRoom(images) == images < MaxImages

ImageBegin(k) ==
  LET c == call[k]
      row == review[c.review] IN
  /\ c.op \in Photos
  /\ IF /\ row # Deleted
        /\ IF c.op = "ADD" THEN HasRoom(row.images) ELSE row.images > 0
     THEN call' = [call EXCEPT ![k] =
            [op |-> "CHANGING", of |-> c, edits |-> row.status = "CONFIRMED", stale |-> FALSE]]
     ELSE call' = [call EXCEPT ![k] = Idle]
  /\ UNCHANGED <<review, favorite, profile>>

ImageCommit(k) ==
  LET t == call[k]
      r == t.of.review IN
  /\ t.op = "CHANGING"
  /\ ~Stale(t)
  /\ review' = [review EXCEPT ![r].images = IF t.of.op = "ADD" THEN @ + 1 ELSE @ - 1]
  /\ call' = Committed(RowsOf(t), {k}, Idle)
  /\ UNCHANGED <<favorite, profile>>

-----------------------------------------------------------------------------
(* Favorites.                                                              *)

\* create: the mover is there and not yet a favorite.
FavoriteCheck(k, c, m) ==
  /\ call[k] = Idle
  /\ m \in Existing /\ <<c, m>> \notin favorite
  /\ call' = [call EXCEPT ![k] = [op |-> "FAVORITE", customer |-> c, movers |-> {m}, bulk |-> FALSE]]
  /\ UNCHANGED <<review, favorite, profile>>

\* bulkCreate: movers that are not there are left out.
BulkCheck(k, c, asked) ==
  /\ call[k] = Idle
  /\ asked \cap Existing # {}
  /\ call' = [call EXCEPT ![k] =
       [op |-> "FAVORITE", customer |-> c, movers |-> asked \cap Existing, bulk |-> TRUE]]
  /\ UNCHANGED <<review, favorite, profile>>

\* Moves the counters of the profiles that are still there.
Recount(movers, by) ==
  [m \in Movers |-> IF m \in movers \cap Existing
                    THEN [profile[m] EXCEPT !.favoriteCount = @ + by] ELSE profile[m]]

\* A mutant: every mover asked for is counted.
AllAsked(c, movers) == movers

\* ON CONFLICT DO NOTHING RETURNING.
NewFavorites(c, movers) == {m \in movers : <<c, m>> \notin favorite}

\* createOwned undoes its increment when the row is there already, or fails
\* when the profile is gone; createManyOwned adds what is missing.
FavoriteCreate(k) ==
  LET c == call[k].customer
      movers == call[k].movers
      created == NewFavorites(c, movers)
      refused == ~call[k].bulk /\ (movers \cap Existing = {} \/ created = {}) IN
  /\ call[k].op = "FAVORITE"
  /\ IF refused
     THEN /\ call' = [call EXCEPT ![k] = Idle]
          /\ UNCHANGED <<favorite, profile>>
     ELSE /\ favorite' = favorite \cup ({c} \X movers)
          /\ profile' = Recount(created, 1)
          /\ call' = Committed(UNION {ProfileRow(m) : m \in created}, {k}, Idle)
  /\ UNCHANGED review

\* deleteOwned, for one mover and for several.
FavoriteDelete(c, asked) ==
  LET dropped == {m \in asked : <<c, m>> \in favorite} IN
  /\ dropped # {}
  /\ favorite' = favorite \ ({c} \X dropped)
  /\ profile' = Recount(dropped, -1)
  /\ call' = Committed(UNION {ProfileRow(m) : m \in dropped}, {}, Idle)
  /\ UNCHANGED review

-----------------------------------------------------------------------------
(* The rest of the system.                                                 *)

\* payEstimate.
Pay(r) ==
  /\ review[r].status = "UNPAID"
  /\ review' = [review EXCEPT ![r].status = "PENDING"]
  /\ UNCHANGED <<favorite, profile, call>>

\* incrementMoverCareer, on the first of January.
IncrementMoverCareer ==
  /\ \E m \in Existing : profile[m].career < MaxCareer
  /\ profile' = [m \in Movers |->
       IF m \in Existing /\ profile[m].career < MaxCareer
       THEN [profile[m] EXCEPT !.career = @ + 1] ELSE profile[m]]
  /\ call' = Committed(UNION {ProfileRow(m) : m \in Existing}, {}, Idle)
  /\ UNCHANGED <<review, favorite>>

\* deleteMoverAccount, which no unpaid move may stand in the way of.
DeleteMoverAccount(m) ==
  LET about == {r \in Reviews : About[r] = m} IN
  /\ m \in Existing
  /\ \A r \in about : review[r].status # "UNPAID"
  /\ review' = [r \in Reviews |-> IF r \in about THEN Deleted ELSE review[r]]
  /\ favorite' = favorite \ (Customers \X {m})
  /\ profile' = [profile EXCEPT ![m] = Gone]
  /\ call' = Committed(ProfileRow(m) \cup ({"REVIEW", "PHOTOS"} \X about), {}, Idle)

\* The process restarts, or a call's database connection fails.
CallEnds(k) ==
  /\ call[k] # Idle
  /\ call' = [call EXCEPT ![k] = Idle]
  /\ UNCHANGED <<review, favorite, profile>>

Next ==
  \/ \E k \in Calls :
       \/ \E r \in Reviews :
            \/ \E stars \in Ratings : ReviewCheck(k, r, stars)
            \/ \E op \in Photos : ImageCheck(k, r, op)
       \/ \E c \in Customers :
            \/ \E m \in Movers : FavoriteCheck(k, c, m)
            \/ \E asked \in SUBSET Movers : BulkCheck(k, c, asked)
       \/ ReviewBegin(k) \/ ReviewCommit(k) \/ ImageBegin(k) \/ ImageCommit(k)
       \/ FavoriteCreate(k) \/ Conflict(k) \/ CallEnds(k)
  \/ \E c \in Customers, asked \in SUBSET Movers : FavoriteDelete(c, asked)
  \/ \E r \in Reviews : Pay(r)
  \/ \E m \in Movers : DeleteMoverAccount(m)
  \/ IncrementMoverCareer

Spec == Init /\ [][Next]_vars

-----------------------------------------------------------------------------
(* Safety.                                                                 *)

\* A mover's rating and number of reviews are those of the confirmed reviews,
\* whatever is written or edited at once (review.repository.ts: confirmOwned
\* and updateOwned compute one and count the other).
RatingIsAverage ==
  \A m \in Existing :
    /\ profile[m].reviewCount = Cardinality(ConfirmedOf(m))
    /\ profile[m].avgRating = Average(StarsOf(ConfirmedOf(m)))

\* favoriteCount is the number of rows, although nothing ever recounts it
\* (favorite.repository.ts: createOwned, createManyOwned, deleteOwned).
FavoriteCountIsExact ==
  \A m \in Existing :
    profile[m].favoriteCount = Cardinality({c \in Customers : <<c, m>> \in favorite})

\* At most three photos, with an upload between the two counts
\* (review.service.ts: addImage; review.repository.ts: createImage).
ImagesWithinLimit == \A r \in Reviews : review[r].images \in 0..MaxImages

=============================================================================
