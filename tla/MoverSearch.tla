----------------------------- MODULE MoverSearch -----------------------------
(***************************************************************************)
(* Finding a mover: a client that asks for page after page of the list     *)
(* (mover.service, mover.repository), and one to whom a single mover is    *)
(* recommended (mover-ai.rank), while reviews, confirmations and the       *)
(* yearly job change the figures on which both depend.                     *)
(***************************************************************************)
EXTENDS Integers, FiniteSets, FiniteSetsExt

CONSTANTS
  Movers,     \* ids
  Profiles,   \* MoverProfile rows of the model: rating in tenths, reviews, career, confirmed
  PageSize,   \* limit
  Elsewhere,  \* sums and counts of the ratings of the movers who are not listed
  Scale,      \* a multiple of every reviews + PRIOR_WEIGHT
  Precision,  \* what lies within 1 / Precision is tied: 10^9 in the code
  Rounding    \* by how many roundings two equal ratings may come out apart

PriorWeight == 5

ASSUME SearchConstantsOK ==
  /\ Movers \subseteq Int /\ IsFiniteSet(Movers)
  /\ Profiles \subseteq [rating : Int, review : Nat, career : Int, confirmed : Int]
  /\ PageSize \in Nat \ {0}
  /\ Elsewhere \subseteq [sum : Nat, count : Nat]
  /\ Scale \in Nat \ {0}
  /\ Precision \in Nat \ {0} /\ Rounding \in Nat

ASSUME ScaleIsExact == \A row \in Profiles : Scale % (row.review + PriorWeight) = 0

VARIABLES
  row,         \* by mover: its figures; NotListed without a profile in this region and service
  sort,        \* of the list being read; "NONE" before the first page
  nextCursor,  \* the id and figures of the last mover shown
  hasNext,     \* there is another page
  timesShown,  \* history: how often each mover has been shown in this reading
  changed,     \* history: the movers whose row has changed since it began
  ranked       \* the recommendation being computed

listVars == <<sort, nextCursor, hasNext, timesShown, changed>>
searchVars == <<row, listVars, ranked>>

Sorts     == {"rating", "review", "career", "confirmed"}
NotListed == [listed |-> FALSE]
NoCursor  == [id |-> "NONE"]
NotRanking == [phase |-> "NONE"]

ListedMovers == {m \in Movers : row[m] # NotListed}

Cursors == {NoCursor} \cup [id : Movers, row : Profiles]

SearchTypeOK ==
  /\ row \in [Movers -> Profiles \cup {NotListed}]
  /\ sort \in Sorts \cup {"NONE"}
  /\ nextCursor \in Cursors
  /\ hasNext \in BOOLEAN
  /\ timesShown \in [Movers -> Nat]
  /\ changed \in SUBSET Movers

SearchInit ==
  /\ row \in [Movers -> Profiles \cup {NotListed}]
  /\ sort = "NONE"
  /\ nextCursor = NoCursor
  /\ hasNext = FALSE
  /\ timesShown = [m \in Movers |-> 0]
  /\ changed = {}
  /\ ranked = NotRanking

-----------------------------------------------------------------------------
(* The list, by value and then by id, both descending.                     *)

\* buildOrderBy, and buildCursorWhere read from the other side.
Before(value, id, value2, id2) == value > value2 \/ (value = value2 /\ id > id2)

Precedes(m, n) == Before(row[m][sort], m, row[n][sort], n)

\* A mutant: two movers with the same value are not told apart.
AfterCursorValue(m) == nextCursor = NoCursor \/ row[m][sort] < nextCursor.row[sort]

\* The cursor compares with the value it remembers.
AfterCursor(m) ==
  nextCursor = NoCursor \/ Before(nextCursor.row[sort], nextCursor.id, row[m][sort], m)

Remaining == {m \in ListedMovers : AfterCursor(m)}

\* findList takes one more than a page, which shows whether there are more.
FirstMovers(S, n) == {m \in S : Cardinality({x \in S : Precedes(x, m)}) < n}

LastOf(page) == CHOOSE m \in page : \A x \in page : ~Precedes(m, x)

ShowPage ==
  LET page == FirstMovers(Remaining, PageSize)
      last == LastOf(page) IN
  /\ timesShown' = [m \in Movers |-> IF m \in page THEN timesShown[m] + 1 ELSE timesShown[m]]
  /\ hasNext' = (Remaining # page)
  /\ nextCursor' = IF Remaining # page THEN [id |-> last, row |-> row[last]] ELSE NoCursor
  /\ UNCHANGED <<row, sort, changed, ranked>>

\* A client begins to read.
OpenSearch(by) ==
  /\ sort = "NONE" /\ ranked = NotRanking
  /\ sort' = by
  /\ hasNext' = TRUE
  /\ UNCHANGED <<row, nextCursor, timesShown, changed, ranked>>

\* listByFilters: the first page without a cursor, the next ones with it.
ListByFilters ==
  /\ sort # "NONE" /\ hasNext
  /\ ShowPage

CloseSearch ==
  /\ sort # "NONE"
  /\ sort' = "NONE"
  /\ nextCursor' = NoCursor
  /\ hasNext' = FALSE
  /\ timesShown' = [m \in Movers |-> 0]
  /\ changed' = {}
  /\ UNCHANGED <<row, ranked>>

-----------------------------------------------------------------------------
(* The recommendation.                                                     *)

\* Averages are kept as a sum and a count, so as to stay with integers.
NoReviewsMean == [sum |-> 40, count |-> 1]

\* getReviewedRatingMean, of all movers with a review, wherever they serve.
ReviewedMean(others) ==
  LET reviewed == {m \in ListedMovers : row[m].review > 0}
      count == Cardinality(reviewed) + others.count IN
  IF count = 0 THEN NoReviewsMean
  ELSE [sum |-> MapThenSumSet(LAMBDA m : row[m].rating, reviewed) + others.sum, count |-> count]

\* bayesianRating, times Scale and mean.count.
BayesianRating(f, mean) ==
  ((f.review * f.rating * mean.count + PriorWeight * mean.sum) * Scale) \div (f.review + PriorWeight)

\* Floating point: ratings that are equal may come out a few roundings apart,
\* though not those of the same reviews and rating.  A difference is far larger.
Roundings(candidates, mean) ==
  LET D == DOMAIN candidates IN
  IF Cardinality({BayesianRating(candidates[m], mean) : m \in D}) > 1 THEN {[m \in D |-> 0]}
  ELSE {g \in [D -> 0..Rounding] :
          \A m, n \in D : candidates[m].rating = candidates[n].rating
                            /\ candidates[m].review = candidates[n].review => g[m] = g[n]}

\* normalize: how far a value is above the least one, of how much.
Above(values, v)  == IF Max(values) = Min(values) THEN 1 ELSE v - Min(values)
Width(values)     == IF Max(values) = Min(values) THEN 1 ELSE Max(values) - Min(values)

Computed(r)  == [m \in DOMAIN r.candidates |->
                   BayesianRating(r.candidates[m], r.mean) + r.rounding[m]]
Bayes(r)     == {Computed(r)[m] : m \in DOMAIN r.candidates}
Careers(r)   == {r.candidates[m].career : m \in DOMAIN r.candidates}
Confirmed(r) == {r.candidates[m].confirmed : m \in DOMAIN r.candidates}

\* The three fractions of the score, each times the product of the widths.
Score(r, m) ==
  Above(Bayes(r), Computed(r)[m]) * Width(Careers(r)) * Width(Confirmed(r))
    + Above(Careers(r), r.candidates[m].career) * Width(Bayes(r)) * Width(Confirmed(r))
    + Above(Confirmed(r), r.candidates[m].confirmed) * Width(Bayes(r)) * Width(Careers(r))

Rating(r, m) == BayesianRating(r.candidates[m], r.mean)

\* One, in the units of Score and of Rating: the code divides by 3, ratings are in tenths.
OneScore(r)  == 3 * Width(Bayes(r)) * Width(Careers(r)) * Width(Confirmed(r))
OneRating(r) == 10 * Scale * r.mean.count

\* x > y + 1e-9, and |x - y| <= 1e-9, for one of theirs.
Exceeds(x, y, one) == x * Precision > y * Precision + one
Ties(x, y, one)    == ~Exceeds(x, y, one) /\ ~Exceeds(y, x, one)

\* isBetterTie.
IsBetterTie(f, m, g, n) ==
  \/ f.confirmed > g.confirmed
  \/ f.confirmed = g.confirmed /\ f.career > g.career
  \/ f.confirmed = g.confirmed /\ f.career = g.career /\ m < n

\* A mutant: of two with the same score the one read first stays.
HigherScoreOnly(r, m, n) == Exceeds(Score(r, m), Score(r, n), OneScore(r))

Beats(r, m, n) ==
  \/ Exceeds(Score(r, m), Score(r, n), OneScore(r))
  \/ /\ Ties(Score(r, m), Score(r, n), OneScore(r))
     /\ \/ Exceeds(Rating(r, m), Rating(r, n), OneRating(r))
        \/ /\ Ties(Rating(r, m), Rating(r, n), OneRating(r))
           /\ IsBetterTie(r.candidates[m], m, r.candidates[n], n)

\* listRankCandidates, in whatever order the database returns them.
ListRankCandidates ==
  /\ ranked = NotRanking /\ sort = "NONE" /\ ListedMovers # {}
  /\ ranked' = [phase |-> "READ", candidates |-> [m \in ListedMovers |-> row[m]]]
  /\ UNCHANGED <<row, listVars>>

ReadMean ==
  /\ ranked.phase = "READ"
  /\ \E others \in Elsewhere :
       \E g \in Roundings(ranked.candidates, ReviewedMean(others)) :
         ranked' = [phase |-> "PICK", candidates |-> ranked.candidates,
                    mean |-> ReviewedMean(others), rounding |-> g,
                    left |-> DOMAIN ranked.candidates, best |-> {}]
  /\ UNCHANGED <<row, listVars>>

\* One turn of the loop of pickBestMover.
PickBestMover ==
  /\ ranked.phase = "PICK"
  /\ \E m \in ranked.left :
       ranked' = [ranked EXCEPT !.left = @ \ {m},
                    !.best = IF \A n \in @ : Beats(ranked, m, n) THEN {m} ELSE @]
  /\ UNCHANGED <<row, listVars>>

ShowRecommendation ==
  /\ ranked.phase = "PICK" /\ ranked.left = {}
  /\ ranked' = NotRanking
  /\ UNCHANGED <<row, listVars>>

-----------------------------------------------------------------------------
(* The rest of the system: reviews, confirmations, cancellations, the      *)
(* career job, profiles that are made, edited and deleted.  The loop works *)
(* on what has been read and does not pause, so no step falls within it.   *)

RowChanges(m) ==
  /\ ranked.phase # "PICK"
  /\ \E r \in (Profiles \cup {NotListed}) \ {row[m]} : row' = [row EXCEPT ![m] = r]
  /\ changed' = IF sort = "NONE" THEN changed ELSE changed \cup {m}
  /\ UNCHANGED <<sort, nextCursor, hasNext, timesShown, ranked>>

SearchNext ==
  \/ \E by \in Sorts : OpenSearch(by)
  \/ ListByFilters \/ CloseSearch
  \/ ListRankCandidates \/ ReadMean \/ PickBestMover \/ ShowRecommendation
  \/ \E m \in Movers : RowChanges(m)

SearchSpec == SearchInit /\ [][SearchNext]_searchVars

-----------------------------------------------------------------------------
(* Safety.                                                                 *)

\* Whoever reads the list page by page is shown each mover whose row has not
\* changed meanwhile exactly once, although rows move across the cursor
\* (mover.repository.ts: buildOrderBy, buildCursorWhere; limit + 1).
UnchangedSeenOnce ==
  \A m \in ListedMovers \ changed :
    sort # "NONE" =>
      timesShown[m] = IF ~hasNext \/ (nextCursor # NoCursor /\ ~AfterCursor(m)) THEN 1 ELSE 0

\* The recommended mover is the best of the candidates that were read, in the
\* order of score, rating, confirmations, career and id, whatever order the
\* database returned them in, when no two of their scores and no two of their
\* ratings differ by less than 1e-9.  When some do, the pick depends on that order;
\* then it is still within 1e-9 of the best score for each other candidate, so that
\* no chain of near ties leads far down (mover-ai.rank.ts: pickBestMover).
Rated(r, m) == [score |-> Score(r, m), bayes |-> Rating(r, m),
                confirmed |-> r.candidates[m].confirmed,
                career |-> r.candidates[m].career]

\* The order, key by key: the first key in which they differ decides.
Outranks(r, m, n) ==
  LET keys == <<"score", "bayes", "confirmed", "career">>
      a == Rated(r, m)
      b == Rated(r, n)
      differ == {i \in 1..4 : a[keys[i]] # b[keys[i]]} IN
  IF differ = {} THEN m < n ELSE a[keys[Min(differ)]] > b[keys[Min(differ)]]

\* Among these, what ties is equal.
Distinct(r, S) ==
  \A m, n \in S :
    /\ Ties(Score(r, m), Score(r, n), OneScore(r)) => Score(r, m) = Score(r, n)
    /\ Ties(Rating(r, m), Rating(r, n), OneRating(r)) => Rating(r, m) = Rating(r, n)

BestIsPicked ==
  ranked.phase = "PICK" =>
    LET seen == DOMAIN ranked.candidates \ ranked.left IN
    /\ ranked.best \subseteq seen
    /\ seen # {} => Cardinality(ranked.best) = 1
    /\ \A m \in ranked.best, n \in seen :
         /\ ~Exceeds(Score(ranked, n), Score(ranked, m),
                     (Cardinality(seen) - 1) * OneScore(ranked))
         /\ Distinct(ranked, seen) => m = n \/ Outranks(ranked, m, n)

=============================================================================
