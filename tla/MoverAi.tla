------------------------------ MODULE MoverAi ------------------------------
(***************************************************************************)
(* The conversation in which a customer looks for a mover: module mover-ai. *)
(*                                                                         *)
(* A post reads the session and the latest answer, decides from what it    *)
(* read (which may take Gemini twenty seconds), then writes the slots and  *)
(* last the answer.  No transaction holds these steps together, and posts  *)
(* to one session may overlap.                                             *)
(*                                                                         *)
(* Which movers a list or a ranking returns is module MoverSearch's; here  *)
(* it may be any.                                                          *)
(***************************************************************************)
EXTENDS FiniteSets, Integers

CONSTANTS
  Regions, Services, Sorts, Movers,
  PageSize,   \* MOVER_PAGE_SIZE, 3 in the code
  RecentScan, \* RECENT_ASSISTANT_SCAN, 20 in the code
  Calls,      \* posts under way at once
  MaxPosts,   \* bound of the model: posts to the session
  None        \* null

ASSUME MoverAiConstantsOK ==
  /\ None \notin Regions \cup Services \cup Sorts \cup Movers \cup {"browse", "recommend"}
  /\ PageSize \in Nat \ {0} /\ RecentScan \in Nat \ {0}
  /\ MaxPosts \in Nat
  /\ Services # {} /\ Sorts # {}   \* two enumerations of the code

VARIABLES
  slots,      \* region, service and sort of the session's row
  cursor,     \* of the row too: the list it continues, or Nowhere
  answer,     \* payload of the latest ASSISTANT message
  cards,      \* moverIds and hasNext of the latest one that shows movers, how many answers
              \* came since, and whether any was of something else than its favorites
  favorites,  \* whom the customer has added to the favorites from here
  call,
  posts,      \* how many there were
  inOrder     \* the last post that counts ran alone and to its end

vars == <<slots, cursor, answer, cards, favorites, call, posts, inOrder>>

Filters == [region : Regions \cup {None}, service : Services \cup {None}, sort : Sorts \cup {None}]
Empty   == [region |-> None, service |-> None, sort |-> None]
Nowhere == Empty

HasPlace(f)   == f.region # None /\ f.service # None
IsComplete(f) == HasPlace(f) /\ f.sort # None

Modes       == {"browse", "recommend", None}
SlotActions == {"ASK_REGION", "ASK_SERVICE", "ASK_MODE", "ASK_SORT", "SHOW_MOVERS"}
NextActions == SlotActions \cup {"CLARIFY_REGION", "CLARIFY_UNSUPPORTED", "SHOW_RECOMMENDATION"}

\* candidateCount is not stored with an answer that ranks nobody.
Unknown == {None}

Answers == [next : NextActions, filters : Filters, mode : Modes, movers : SUBSET Movers,
            more : BOOLEAN, pick : Movers \cup {None}, among : SUBSET (Movers \cup {None}),
            clarify : SUBSET Regions, favors : BOOLEAN]

\* persistAssistant with no more than it always has.
Says(next, f, mode) ==
  [next |-> next, filters |-> f, mode |-> mode, movers |-> {}, more |-> FALSE,
   pick |-> None, among |-> Unknown, clarify |-> {}, favors |-> FALSE]

-----------------------------------------------------------------------------
(* What an answer offers to press.                                         *)

ChipNames == {"SELECT_SERVICE", "SELECT_SORT", "SELECT_REGION", "RECOMMEND", "BROWSE",
              "SHOW_MORE", "CHANGE_FILTERS", "FAVORITE_ALL"}

ResolveSlotAction(f, mode) ==
  CASE f.region = None  -> "ASK_REGION"
    [] f.region # None /\ f.service = None -> "ASK_SERVICE"
    [] HasPlace(f) /\ f.sort = None -> IF mode = "browse" THEN "ASK_SORT" ELSE "ASK_MODE"
    [] OTHER -> "SHOW_MOVERS"

ChipsForSlotAction == [
  ASK_REGION  |-> {},
  ASK_SERVICE |-> {"SELECT_SERVICE"},
  ASK_MODE    |-> {"RECOMMEND", "BROWSE"},
  ASK_SORT    |-> {"SELECT_SORT"},
  SHOW_MOVERS |-> {"CHANGE_FILTERS"}]

\* buildUi
Chips(a) ==
  CASE a.next \in {"ASK_SERVICE", "ASK_SORT"} -> ChipsForSlotAction[a.next]
    [] a.next = "ASK_MODE" ->
         IF a.among = {} THEN {"CHANGE_FILTERS"} ELSE ChipsForSlotAction[a.next]
    [] a.next = "CLARIFY_REGION" -> {c \in {"SELECT_REGION"} : a.clarify # {}}
    [] a.next = "CLARIFY_UNSUPPORTED" -> ChipsForSlotAction[ResolveSlotAction(a.filters, a.mode)]
    [] a.next = "SHOW_MOVERS" ->
         {"CHANGE_FILTERS"} \cup {c \in {"SHOW_MORE"} : a.more}
           \cup {c \in {"RECOMMEND", "FAVORITE_ALL"} : a.movers # {}}
    [] a.next = "SHOW_RECOMMENDATION" ->
         {"CHANGE_FILTERS"} \cup {c \in {"BROWSE"} : Cardinality(a.among) > 1}
           \cup {c \in {"FAVORITE_ALL"} : a.movers # {}}
    [] OTHER -> {}

-----------------------------------------------------------------------------
(* What is decided: the answer, and before it the row of the session.      *)

Plan(f, list, a) == [writes |-> TRUE, filters |-> f, cursor |-> list, answer |-> a, idle |-> FALSE]
Reply(f, a)      == [Plan(f, Nowhere, a) EXCEPT !.writes = FALSE]

Pages == {p \in SUBSET Movers : Cardinality(p) <= PageSize}
FullPages == {p \in Pages : Cardinality(p) = PageSize}

Listed(f, page, more) ==
  [Says("SHOW_MOVERS", f, "browse") EXCEPT !.movers = page, !.more = more]

\* respondShowMovers: the cursor is that of the page shown, which is full if another
\* follows.
ShowMovers(f) ==
  {Plan(f, Nowhere, Listed(f, page, FALSE)) : page \in Pages}
    \cup {Plan(f, f, Listed(f, page, TRUE)) : page \in FullPages}

\* respondShowRecommendation.  A mutant first: the pinned mover is ranked again.
RankedAgain(candidates, pinned) == candidates
Best(candidates, pinned) == IF pinned \in candidates THEN {pinned} ELSE candidates

ShowRecommendation(f, candidates, pinned) ==
  IF candidates = {}
  THEN {Plan(f, Nowhere, [Says("ASK_MODE", f, None) EXCEPT !.among = {}])}
  ELSE {Plan(f, Nowhere, [Says("SHOW_RECOMMENDATION", f, "recommend") EXCEPT
                            !.movers = {m}, !.pick = m, !.among = candidates]) :
          m \in Best(candidates, pinned)}

Recommend(f, pinned) == UNION {ShowRecommendation(f, cs, pinned) : cs \in SUBSET Movers}

\* respondBySlots
BySlots(f, mode) ==
  LET slot == ResolveSlotAction(f, mode)
      ask  == Plan(f, Nowhere, Says(slot, f, IF slot = "ASK_SORT" THEN "browse" ELSE mode))
      few  == {cs \in SUBSET Movers : Cardinality(cs) <= 1}
  IN CASE mode = "recommend" /\ HasPlace(f) /\ f.sort = None -> Recommend(f, None)
       [] slot = "SHOW_MOVERS" -> ShowMovers(f)
       [] slot = "ASK_MODE" ->
            {ask} \cup UNION {ShowRecommendation(f, cs, None) : cs \in few}
       [] OTHER -> {ask}

\* A choice between list and recommendation lasts while the place does.
CarryListMode(previous, f) ==
  IF /\ HasPlace(f)
     /\ previous.filters.region = f.region
     /\ previous.filters.service = f.service
  THEN previous.mode ELSE None

InRegion(f, r) == [f EXCEPT !.region = r]

\* respondChangeAllFilters, respondPartialFilterReset
ChangeAllFilters == {Plan(Empty, Nowhere, Says("ASK_REGION", Empty, None))}
PartialFilterReset(f, intent) ==
  IF intent = "REGION"
  THEN {Plan(InRegion(f, None), Nowhere, Says("ASK_REGION", InRegion(f, None), None))}
  ELSE {Plan([f EXCEPT !.service = None], Nowhere, Says("ASK_SERVICE", [f EXCEPT !.service = None], None))}

\* handleShowMore
ShowMore(f, list) ==
  CASE ~IsComplete(f) -> {}
    [] IsComplete(f) /\ list = Nowhere -> {Reply(f, Says("SHOW_MOVERS", f, None))}
    [] OTHER -> ShowMovers(f)

\* handleClientAction, but for FAVORITE_ALL.
ByChip(chip, f, list) ==
  CASE chip = "SELECT_SERVICE" -> UNION {BySlots([f EXCEPT !.service = s], None) : s \in Services}
    [] chip = "SELECT_SORT"    -> UNION {BySlots([f EXCEPT !.sort = s], "browse") : s \in Sorts}
    [] chip = "SELECT_REGION"  -> UNION {BySlots(InRegion(f, r), None) : r \in Regions}
    [] chip = "RECOMMEND"      -> IF HasPlace(f) THEN Recommend(f, None) ELSE {}
    [] chip = "BROWSE"         -> IF HasPlace(f) THEN BySlots(f, "browse") ELSE {}
    [] chip = "SHOW_MORE"      -> ShowMore(f, list)
    [] chip = "CHANGE_FILTERS" -> ChangeAllFilters

-----------------------------------------------------------------------------
(* What a text can lead to.  w holds what its words name.                  *)

Named(w, f) == [
  region  |-> IF w.region # None THEN w.region ELSE f.region,
  service |-> IF w.service # None THEN w.service ELSE f.service,
  sort    |-> IF w.sort # None THEN w.sort ELSE f.sort]

Unnamed(f) == InRegion(f, None)
NamesPlace == Filters \ {Empty}

\* After a question which region was meant: by number, label or province.
ByClarifyChoice(previous, f) ==
  UNION {BySlots(InRegion(Named(w, f), r), None) :
           w \in Filters, r \in {r \in previous.clarify : previous.next = "CLARIFY_REGION"}}

\* The regions that share a name.
AmbiguousPlaces == (SUBSET Regions) \ {{}}

WhichRegion(f, options) == [Says("CLARIFY_REGION", f, None) EXCEPT !.clarify = options]

\* Such a name is asked about, never guessed.
ByAmbiguousPlace(f) ==
  {Plan(Unnamed(Named(w, f)), Nowhere, WhichRegion(Unnamed(Named(w, f)), options)) :
     w \in Filters, options \in AmbiguousPlaces}

Cleared(f, intent) ==
  CASE intent = "ALL"     -> Empty
    [] intent = "REGION"  -> [f EXCEPT !.region = None]
    [] intent = "SERVICE" -> [f EXCEPT !.service = None]

ByNames(w, f, previous) == BySlots(Named(w, f), CarryListMode(previous, Named(w, f)))

ByResetAndNames(previous, f) ==
  UNION {ByNames(w, Cleared(f, intent), previous) :
           intent \in {"ALL", "REGION", "SERVICE"}, w \in NamesPlace}

ByReset(previous, f) ==
  ChangeAllFilters
    \cup PartialFilterReset(f, "REGION") \cup PartialFilterReset(f, "SERVICE")
    \cup ByResetAndNames(previous, f)

ByFixedFlow(previous, f) == UNION {ByNames(w, f, previous) : w \in NamesPlace}

ByMode(f) == IF HasPlace(f) THEN Recommend(f, None) \cup BySlots(f, "browse") ELSE {}

\* Gemini does not answer in time.
ByFallback(previous, f) ==
  LET slot == ResolveSlotAction(f, previous.mode) IN
  {Plan(f, Nowhere, IF slot = "SHOW_MOVERS" THEN Says("ASK_REGION", f, None)
                                            ELSE Says(slot, f, previous.mode))}

\* A mutant: the cursor stays although the slots change.
CursorStays(f, n, list) == list

KeptCursor(f, n, list) == IF n = f THEN list ELSE Nowhere

\* While a list or a recommendation is shown, words that change nothing show it
\* again.
ShowAgain(previous, f) ==
  {[p EXCEPT !.idle = TRUE] :
     p \in IF IsComplete(f) THEN ShowMovers(f) ELSE Recommend(f, previous.pick)}

IsShowing(previous, f) ==
  IsComplete(f) \/ (HasPlace(f) /\ (previous.next = "SHOW_RECOMMENDATION" \/ previous.mode = "recommend"))

\* What Gemini suggests and the filters it fills in, checked by its schema.
Suggestions == {"CLARIFY_REGION", "CLARIFY_UNSUPPORTED", "ANY_OTHER"}

ByGemini(suggested, w, previous, f, list) ==
  LET n         == IF suggested = "CLARIFY_REGION" THEN Unnamed(Named(w, f)) ELSE Named(w, f)
      carried   == CarryListMode(previous, n)
      unrelated == suggested = "CLARIFY_UNSUPPORTED"
      says(next) == {Plan(n, KeptCursor(f, n, list), Says(next, n, carried))}
  IN CASE suggested = "CLARIFY_REGION"       -> says("ASK_REGION")
       [] suggested # "CLARIFY_REGION" /\ (unrelated \/ n = f) ->
            IF IsShowing(previous, f) THEN ShowAgain(previous, f) ELSE says("CLARIFY_UNSUPPORTED")
       [] OTHER -> BySlots(n, carried)

\* postMessage without a client action: the first rule that applies decides; a
\* text can be one that any of them is the first to apply to.
ByText(previous, f, list) ==
  ByClarifyChoice(previous, f) \cup ByAmbiguousPlace(f) \cup ByReset(previous, f)
    \cup ByFixedFlow(previous, f) \cup ByMode(f) \cup ByFallback(previous, f)
    \cup UNION {ByGemini(suggested, w, previous, f, list) :
                  suggested \in Suggestions, w \in Filters}

-----------------------------------------------------------------------------
(* The steps of a post.                                                    *)

Idle == [op |-> "IDLE"]

CallStates ==
  {Idle} \cup [op : {"LOADED"}, chip : ChipNames \cup {"TEXT"}, filters : Filters, cursor : Filters,
                alone : BOOLEAN]
         \cup [op : {"DECIDED"}, filters : Filters, cursor : Filters, answer : Answers,
                idle : BOOLEAN, writes : BOOLEAN, alone : BOOLEAN]
         \cup [op : {"WRITTEN"}, answer : Answers, idle : BOOLEAN, writes : BOOLEAN,
                alone : BOOLEAN]

TypeOK ==
  /\ slots \in Filters
  /\ cursor \in Filters
  /\ answer \in Answers
  /\ cards \in [movers : SUBSET Movers, more : BOOLEAN, since : 0..RecentScan, covered : BOOLEAN]
  /\ favorites \in SUBSET Movers
  /\ call \in [Calls -> CallStates]
  /\ posts \in 0..MaxPosts
  /\ inOrder \in BOOLEAN

\* createSession
Init ==
  /\ slots = Empty
  /\ cursor = Nowhere
  /\ answer = Says("ASK_REGION", Empty, None)
  /\ cards = [movers |-> {}, more |-> FALSE, since |-> 0, covered |-> FALSE]
  /\ favorites = {}
  /\ call = [k \in Calls |-> Idle]
  /\ posts = 0
  /\ inOrder = TRUE

Becomes(k, state) == call' = [call EXCEPT ![k] = state]
Ends(k) == Becomes(k, Idle)

\* loadOwnedSession: of a text or of any action, for nobody asks whether the latest
\* answer offers it.
Post(k, chip) ==
  LET others == {j \in Calls : call[j] # Idle} IN
  /\ call[k] = Idle
  /\ posts < MaxPosts
  /\ posts' = posts + 1
  /\ call' = [j \in Calls |->
       IF j = k THEN [op |-> "LOADED", chip |-> chip, filters |-> slots, cursor |-> cursor,
                      alone |-> others = {}]
       ELSE IF j \in others THEN [call[j] EXCEPT !.alone = FALSE] ELSE Idle]
  /\ UNCHANGED <<slots, cursor, answer, cards, favorites, inOrder>>

\* findLatestAssistant, and all up to the first write; or a refusal.
Decide(k) ==
  LET c     == call[k]
      plans == IF c.chip = "TEXT" THEN ByText(answer, c.filters, c.cursor)
               ELSE ByChip(c.chip, c.filters, c.cursor)
  IN
  /\ c.op = "LOADED" /\ c.chip # "FAVORITE_ALL"
  /\ \/ /\ plans = {}
        /\ Ends(k)
     \/ \E p \in plans : Becomes(k,
          [op |-> "DECIDED", filters |-> p.filters, cursor |-> p.cursor, answer |-> p.answer,
           idle |-> p.idle, writes |-> p.writes, alone |-> c.alone])
  /\ UNCHANGED <<slots, cursor, answer, cards, favorites, posts, inOrder>>

\* A mutant: the next page is offered with the favorites of a recommendation too.
AlwaysMore == TRUE

MoreAfterFavorites == cards.more

\* findLatestRecommendation looks through so many answers.
Found == IF cards.since < RecentScan THEN cards.movers ELSE {}

\* handleFavoriteAll, with bulkCreate: what the latest cards show, be they the answer
\* on the screen or an earlier one.
FavoriteAll(k) ==
  LET c == call[k] IN
  /\ c.op = "LOADED" /\ c.chip = "FAVORITE_ALL"
  /\ IF Found = {} THEN Ends(k)
     ELSE Becomes(k, [op |-> "WRITTEN", idle |-> FALSE, writes |-> FALSE, alone |-> c.alone,
                      answer |-> [Says("SHOW_MOVERS", c.filters, answer.mode) EXCEPT
                                    !.more = MoreAfterFavorites, !.favors = TRUE]])
  /\ favorites' = favorites \cup Found
  /\ UNCHANGED <<slots, cursor, answer, cards, posts, inOrder>>

\* updateSessionSlots: slots and cursor in one write, of what the post read.
UpdateSessionSlots(k) ==
  LET c == call[k] IN
  /\ c.op = "DECIDED"
  /\ IF c.writes THEN slots' = c.filters /\ cursor' = c.cursor
                 ELSE UNCHANGED <<slots, cursor>>
  /\ Becomes(k, [op |-> "WRITTEN", answer |-> c.answer, idle |-> c.idle, writes |-> c.writes,
                 alone |-> c.alone])
  /\ UNCHANGED <<answer, cards, favorites, posts, inOrder>>

\* persistAssistant
PersistAssistant(k) ==
  LET c == call[k] IN
  /\ c.op = "WRITTEN"
  /\ answer' = c.answer
  /\ cards' =
       IF c.answer.movers = {}
       THEN [cards EXCEPT !.since = IF @ < RecentScan THEN @ + 1 ELSE @,
                          !.covered = @ \/ ~c.answer.favors]
       ELSE [movers |-> c.answer.movers, more |-> c.answer.more, since |-> 0, covered |-> FALSE]
  /\ inOrder' = (c.alone /\ (c.writes \/ inOrder))
  /\ Ends(k)
  /\ UNCHANGED <<slots, cursor, favorites, posts>>

\* A query fails, or the process ends.
CallFails(k) ==
  /\ call[k] # Idle
  /\ inOrder' = (inOrder /\ ~(call[k].op = "WRITTEN" /\ call[k].writes))
  /\ Ends(k)
  /\ UNCHANGED <<slots, cursor, answer, cards, favorites, posts>>

Next == \E k \in Calls :
  \/ \E chip \in {"TEXT"} \cup ChipNames : Post(k, chip)
  \/ Decide(k) \/ FavoriteAll(k) \/ UpdateSessionSlots(k) \/ PersistAssistant(k)
  \/ CallFails(k)

Spec == Init /\ [][Next]_vars

-----------------------------------------------------------------------------
(* Safety.                                                                 *)

\* Whatever overlaps or fails, a stored cursor continues the list of the stored
\* slots, so that another page is never one of other conditions (every
\* updateSessionSlots of mover-ai.service.ts).
CursorBelongsToSlots == cursor # Nowhere => cursor = slots /\ IsComplete(slots)

\* After a post that ran alone the answer is about the slots that are stored, and
\* each chip it offers does what it says: none is refused, there is a next page to
\* show, and the favorites are the movers on the screen.  The one exception is the next
\* page that is offered with favorites added from behind a later answer: listMeta is
\* copied from cards that the session has left (buildUi, handleClientAction,
\* handleFavoriteAll).
AnswerFitsSession ==
  inOrder /\ (\A k \in Calls : call[k] = Idle) =>
    /\ answer.filters = slots
    /\ \A chip \in Chips(answer) :
         \/ chip = "FAVORITE_ALL" /\ Found = answer.movers
         \/ chip = "SHOW_MORE" /\ answer.favors /\ cards.covered
         \/ /\ chip # "FAVORITE_ALL"
            /\ ByChip(chip, slots, cursor) # {}
            /\ chip = "SHOW_MORE" => cursor # Nowhere

\* Words that change nothing, said alone while a recommendation is shown.
IdleTalk(k) ==
  /\ inOrder
  /\ call[k].op = "WRITTEN" /\ call[k].alone /\ call[k].idle
  /\ answer.next = "SHOW_RECOMMENDATION"

\* The recommendation on the screen stays: the same mover as long as it can be one.
Stays ==
  \/ /\ answer'.next = "ASK_MODE"
     /\ answer'.among = {}
  \/ /\ answer'.next = "SHOW_RECOMMENDATION"
     /\ answer.pick \in answer'.among => answer'.pick = answer.pick

\* Without a sort order, words that change nothing keep the recommendation
\* (mover-ai.service.ts: postMessage, respondShowRecommendation).
RecommendationStays ==
  [][\A k \in Calls : IdleTalk(k) /\ answer.filters.sort = None /\ answer' # answer => Stays]_vars

=============================================================================
