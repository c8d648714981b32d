--------------------------- MODULE MoverAi_proofs ---------------------------
(***************************************************************************)
(* Proofs about MoverAi: the type invariant; that the stored cursor always *)
(* continues the list of the stored slots; that after a post of its own    *)
(* the answer fits the session; and that a recommendation stays.           *)
(*                                                                         *)
(* No lock protects the row, so the argument is about each plan by itself: *)
(* whichever rule made it, its cursor continues the list of its own slots, *)
(* its answer is about them, and its chips can be answered for them.  A    *)
(* post writes its cursor and slots together, and hands on only what it    *)
(* has read, which was written together too.  That the answer and the row  *)
(* are of one post is what a post alone adds.                              *)
(***************************************************************************)
EXTENDS MoverAi, FiniteSetTheorems, TLAPS

\* The list that a cursor continues is that of the slots f.
Continues(list, f) == list # Nowhere => list = f /\ IsComplete(f)

\* The answer is about the slots f, and what it offers can be done with them; but for
\* the next page, if it was copied from cards behind a later answer.
Suits(a, f, list, behind) ==
  /\ a.filters = f
  /\ ("RECOMMEND" \in Chips(a) \/ "BROWSE" \in Chips(a)) => HasPlace(f)
  /\ "SHOW_MORE" \in Chips(a) => list # Nowhere \/ behind
  /\ a.more => a.next = "SHOW_MOVERS"

\* What a plan says, which adds no favorites.
Fits(a, f, list) == Suits(a, f, list, FALSE) /\ ~a.favors

\* What may be on the screen.
IsShown(a) == Suits(a, slots, cursor, a.favors /\ cards.covered)

Plans == [writes : BOOLEAN, filters : Filters, cursor : Filters, answer : Answers,
          idle : BOOLEAN]

\* A plan that is safe to write, whenever it was made.
GoodPlans ==
  {p \in Plans : p.writes /\ Continues(p.cursor, p.filters) /\ Fits(p.answer, p.filters, p.cursor)}

\* One that was not made of idle talk.
FreshPlans == {p \in GoodPlans : ~p.idle}

\* What an open post carries from its read to its write.
CallContinues(c) ==
  /\ c.op = "LOADED" => Continues(c.cursor, c.filters)
  /\ c.op = "DECIDED" /\ c.writes => Continues(c.cursor, c.filters)

\* The inductive strengthening: each post carries a cursor of its own slots.
AiInv ==
  /\ TypeOK
  /\ Continues(cursor, slots)
  /\ \A k \in Calls : CallContinues(call[k])

\* No other post is open, and none was since this one was opened.
Alone(k) == call[k] # Idle /\ call[k].alone

\* The row is of this post, the answer not yet.
HalfWritten(k) == call[k].op = "WRITTEN" /\ call[k].writes

\* What words that change nothing may be answered, given the latest answer.
Again(f) == {p.answer : p \in ShowAgain(answer, f)}

\* What a post alone carries: nobody changes what it has read.
CallFits(c) ==
  /\ c.op = "LOADED" =>
       c.filters = slots /\ c.cursor = cursor
  /\ c.op = "DECIDED" =>
       /\ IF c.writes THEN Fits(c.answer, c.filters, c.cursor)
                      ELSE Fits(c.answer, slots, cursor)
       /\ c.idle => c.writes /\ c.filters = slots /\ HasPlace(slots) /\ c.answer \in Again(slots)
  /\ c.op = "WRITTEN" =>
       /\ c.writes \/ inOrder => IsShown(c.answer)
       /\ c.answer.favors => ~c.writes /\ c.answer.movers = {}
       /\ c.idle => /\ HasPlace(slots) /\ c.answer \in Again(slots)
                    /\ inOrder => answer.filters = slots

\* The answer is of this session, and so are cards that only favorites came after.
ScreenFits == IsShown(answer) /\ (cards.more /\ ~cards.covered => cursor # Nowhere)

\* The inductive strengthening of AnswerFitsSession.
FitInv ==
  /\ answer.movers # {} =>
       cards = [movers |-> answer.movers, more |-> answer.more, since |-> 0, covered |-> FALSE]
  /\ \A k \in Calls : Alone(k) => \A j \in Calls \ {k} : call[j] = Idle
  /\ inOrder /\ (\A k \in Calls : ~HalfWritten(k)) => ScreenFits
  /\ \A k \in Calls : Alone(k) => CallFits(call[k])

-----------------------------------------------------------------------------
(* What an answer offers.                                                  *)

LEMMA EmptyIsFilter == Empty \in Filters
BY DEF Empty, Filters

LEMMA SaysIsAnswer ==
  ASSUME NEW next \in NextActions, NEW f \in Filters, NEW mode \in Modes
  PROVE  Says(next, f, mode) \in Answers
BY DEF Says, Answers, Unknown

LEMMA SlotActionIsOne ==
  ASSUME NEW f \in Filters, NEW mode \in Modes
  PROVE  ResolveSlotAction(f, mode) \in SlotActions
BY DEF ResolveSlotAction, SlotActions, HasPlace

\* What each chip of an answer says of it.
LEMMA ChipsTell ==
  ASSUME NEW a \in Answers, NEW chip \in Chips(a)
  PROVE  /\ chip \in ChipNames
         /\ chip = "SHOW_MORE" => a.next = "SHOW_MOVERS" /\ a.more
         /\ chip = "FAVORITE_ALL" =>
              a.next \in {"SHOW_MOVERS", "SHOW_RECOMMENDATION"} /\ a.movers # {}
         /\ chip = "SELECT_REGION" => a.clarify # {}
         /\ chip \in {"RECOMMEND", "BROWSE"} =>
              \/ a.next = "ASK_MODE" /\ a.among # {}
              \/ a.next = "SHOW_RECOMMENDATION"
              \/ a.next = "SHOW_MOVERS" /\ a.movers # {}
              \/ HasPlace(a.filters)
<1> DEFINE slot == ResolveSlotAction(a.filters, a.mode)
<1>1. slot \in SlotActions
  BY SlotActionIsOne DEF Answers
<1>2. slot = "ASK_MODE" => HasPlace(a.filters)
  BY DEF ResolveSlotAction, HasPlace
<1> HIDE DEF slot
<1>3. \A t \in SlotActions :
        /\ ChipsForSlotAction[t] \subseteq
             {"SELECT_SERVICE", "SELECT_SORT", "RECOMMEND", "BROWSE", "CHANGE_FILTERS"}
        /\ "RECOMMEND" \in ChipsForSlotAction[t] \/ "BROWSE" \in ChipsForSlotAction[t]
             => t = "ASK_MODE"
  BY DEF ChipsForSlotAction, SlotActions
<1>4. a.next \in NextActions
  BY DEF Answers
<1>5. CASE a.next \in {"ASK_SERVICE", "ASK_SORT"}
  BY <1>3, <1>5 DEF Chips, ChipNames, SlotActions
<1>6. CASE a.next = "ASK_MODE"
  BY <1>3, <1>6 DEF Chips, ChipNames, SlotActions
<1>7. CASE a.next = "CLARIFY_REGION"
  BY <1>7 DEF Chips, ChipNames
<1>8. CASE a.next = "CLARIFY_UNSUPPORTED"
  <2>1. chip \in ChipsForSlotAction[slot]
    BY <1>8 DEF Chips, slot
  <2>2. chip \in {"SELECT_SERVICE", "SELECT_SORT", "RECOMMEND", "BROWSE", "CHANGE_FILTERS"}
    BY <1>1, <1>3, <2>1
  <2>3. chip \in {"RECOMMEND", "BROWSE"} => HasPlace(a.filters)
    BY <1>1, <1>2, <1>3, <2>1
  <2> QED BY <2>2, <2>3 DEF ChipNames
<1>9. CASE a.next = "SHOW_MOVERS"
  BY <1>9 DEF Chips, ChipNames
<1>10. CASE a.next = "SHOW_RECOMMENDATION"
  BY <1>10 DEF Chips, ChipNames
<1>11. CASE a.next = "ASK_REGION"
  BY <1>11 DEF Chips
<1> QED BY <1>4, <1>5, <1>6, <1>7, <1>8, <1>9, <1>10, <1>11 DEF NextActions, SlotActions

\* An answer that says there is no more fits if its slots name a place, or if it
\* offers neither a list nor a recommendation.
LEMMA OfferFits ==
  ASSUME NEW a \in Answers, NEW f, NEW list, a.filters = f, ~a.more, ~a.favors,
         \/ HasPlace(f)
         \/ a.next \in NextActions \ {"ASK_MODE", "SHOW_MOVERS", "SHOW_RECOMMENDATION"}
         \/ a.next = "ASK_MODE" /\ a.among = {}
         \/ a.next = "SHOW_MOVERS" /\ a.movers = {}
  PROVE  Fits(a, f, list)
BY ChipsTell DEF Fits, Suits

LEMMA SaysFits ==
  ASSUME NEW next \in NextActions, NEW f \in Filters, NEW mode \in Modes, NEW list,
         next \in {"ASK_MODE", "SHOW_RECOMMENDATION"} => HasPlace(f)
  PROVE  Says(next, f, mode) \in Answers /\ Fits(Says(next, f, mode), f, list)
<1> DEFINE a == Says(next, f, mode)
<1>1. a \in Answers
  BY SaysIsAnswer
<1>2. a.filters = f /\ ~a.more /\ ~a.favors /\ a.next = next /\ a.movers = {}
  BY DEF Says
<1> HIDE DEF a
<1>3. Fits(a, f, list)
  BY <1>1, <1>2, OfferFits
<1> QED BY <1>1, <1>3 DEF a

-----------------------------------------------------------------------------
(* Every rule makes good plans.                                            *)

\* A plan that stores no cursor is good if its answer fits.
LEMMA PlanWithoutCursor ==
  ASSUME NEW f \in Filters, NEW a \in Answers, Fits(a, f, Nowhere)
  PROVE  Plan(f, Nowhere, a) \in FreshPlans
BY EmptyIsFilter DEF Plan, FreshPlans, GoodPlans, Plans, Continues, Nowhere

\* To say that there is no next page changes nothing and offers nothing.
LEMMA ReplyIsGood ==
  ASSUME NEW f \in Filters
  PROVE  /\ Says("SHOW_MOVERS", f, None) \in Answers
         /\ \A list : Fits(Says("SHOW_MOVERS", f, None), f, list)
BY SaysFits DEF NextActions, SlotActions, Modes

\* A list is only shown of complete slots, and its cursor is theirs.
LEMMA ShowMoversIsGood ==
  ASSUME NEW f \in Filters, IsComplete(f)
  PROVE  ShowMovers(f) \subseteq {p \in FreshPlans : p.filters = f}
<1> SUFFICES ASSUME NEW p \in ShowMovers(f)
    PROVE p \in FreshPlans /\ p.filters = f
  OBVIOUS
<1>1. PICK page \in Pages, more \in BOOLEAN :
        p = Plan(f, IF more THEN f ELSE Nowhere, Listed(f, page, more))
  BY DEF ShowMovers, FullPages
<1> DEFINE a == Listed(f, page, more)
           list == IF more THEN f ELSE Nowhere
<1>2. a \in Answers
  BY DEF Listed, Says, Answers, Unknown, NextActions, SlotActions, Modes, Pages
<1>3. a.filters = f /\ a.next = "SHOW_MOVERS" /\ a.more = more /\ ~a.favors
  BY DEF Listed, Says
<1>4. more => list # Nowhere
  BY DEF IsComplete, HasPlace, Nowhere, Empty
<1>5. list \in Filters /\ Continues(list, f)
  BY EmptyIsFilter DEF Continues, Nowhere
<1>6. p = Plan(f, list, a)
  BY <1>1
<1> HIDE DEF a, list
<1>7. Fits(a, f, list)
  BY <1>2, <1>3, <1>4, ChipsTell DEF Fits, Suits, IsComplete
<1> QED BY <1>2, <1>5, <1>6, <1>7 DEF Plan, FreshPlans, GoodPlans, Plans

\* What a ranking is answered with: nobody can be ranked, or one mover is named,
\* who is the pinned one if that is possible.
RankingAnswers(f, pinned) ==
  {a \in Answers :
     /\ a.filters = f
     /\ \/ a.next = "ASK_MODE" /\ a.among = {}
        \/ a.next = "SHOW_RECOMMENDATION" /\ (pinned \in a.among => a.pick = pinned)}

LEMMA ShowRecommendationIsGood ==
  ASSUME NEW f \in Filters, HasPlace(f), NEW cs \in SUBSET Movers,
         NEW pinned \in Movers \cup {None}
  PROVE  ShowRecommendation(f, cs, pinned) \subseteq
           {p \in FreshPlans : p.filters = f /\ p.answer \in RankingAnswers(f, pinned)}
<1>1. CASE cs = {}
  <2> DEFINE a == [Says("ASK_MODE", f, None) EXCEPT !.among = {}]
  <2>1. a \in Answers /\ a.filters = f /\ ~a.more /\ ~a.favors /\ a.next = "ASK_MODE"
        /\ a.among = {}
    BY DEF Says, Answers, NextActions, SlotActions, Modes
  <2> HIDE DEF a
  <2>2. Plan(f, Nowhere, a) \in FreshPlans
    BY <2>1, OfferFits, PlanWithoutCursor
  <2>3. Plan(f, Nowhere, a).filters = f /\ Plan(f, Nowhere, a).answer = a
    BY DEF Plan
  <2>4. a \in RankingAnswers(f, pinned)
    BY <2>1 DEF RankingAnswers
  <2>5. ShowRecommendation(f, cs, pinned) = {Plan(f, Nowhere, a)}
    BY <1>1 DEF ShowRecommendation, a
  <2> QED BY <2>2, <2>3, <2>4, <2>5
<1>2. CASE cs # {}
  <2> DEFINE good == {p \in FreshPlans : p.filters = f /\ p.answer \in RankingAnswers(f, pinned)}
  <2> HIDE DEF good
  <2> SUFFICES ASSUME NEW m \in Best(cs, pinned)
      PROVE Plan(f, Nowhere, [Says("SHOW_RECOMMENDATION", f, "recommend") EXCEPT
                                !.movers = {m}, !.pick = m, !.among = cs]) \in good
    BY <1>2 DEF ShowRecommendation, good
  <2> DEFINE a == [Says("SHOW_RECOMMENDATION", f, "recommend") EXCEPT
                     !.movers = {m}, !.pick = m, !.among = cs]
  <2>1. m \in Movers /\ (pinned \in cs => m = pinned)
    BY DEF Best
  <2>2. a \in Answers
    BY <2>1 DEF Says, Answers, NextActions, SlotActions, Modes
  <2>3. /\ a.filters = f /\ ~a.more /\ ~a.favors /\ a.next = "SHOW_RECOMMENDATION"
        /\ a.among = cs /\ a.pick = m
    BY DEF Says
  <2> HIDE DEF a
  <2>4. Plan(f, Nowhere, a) \in FreshPlans
    BY <2>2, <2>3, OfferFits, PlanWithoutCursor
  <2>5. Plan(f, Nowhere, a).filters = f /\ Plan(f, Nowhere, a).answer = a
    BY DEF Plan
  <2>6. a \in RankingAnswers(f, pinned)
    BY <2>1, <2>2, <2>3 DEF RankingAnswers
  <2>7. Plan(f, Nowhere, a) \in good
    BY <2>4, <2>5, <2>6 DEF good
  <2> QED BY <2>7 DEF a
<1> QED BY <1>1, <1>2

LEMMA RecommendIsGood ==
  ASSUME NEW f \in Filters, HasPlace(f), NEW pinned \in Movers \cup {None}
  PROVE  Recommend(f, pinned) \subseteq
           {p \in FreshPlans : p.filters = f /\ p.answer \in RankingAnswers(f, pinned)}
BY ShowRecommendationIsGood DEF Recommend

LEMMA BySlotsIsGood ==
  ASSUME NEW f \in Filters, NEW mode \in Modes
  PROVE  BySlots(f, mode) \subseteq FreshPlans /\ BySlots(f, mode) # {}
<1> DEFINE slot == ResolveSlotAction(f, mode)
           ask == Plan(f, Nowhere, Says(slot, f, IF slot = "ASK_SORT" THEN "browse" ELSE mode))
           few == {cs \in SUBSET Movers : Cardinality(cs) <= 1}
<1>1. ask \in FreshPlans
  <2>1. slot \in NextActions /\ (slot \in {"ASK_MODE", "SHOW_RECOMMENDATION"} => HasPlace(f))
    BY SlotActionIsOne DEF NextActions, ResolveSlotAction, HasPlace
  <2>2. (IF slot = "ASK_SORT" THEN "browse" ELSE mode) \in Modes
    BY DEF Modes
  <2> HIDE DEF slot
  <2> QED BY <2>1, <2>2, SaysFits, PlanWithoutCursor
<1>2. HasPlace(f) => Recommend(f, None) \subseteq FreshPlans /\ Recommend(f, None) # {}
  <2>1. ShowRecommendation(f, {}, None) # {}
    BY DEF ShowRecommendation
  <2> QED BY <2>1, RecommendIsGood DEF Recommend
<1>3. slot = "SHOW_MOVERS" => ShowMovers(f) \subseteq FreshPlans /\ ShowMovers(f) # {}
  <2> SUFFICES ASSUME slot = "SHOW_MOVERS"
      PROVE ShowMovers(f) \subseteq FreshPlans /\ ShowMovers(f) # {}
    OBVIOUS
  <2>1. IsComplete(f)
    BY DEF ResolveSlotAction, IsComplete, HasPlace
  <2>2. {} \in Pages
    BY FS_EmptySet, MoverAiConstantsOK DEF Pages
  <2>3. Plan(f, Nowhere, Listed(f, {}, FALSE)) \in ShowMovers(f)
    BY <2>2 DEF ShowMovers
  <2> QED BY <2>1, <2>3, ShowMoversIsGood
<1>4. slot = "ASK_MODE" => HasPlace(f)
  BY DEF ResolveSlotAction, HasPlace
<1> DEFINE one == UNION {ShowRecommendation(f, cs, None) : cs \in few}
<1>5. HasPlace(f) => one \subseteq FreshPlans
  BY ShowRecommendationIsGood
<1>6. BySlots(f, mode) =
        CASE mode = "recommend" /\ HasPlace(f) /\ f.sort = None -> Recommend(f, None)
          [] slot = "SHOW_MOVERS" -> ShowMovers(f)
          [] slot = "ASK_MODE" -> {ask} \cup one
          [] OTHER -> {ask}
  BY DEF BySlots
<1>7. mode = "recommend" /\ HasPlace(f) /\ f.sort = None => slot = "ASK_MODE"
  BY DEF ResolveSlotAction, HasPlace
<1> HIDE DEF slot, ask, one
<1>8. CASE mode = "recommend" /\ HasPlace(f) /\ f.sort = None
  <2>1. BySlots(f, mode) = Recommend(f, None) \/ BySlots(f, mode) = {ask} \cup one
    BY <1>6, <1>7, <1>8
  <2> QED BY <1>1, <1>2, <1>5, <1>8, <2>1
<1>9. CASE ~(mode = "recommend" /\ HasPlace(f) /\ f.sort = None)
  <2>1. \/ slot = "SHOW_MOVERS" /\ BySlots(f, mode) = ShowMovers(f)
        \/ slot = "ASK_MODE" /\ BySlots(f, mode) = {ask} \cup one
        \/ BySlots(f, mode) = {ask}
    BY <1>6, <1>9
  <2> QED BY <1>1, <1>3, <1>4, <1>5, <2>1
<1> QED BY <1>8, <1>9

LEMMA NamedIsFilter ==
  ASSUME NEW w \in Filters, NEW f \in Filters
  PROVE  Named(w, f) \in Filters /\ Unnamed(Named(w, f)) \in Filters
BY DEF Named, Unnamed, InRegion, Filters

LEMMA CarriedIsMode ==
  ASSUME NEW previous \in Answers, NEW f \in Filters
  PROVE  CarryListMode(previous, f) \in Modes
BY DEF CarryListMode, Answers, Modes

LEMMA ClearedIsFilter ==
  ASSUME NEW f \in Filters, NEW intent \in {"ALL", "REGION", "SERVICE"}
  PROVE  Cleared(f, intent) \in Filters
BY EmptyIsFilter DEF Cleared, Filters

\* CHANGE_FILTERS asks for the region again.
LEMMA ChangeAllFiltersIsGood == ChangeAllFilters \subseteq FreshPlans /\ ChangeAllFilters # {}
<1> DEFINE a == Says("ASK_REGION", Empty, None)
<1>1. a \in Answers /\ Fits(a, Empty, Nowhere)
  BY EmptyIsFilter, SaysFits DEF NextActions, SlotActions, Modes
<1> HIDE DEF a
<1>2. Plan(Empty, Nowhere, a) \in FreshPlans
  BY <1>1, EmptyIsFilter, PlanWithoutCursor
<1> QED BY <1>2 DEF ChangeAllFilters, a

LEMMA PartialFilterResetIsGood ==
  ASSUME NEW f \in Filters, NEW intent \in {"REGION", "SERVICE"}
  PROVE  PartialFilterReset(f, intent) \subseteq FreshPlans
<1> DEFINE fr == InRegion(f, None)
           fs == [f EXCEPT !.service = None]
<1>1. fr \in Filters /\ fs \in Filters
  BY DEF Filters, InRegion
<1> HIDE DEF fr, fs
<1>2. /\ Says("ASK_REGION", fr, None) \in Answers
      /\ Fits(Says("ASK_REGION", fr, None), fr, Nowhere)
      /\ Says("ASK_SERVICE", fs, None) \in Answers
      /\ Fits(Says("ASK_SERVICE", fs, None), fs, Nowhere)
  BY <1>1, SaysFits DEF NextActions, SlotActions, Modes
<1>3. /\ Plan(fr, Nowhere, Says("ASK_REGION", fr, None)) \in FreshPlans
      /\ Plan(fs, Nowhere, Says("ASK_SERVICE", fs, None)) \in FreshPlans
  BY <1>1, <1>2, PlanWithoutCursor
<1> QED BY <1>3 DEF PartialFilterReset, fr, fs

\* What a chip may lead to: a good plan, or the reply that there is no next page.
ChipPlans(f) == FreshPlans \cup {Reply(f, Says("SHOW_MOVERS", f, None))}

LEMMA ShowMoreIsGood ==
  ASSUME NEW f \in Filters, NEW list \in Filters
  PROVE  /\ ShowMore(f, list) \subseteq ChipPlans(f)
         /\ IsComplete(f) => ShowMore(f, list) # {}
<1>1. IsComplete(f) => ShowMovers(f) \subseteq FreshPlans
  BY ShowMoversIsGood
<1>2. ShowMovers(f) # {}
  <2>1. {} \in Pages
    BY FS_EmptySet, MoverAiConstantsOK DEF Pages
  <2>2. Plan(f, Nowhere, Listed(f, {}, FALSE)) \in ShowMovers(f)
    BY <2>1 DEF ShowMovers
  <2> QED BY <2>2
<1> QED BY <1>1, <1>2 DEF ShowMore, ChipPlans

\* Whatever is pressed: every chip, of slots of whatever post.
LEMMA ByChipIsGood ==
  ASSUME NEW chip \in ChipNames \ {"FAVORITE_ALL"}, NEW f \in Filters, NEW list \in Filters
  PROVE  ByChip(chip, f, list) \subseteq ChipPlans(f)
<1>1. /\ \A s \in Services : [f EXCEPT !.service = s] \in Filters
      /\ \A s \in Sorts : [f EXCEPT !.sort = s] \in Filters
      /\ \A r \in Regions : InRegion(f, r) \in Filters
  BY DEF Filters, InRegion
<1>2. None \in Modes /\ "browse" \in Modes
  BY DEF Modes
<1>3. UNION {BySlots([f EXCEPT !.service = s], None) : s \in Services} \subseteq FreshPlans
  BY <1>1, <1>2, BySlotsIsGood
<1>4. UNION {BySlots([f EXCEPT !.sort = s], "browse") : s \in Sorts} \subseteq FreshPlans
  BY <1>1, <1>2, BySlotsIsGood
<1>5. UNION {BySlots(InRegion(f, r), None) : r \in Regions} \subseteq FreshPlans
  BY <1>1, <1>2, BySlotsIsGood
<1>6. /\ HasPlace(f) => Recommend(f, None) \subseteq FreshPlans
      /\ BySlots(f, "browse") \subseteq FreshPlans
  BY <1>2, RecommendIsGood, BySlotsIsGood
<1>7. ShowMore(f, list) \subseteq ChipPlans(f) /\ ChangeAllFilters \subseteq FreshPlans
  BY ShowMoreIsGood, ChangeAllFiltersIsGood
<1>8. FreshPlans \subseteq ChipPlans(f)
  BY DEF ChipPlans
<1>9. \/ ByChip(chip, f, list) \subseteq FreshPlans
      \/ ByChip(chip, f, list) \subseteq ChipPlans(f)
  BY <1>3, <1>4, <1>5, <1>6, <1>7 DEF ByChip, ChipNames
<1> QED BY <1>8, <1>9

\* A chip of an answer that fits is not refused.
LEMMA ChipCanBePressed ==
  ASSUME NEW a \in Answers, NEW f \in Filters, NEW list \in Filters,
         NEW behind, Suits(a, f, list, behind), Continues(list, f),
         NEW chip \in Chips(a), chip # "FAVORITE_ALL", chip = "SHOW_MORE" => ~behind
  PROVE  ByChip(chip, f, list) # {}
<1>1. /\ chip \in ChipNames
      /\ chip = "SHOW_MORE" => IsComplete(f)
      /\ chip = "SELECT_REGION" => a.clarify # {}
      /\ chip \in {"RECOMMEND", "BROWSE"} => HasPlace(f)
  BY ChipsTell DEF Suits, Continues
<1>2. None \in Modes /\ "browse" \in Modes
  BY DEF Modes
<1>3. CASE chip = "SELECT_SERVICE"
  <2>1. PICK s \in Services : TRUE
    BY MoverAiConstantsOK
  <2>2. [f EXCEPT !.service = s] \in Filters
    BY DEF Filters
  <2>3. BySlots([f EXCEPT !.service = s], None) # {}
    BY <1>2, <2>2, BySlotsIsGood
  <2>4. ByChip(chip, f, list)
          = UNION {BySlots([f EXCEPT !.service = t], None) : t \in Services}
    BY <1>3 DEF ByChip
  <2> QED BY <2>3, <2>4
<1>4. CASE chip = "SELECT_SORT"
  <2>1. PICK s \in Sorts : TRUE
    BY MoverAiConstantsOK
  <2>2. [f EXCEPT !.sort = s] \in Filters
    BY DEF Filters
  <2>3. BySlots([f EXCEPT !.sort = s], "browse") # {}
    BY <1>2, <2>2, BySlotsIsGood
  <2>4. ByChip(chip, f, list)
          = UNION {BySlots([f EXCEPT !.sort = t], "browse") : t \in Sorts}
    BY <1>4 DEF ByChip
  <2> QED BY <2>3, <2>4
<1>5. CASE chip = "SELECT_REGION"
  <2>1. PICK r \in Regions : TRUE
    BY <1>1, <1>5 DEF Answers
  <2>2. InRegion(f, r) \in Filters
    BY DEF Filters, InRegion
  <2>3. BySlots(InRegion(f, r), None) # {}
    BY <1>2, <2>2, BySlotsIsGood
  <2>4. ByChip(chip, f, list)
          = UNION {BySlots(InRegion(f, t), None) : t \in Regions}
    BY <1>5 DEF ByChip
  <2> QED BY <2>3, <2>4
<1>6. CASE chip = "RECOMMEND"
  <2>1. ByChip(chip, f, list) = Recommend(f, None)
    BY <1>1, <1>6 DEF ByChip
  <2>2. ShowRecommendation(f, {}, None) # {}
    BY DEF ShowRecommendation
  <2> QED BY <2>1, <2>2 DEF Recommend
<1>7. CASE chip = "BROWSE"
  <2>1. ByChip(chip, f, list) = BySlots(f, "browse")
    BY <1>1, <1>7 DEF ByChip
  <2> QED BY <1>2, <2>1, BySlotsIsGood
<1>8. CASE chip = "SHOW_MORE"
  <2>1. ByChip(chip, f, list) = ShowMore(f, list)
    BY <1>8 DEF ByChip
  <2> QED BY <1>1, <1>8, <2>1, ShowMoreIsGood
<1>9. CASE chip = "CHANGE_FILTERS"
  <2>1. ByChip(chip, f, list) = ChangeAllFilters
    BY <1>9 DEF ByChip
  <2> QED BY <2>1, ChangeAllFiltersIsGood
<1> QED BY <1>1, <1>3, <1>4, <1>5, <1>6, <1>7, <1>8, <1>9 DEF ChipNames

\* Gemini's cursor is kept only where the filters it belongs to are.
LEMMA KeptCursorContinues ==
  ASSUME NEW f \in Filters, NEW n \in Filters, NEW list \in Filters, Continues(list, f)
  PROVE  KeptCursor(f, n, list) \in Filters /\ Continues(KeptCursor(f, n, list), n)
BY EmptyIsFilter DEF KeptCursor, Continues, Nowhere

\* Shown again, a recommendation keeps its mover if that is possible.
LEMMA ShowAgainIsGood ==
  ASSUME NEW previous \in Answers, NEW f \in Filters, IsComplete(f) \/ HasPlace(f)
  PROVE  /\ ShowAgain(previous, f) \subseteq {p \in GoodPlans : p.filters = f}
         /\ ~IsComplete(f) => \A p \in ShowAgain(previous, f) :
                                p.answer \in RankingAnswers(f, previous.pick)
<1>1. previous.pick \in Movers \cup {None}
  BY DEF Answers
<1> DEFINE shown == IF IsComplete(f) THEN ShowMovers(f) ELSE Recommend(f, previous.pick)
<1>2. /\ shown \subseteq {p \in FreshPlans : p.filters = f}
      /\ ~IsComplete(f) => \A p \in shown : p.answer \in RankingAnswers(f, previous.pick)
  BY <1>1, ShowMoversIsGood, RecommendIsGood
<1> HIDE DEF shown
<1>3. \A p \in FreshPlans :
        /\ [p EXCEPT !.idle = TRUE] \in GoodPlans
        /\ [p EXCEPT !.idle = TRUE].filters = p.filters
        /\ [p EXCEPT !.idle = TRUE].answer = p.answer
  BY DEF FreshPlans, GoodPlans, Plans
<1>4. ShowAgain(previous, f) = {[p EXCEPT !.idle = TRUE] : p \in shown}
  BY DEF ShowAgain, shown
<1> QED BY <1>2, <1>3, <1>4

\* What a text may lead to: a good plan, which shows again what is shown already if
\* it was made of idle talk.
TextPlans(previous, f) ==
  FreshPlans
    \cup {p \in ShowAgain(previous, f) : p \in GoodPlans /\ p.filters = f /\ HasPlace(f)}

LEMMA ByGeminiIsGood ==
  ASSUME NEW suggested \in Suggestions, NEW w \in Filters, NEW previous \in Answers,
         NEW f \in Filters, NEW list \in Filters, Continues(list, f)
  PROVE  ByGemini(suggested, w, previous, f, list) \subseteq TextPlans(previous, f)
<1> DEFINE n == IF suggested = "CLARIFY_REGION" THEN Unnamed(Named(w, f)) ELSE Named(w, f)
           carried == CarryListMode(previous, n)
           says(next) == {Plan(n, KeptCursor(f, n, list), Says(next, n, carried))}
<1>1. n \in Filters
  BY NamedIsFilter
<1> HIDE DEF n
<1>2. carried \in Modes
  BY <1>1, CarriedIsMode
<1>3. KeptCursor(f, n, list) \in Filters /\ Continues(KeptCursor(f, n, list), n)
  BY <1>1, KeptCursorContinues
<1>4. ASSUME NEW next \in {"ASK_REGION", "CLARIFY_UNSUPPORTED"}
      PROVE  says(next) \subseteq FreshPlans
  <2>1. /\ Says(next, n, carried) \in Answers
        /\ Fits(Says(next, n, carried), n, KeptCursor(f, n, list))
    BY <1>1, <1>2, SaysFits DEF NextActions, SlotActions
  <2> QED BY <1>1, <1>3, <2>1 DEF Plan, FreshPlans, GoodPlans, Plans
<1>5. says("ASK_REGION") \subseteq FreshPlans /\ says("CLARIFY_UNSUPPORTED") \subseteq FreshPlans
  BY <1>4
<1>6. BySlots(n, carried) \subseteq FreshPlans
  BY <1>1, <1>2, BySlotsIsGood
<1>7. IsShowing(previous, f) => ShowAgain(previous, f) \subseteq TextPlans(previous, f)
  BY ShowAgainIsGood DEF IsShowing, IsComplete, TextPlans
<1>8. \/ ByGemini(suggested, w, previous, f, list) = says("ASK_REGION")
      \/ ByGemini(suggested, w, previous, f, list) = says("CLARIFY_UNSUPPORTED")
      \/ /\ ByGemini(suggested, w, previous, f, list) = ShowAgain(previous, f)
         /\ IsShowing(previous, f)
      \/ ByGemini(suggested, w, previous, f, list) = BySlots(n, carried)
  BY DEF ByGemini, n
<1>9. FreshPlans \subseteq TextPlans(previous, f)
  BY DEF TextPlans
<1> QED BY <1>5, <1>6, <1>7, <1>8, <1>9

\* Whatever rule is the first to apply to a text.
LEMMA ByTextIsGood ==
  ASSUME NEW previous \in Answers, NEW f \in Filters, NEW list \in Filters, Continues(list, f)
  PROVE  ByText(previous, f, list) \subseteq TextPlans(previous, f)
<1>1. None \in Modes /\ "browse" \in Modes /\ previous.mode \in Modes
  BY DEF Modes, Answers
<1>2. ByClarifyChoice(previous, f) \subseteq FreshPlans
  <2>1. \A w \in Filters : \A r \in Regions : InRegion(Named(w, f), r) \in Filters
    BY NamedIsFilter DEF Filters, InRegion
  <2>2. \A w \in Filters : \A r \in Regions : BySlots(InRegion(Named(w, f), r), None) \subseteq FreshPlans
    BY <1>1, <2>1, BySlotsIsGood
  <2>3. {r \in previous.clarify : previous.next = "CLARIFY_REGION"} \subseteq Regions
    BY DEF Answers
  <2> QED BY <2>2, <2>3 DEF ByClarifyChoice
<1>3. ByAmbiguousPlace(f) \subseteq FreshPlans
  <2> SUFFICES ASSUME NEW w \in Filters, NEW options \in AmbiguousPlaces
      PROVE Plan(Unnamed(Named(w, f)), Nowhere, WhichRegion(Unnamed(Named(w, f)), options))
              \in FreshPlans
    BY DEF ByAmbiguousPlace
  <2> DEFINE n == Unnamed(Named(w, f))
             a == WhichRegion(n, options)
  <2>1. n \in Filters
    BY NamedIsFilter
  <2> HIDE DEF n
  <2>2. /\ a \in Answers
        /\ a.filters = n /\ ~a.more /\ ~a.favors /\ a.next = "CLARIFY_REGION"
    BY <2>1 DEF WhichRegion, Says, Answers, Unknown, NextActions, Modes, AmbiguousPlaces
  <2> HIDE DEF a
  <2>3. Fits(a, n, Nowhere)
    BY <2>2, OfferFits DEF NextActions
  <2>4. Plan(n, Nowhere, a) \in FreshPlans
    BY <2>1, <2>2, <2>3, PlanWithoutCursor
  <2> QED BY <2>4 DEF n, a
<1>4. ASSUME NEW w \in Filters, NEW g \in Filters
      PROVE  ByNames(w, g, previous) \subseteq FreshPlans
  BY NamedIsFilter, CarriedIsMode, BySlotsIsGood DEF ByNames
<1>5. ByReset(previous, f) \subseteq FreshPlans
  <2>1. /\ PartialFilterReset(f, "REGION") \subseteq FreshPlans
        /\ PartialFilterReset(f, "SERVICE") \subseteq FreshPlans
    BY PartialFilterResetIsGood
  <2>2. \A intent \in {"ALL", "REGION", "SERVICE"} : \A w \in NamesPlace :
          ByNames(w, Cleared(f, intent), previous) \subseteq FreshPlans
    BY <1>4, ClearedIsFilter DEF NamesPlace
  <2>3. ByResetAndNames(previous, f) \subseteq FreshPlans
    BY <2>2 DEF ByResetAndNames
  <2> QED BY <2>1, <2>3, ChangeAllFiltersIsGood DEF ByReset
<1>6. ByFixedFlow(previous, f) \subseteq FreshPlans
  BY <1>4 DEF ByFixedFlow, NamesPlace
<1>7. ByMode(f) \subseteq FreshPlans
  BY <1>1, RecommendIsGood, BySlotsIsGood DEF ByMode
<1>8. ByFallback(previous, f) \subseteq FreshPlans
  <2> DEFINE slot == ResolveSlotAction(f, previous.mode)
             a == IF slot = "SHOW_MOVERS" THEN Says("ASK_REGION", f, None)
                                          ELSE Says(slot, f, previous.mode)
  <2>1. /\ slot \in NextActions /\ "ASK_REGION" \in NextActions
        /\ slot # "SHOW_RECOMMENDATION" /\ (slot = "ASK_MODE" => HasPlace(f))
    BY <1>1, SlotActionIsOne DEF NextActions, SlotActions, ResolveSlotAction, HasPlace
  <2>2. ByFallback(previous, f) = {Plan(f, Nowhere, a)}
    BY DEF ByFallback
  <2> HIDE DEF slot
  <2>3. a \in Answers /\ Fits(a, f, Nowhere)
    BY <1>1, <2>1, SaysFits
  <2> HIDE DEF a
  <2> QED BY <2>2, <2>3, PlanWithoutCursor
<1>9. UNION {ByGemini(suggested, w, previous, f, list) :
               suggested \in Suggestions, w \in Filters} \subseteq TextPlans(previous, f)
  BY ByGeminiIsGood
<1>10. FreshPlans \subseteq TextPlans(previous, f)
  BY DEF TextPlans
<1> QED BY <1>2, <1>3, <1>5, <1>6, <1>7, <1>8, <1>9, <1>10 DEF ByText

-----------------------------------------------------------------------------
(* The invariant.                                                          *)

\* What the type invariant says of a post at each of its steps.
LEMMA CallTypes ==
  ASSUME TypeOK, NEW k \in Calls
  PROVE  /\ call[k].op = "LOADED" =>
              call[k] \in [op : {"LOADED"}, chip : ChipNames \cup {"TEXT"}, filters : Filters, cursor : Filters,
                           alone : BOOLEAN]
         /\ call[k].op = "DECIDED" =>
              call[k] \in [op : {"DECIDED"}, filters : Filters, cursor : Filters,
                           answer : Answers, idle : BOOLEAN, writes : BOOLEAN, alone : BOOLEAN]
         /\ call[k].op = "WRITTEN" =>
              call[k] \in [op : {"WRITTEN"}, answer : Answers, idle : BOOLEAN,
                           writes : BOOLEAN, alone : BOOLEAN]
BY DEF TypeOK, CallStates, Idle

\* The plans among which Decide chooses.
PlansOf(c) == IF c.chip = "TEXT" THEN ByText(answer, c.filters, c.cursor)
              ELSE ByChip(c.chip, c.filters, c.cursor)

\* Whatever a post decides is good to write, or says only that there is no more.
LEMMA DecidedPlans ==
  ASSUME AiInv, NEW k \in Calls, call[k].op = "LOADED", call[k].chip # "FAVORITE_ALL",
         NEW p \in PlansOf(call[k])
  PROVE  /\ p \in Plans
         /\ p.writes => p \in GoodPlans
         /\ ~p.writes => Fits(p.answer, call[k].filters, cursor)
         /\ p.idle => /\ p.writes /\ p.filters = call[k].filters /\ HasPlace(p.filters)
                      /\ p.answer \in Again(call[k].filters)
<1> DEFINE c == call[k]
           f == call[k].filters
<1>1. c \in [op : {"LOADED"}, chip : ChipNames \cup {"TEXT"}, filters : Filters, cursor : Filters,
             alone : BOOLEAN]
  BY CallTypes DEF AiInv
<1>2. Continues(c.cursor, c.filters)
  BY DEF AiInv, CallContinues
<1>3. CASE c.chip = "TEXT"
  <2>1. p \in TextPlans(answer, f)
    BY <1>1, <1>2, <1>3, ByTextIsGood DEF AiInv, TypeOK, PlansOf
  <2> QED BY <2>1 DEF TextPlans, FreshPlans, GoodPlans, Again
<1>4. CASE c.chip # "TEXT"
  <2> DEFINE a == Says("SHOW_MOVERS", f, None)
  <2>1. p \in ChipPlans(f)
    <3>1. c.chip \in ChipNames \ {"FAVORITE_ALL"}
      BY <1>1, <1>4
    <3> QED BY <1>1, <1>4, <3>1, ByChipIsGood DEF PlansOf
  <2>2. a \in Answers /\ Fits(a, f, cursor)
    BY <1>1, ReplyIsGood
  <2>3. p \in FreshPlans \/ p = Reply(f, a)
    BY <2>1 DEF ChipPlans
  <2> HIDE DEF a
  <2>4. CASE p = Reply(f, a)
    <3>1. p = [writes |-> FALSE, filters |-> f, cursor |-> Nowhere, answer |-> a, idle |-> FALSE]
      BY <2>4 DEF Reply, Plan
    <3> QED BY <1>1, <2>2, <3>1, EmptyIsFilter DEF Plans, Nowhere
  <2> QED BY <2>3, <2>4 DEF FreshPlans, GoodPlans
<1> QED BY <1>3, <1>4

\* A step of one post leaves the others as they are.
LEMMA OneCallMoves ==
  ASSUME AiInv, NEW k \in Calls, NEW state \in CallStates, CallContinues(state),
         Becomes(k, state)
  PROVE  call' \in [Calls -> CallStates] /\ \A j \in Calls : CallContinues(call'[j])
BY DEF AiInv, TypeOK, Becomes

LEMMA IdleContinues == Idle \in CallStates /\ CallContinues(Idle)
BY DEF CallStates, Idle, CallContinues

LEMMA InitAi == Init => AiInv
<1> SUFFICES ASSUME Init PROVE AiInv
  OBVIOUS
<1>1. Says("ASK_REGION", Empty, None) \in Answers
  BY EmptyIsFilter, SaysIsAnswer DEF NextActions, SlotActions, Modes
<1>2. TypeOK
  BY <1>1, EmptyIsFilter, IdleContinues, MoverAiConstantsOK DEF Init, TypeOK, Nowhere
<1>3. Continues(cursor, slots)
  BY DEF Init, Continues
<1>4. \A k \in Calls : CallContinues(call[k])
  BY IdleContinues DEF Init
<1> QED BY <1>2, <1>3, <1>4 DEF AiInv

LEMMA NextAi == AiInv /\ [Next]_vars => AiInv'
<1> SUFFICES ASSUME AiInv, [Next]_vars PROVE AiInv'
  OBVIOUS
<1> USE MoverAiConstantsOK
<1>1. ASSUME NEW k \in Calls, NEW chip \in {"TEXT"} \cup ChipNames, Post(k, chip)
      PROVE  AiInv'
  <2>1. chip \in ChipNames \cup {"TEXT"}
    OBVIOUS
  <2> DEFINE others == {j \in Calls : call[j] # Idle}
             new == [op |-> "LOADED", chip |-> chip, filters |-> slots, cursor |-> cursor,
                     alone |-> others = {}]
  <2>2. new \in CallStates /\ CallContinues(new)
    BY <2>1 DEF AiInv, TypeOK, CallStates, CallContinues, Answers
  <2>3. \A j \in others : [call[j] EXCEPT !.alone = FALSE] \in CallStates
                          /\ CallContinues([call[j] EXCEPT !.alone = FALSE])
    <3> SUFFICES ASSUME NEW j \in Calls, call[j] # Idle
        PROVE  /\ [call[j] EXCEPT !.alone = FALSE] \in CallStates
               /\ CallContinues([call[j] EXCEPT !.alone = FALSE])
      OBVIOUS
    <3>1. call[j].op \in {"LOADED", "DECIDED", "WRITTEN"}
      BY DEF AiInv, TypeOK, CallStates
    <3>2. CallContinues(call[j])
      BY DEF AiInv
    <3>3. CASE call[j].op = "LOADED"
      BY <3>2, <3>3, CallTypes DEF AiInv, CallStates, CallContinues
    <3>4. CASE call[j].op = "DECIDED"
      BY <3>2, <3>4, CallTypes DEF AiInv, CallStates, CallContinues
    <3>5. CASE call[j].op = "WRITTEN"
      BY <3>5, CallTypes DEF AiInv, CallStates, CallContinues
    <3> QED BY <3>1, <3>3, <3>4, <3>5
  <2>4. /\ call' \in [Calls -> CallStates]
        /\ \A j \in Calls : CallContinues(call'[j])
    <3>1. call' = [j \in Calls |-> IF j = k THEN new
                    ELSE IF j \in others THEN [call[j] EXCEPT !.alone = FALSE] ELSE Idle]
      BY <1>1 DEF Post
    <3> HIDE DEF new, others
    <3> QED BY <2>2, <2>3, <3>1, IdleContinues
  <2>5. posts' \in 0..MaxPosts
    BY <1>1 DEF Post, AiInv, TypeOK
  <2> HIDE DEF new, others
  <2> QED BY <1>1, <2>4, <2>5 DEF Post, AiInv, TypeOK
<1>2. ASSUME NEW k \in Calls, Decide(k)
      PROVE  AiInv'
  <2> DEFINE c == call[k]
             plans == IF c.chip = "TEXT" THEN ByText(answer, c.filters, c.cursor)
                      ELSE ByChip(c.chip, c.filters, c.cursor)
             next(p) == [op |-> "DECIDED", filters |-> p.filters, cursor |-> p.cursor,
                         answer |-> p.answer, idle |-> p.idle, writes |-> p.writes,
                         alone |-> c.alone]
  <2>1. c \in [op : {"LOADED"}, chip : ChipNames \cup {"TEXT"}, filters : Filters, cursor : Filters,
               alone : BOOLEAN]
    BY <1>2, CallTypes DEF Decide, AiInv
  <2>2. Continues(c.cursor, c.filters)
    BY <1>2 DEF Decide, AiInv, CallContinues
  <2>3. Becomes(k, Idle) \/ \E p \in plans : Becomes(k, next(p))
    BY <1>2 DEF Decide, Ends
  <2>4. CASE Becomes(k, Idle)
    BY <1>2, <2>4, OneCallMoves, IdleContinues DEF Decide, AiInv, TypeOK
  <2>5. ASSUME NEW p \in plans, Becomes(k, next(p))
        PROVE  AiInv'
    <3>1. p \in Plans /\ (p.writes => p \in GoodPlans)
      BY <1>2, DecidedPlans DEF Decide, PlansOf
    <3>2. next(p) \in CallStates /\ CallContinues(next(p))
      BY <2>1, <3>1 DEF GoodPlans, Plans, CallStates, CallContinues
    <3> HIDE DEF next
    <3> QED BY <1>2, <2>5, <3>2, OneCallMoves DEF Decide, AiInv, TypeOK
  <2> QED BY <2>3, <2>4, <2>5
<1>3. ASSUME NEW k \in Calls, FavoriteAll(k)
      PROVE  AiInv'
  <2> DEFINE c == call[k]
             next == [op |-> "WRITTEN", idle |-> FALSE, writes |-> FALSE, alone |-> c.alone,
                      answer |-> [Says("SHOW_MOVERS", c.filters, answer.mode) EXCEPT
                                    !.more = MoreAfterFavorites, !.favors = TRUE]]
  <2>1. c \in [op : {"LOADED"}, chip : ChipNames \cup {"TEXT"}, filters : Filters, cursor : Filters,
               alone : BOOLEAN]
    BY <1>3, CallTypes DEF FavoriteAll, AiInv
  <2>2. next \in CallStates /\ CallContinues(next)
    BY <2>1 DEF AiInv, TypeOK, CallStates, CallContinues, Says, Answers, Unknown, NextActions,
                SlotActions, MoreAfterFavorites
  <2>3. Becomes(k, Idle) \/ Becomes(k, next)
    BY <1>3 DEF FavoriteAll, Ends
  <2>4. favorites' \in SUBSET Movers
    BY <1>3 DEF FavoriteAll, Found, AiInv, TypeOK
  <2> HIDE DEF next
  <2> QED BY <1>3, <2>2, <2>3, <2>4, OneCallMoves, IdleContinues DEF FavoriteAll, AiInv, TypeOK
<1>4. ASSUME NEW k \in Calls, UpdateSessionSlots(k)
      PROVE  AiInv'
  <2> DEFINE c == call[k]
             next == [op |-> "WRITTEN", answer |-> c.answer, idle |-> c.idle,
                      writes |-> c.writes, alone |-> c.alone]
  <2>1. c \in [op : {"DECIDED"}, filters : Filters, cursor : Filters, answer : Answers,
               idle : BOOLEAN, writes : BOOLEAN, alone : BOOLEAN]
    BY <1>4, CallTypes DEF UpdateSessionSlots, AiInv
  <2>2. next \in CallStates /\ CallContinues(next)
    BY <2>1 DEF CallStates, CallContinues
  <2>3. slots' \in Filters /\ cursor' \in Filters /\ Continues(cursor, slots)'
    BY <1>4, <2>1 DEF UpdateSessionSlots, AiInv, TypeOK, CallContinues, Continues, Nowhere,
                      Empty, IsComplete, HasPlace
  <2>4. Becomes(k, next)
    BY <1>4 DEF UpdateSessionSlots
  <2> HIDE DEF next
  <2> QED BY <1>4, <2>2, <2>3, <2>4, OneCallMoves DEF UpdateSessionSlots, AiInv, TypeOK
<1>5. ASSUME NEW k \in Calls, PersistAssistant(k)
      PROVE  AiInv'
  <2>1. call[k] \in [op : {"WRITTEN"}, answer : Answers, idle : BOOLEAN, writes : BOOLEAN,
                     alone : BOOLEAN]
    BY <1>5, CallTypes DEF PersistAssistant, AiInv
  <2>2. /\ answer' \in Answers
        /\ inOrder' \in BOOLEAN
    BY <1>5, <2>1 DEF PersistAssistant, AiInv, TypeOK, Answers
  <2>3. cards' \in [movers : SUBSET Movers, more : BOOLEAN, since : 0..RecentScan,
                    covered : BOOLEAN]
    <3>1. /\ cards \in [movers : SUBSET Movers, more : BOOLEAN, since : 0..RecentScan,
                         covered : BOOLEAN]
          /\ call[k].answer \in Answers
      BY <2>1 DEF AiInv, TypeOK
    <3>2. CASE call[k].answer.movers = {}
      <4>1. cards' = [cards EXCEPT !.since = IF @ < RecentScan THEN @ + 1 ELSE @,
                                   !.covered = @ \/ ~call[k].answer.favors]
        BY <1>5, <3>2 DEF PersistAssistant
      <4>2. (IF cards.since < RecentScan THEN cards.since + 1 ELSE cards.since) \in 0..RecentScan
        BY <3>1
      <4> QED BY <3>1, <4>1, <4>2
    <3>3. CASE call[k].answer.movers # {}
      BY <1>5, <3>1, <3>3 DEF PersistAssistant, Answers
    <3> QED BY <3>2, <3>3
  <2> QED BY <1>5, <2>2, <2>3, OneCallMoves, IdleContinues DEF PersistAssistant, Ends, AiInv, TypeOK
<1>6. ASSUME NEW k \in Calls, CallFails(k)
      PROVE  AiInv'
  BY <1>6, OneCallMoves, IdleContinues DEF CallFails, Ends, AiInv, TypeOK
<1>7. CASE UNCHANGED vars
  BY <1>7 DEF vars, AiInv, TypeOK, CallContinues, Continues
<1> QED BY <1>1, <1>2, <1>3, <1>4, <1>5, <1>6, <1>7 DEF Next

\* The type invariant of the conversation: rows, answers and open posts, for any
\* number of regions, services, movers, page sizes and overlapping posts.
THEOREM AiTypeCorrect == Spec => []TypeOK
<1>1. AiInv => TypeOK
  BY DEF AiInv
<1> QED BY InitAi, NextAi, <1>1, PTL DEF Spec

\* However posts overlap or fail, the next page that is offered is one of the
\* list that the stored slots describe (updateSessionSlots).
THEOREM CursorIsOfItsSlots == Spec => []CursorBelongsToSlots
<1>1. AiInv => CursorBelongsToSlots
  BY DEF AiInv, Continues, CursorBelongsToSlots
<1> QED BY InitAi, NextAi, <1>1, PTL DEF Spec

-----------------------------------------------------------------------------
(* What a post alone adds.                                                 *)

\* Once a post is through, nobody else can have been alone.
LEMMA NobodyElseIsAlone ==
  ASSUME AiInv, FitInv, NEW k \in Calls, call[k] # Idle, Becomes(k, Idle), NEW j \in Calls
  PROVE  ~Alone(j)'
BY DEF FitInv, Alone, AiInv, TypeOK, Becomes

\* A step of a post alone, of the call and of nothing that the others see.
LEMMA MovesFit ==
  ASSUME AiInv, FitInv, NEW k \in Calls, NEW state, Becomes(k, state),
         call[k] # Idle, state.alone = call[k].alone,
         UNCHANGED <<answer, cards, inOrder>>,
         inOrder /\ (\A j \in Calls : ~HalfWritten(j)') => ScreenFits',
         state # Idle /\ state.alone => CallFits(state)'
  PROVE  FitInv'
<1>1. \A j \in Calls : call'[j] = IF j = k THEN state ELSE call[j]
  BY DEF AiInv, TypeOK, Becomes
<1>2. \A j \in Calls : Alone(j)' => Alone(k) /\ j = k
  BY <1>1 DEF FitInv, Alone
<1>3. \A j \in Calls : Alone(j)' => \A i \in Calls \ {j} : call'[i] = Idle
  BY <1>1, <1>2 DEF FitInv
<1>4. \A j \in Calls : Alone(j)' => CallFits(call[j])'
  BY <1>1, <1>2 DEF Alone
<1>5. (answer.movers # {} => cards = [movers |-> answer.movers, more |-> answer.more,
                                          since |-> 0, covered |-> FALSE])'
  BY DEF FitInv
<1>6. (inOrder /\ (\A j \in Calls : ~HalfWritten(j)) => ScreenFits)'
  OBVIOUS
<1> QED BY <1>3, <1>4, <1>5, <1>6 DEF FitInv

LEMMA InitFit == Init => FitInv
<1> SUFFICES ASSUME Init PROVE FitInv
  OBVIOUS
<1>1. Fits(answer, slots, cursor)
  BY EmptyIsFilter, SaysFits DEF Init, NextActions, SlotActions, Modes
<1>2. \A k \in Calls : ~Alone(k)
  BY DEF Init, Alone
<1>3. answer.movers = {} /\ ~cards.more
  BY DEF Init, Says
<1>4. ScreenFits
  BY <1>1, <1>3 DEF ScreenFits, IsShown, Fits, Suits
<1> QED BY <1>2, <1>3, <1>4 DEF FitInv

\* A post alone has read the row that it writes, and nobody changes it meanwhile.
LEMMA NextFit == AiInv /\ FitInv /\ [Next]_vars => FitInv'
<1> SUFFICES ASSUME AiInv, FitInv, [Next]_vars PROVE FitInv'
  OBVIOUS
<1>1. ASSUME NEW k \in Calls, NEW chip \in {"TEXT"} \cup ChipNames, Post(k, chip)
      PROVE  FitInv'
  <2> DEFINE others == {j \in Calls : call[j] # Idle}
  <2>0. PICK new : new =
                     [op |-> "LOADED", chip |-> chip, filters |-> slots, cursor |-> cursor,
                       alone |-> others = {}]
    OBVIOUS
  <2>1. /\ call' = [j \in Calls |-> IF j = k THEN new
                     ELSE IF j \in others THEN [call[j] EXCEPT !.alone = FALSE] ELSE Idle]
        /\ UNCHANGED <<slots, cursor, answer, cards, inOrder>>
        /\ k \notin others
    BY <1>1, <2>0 DEF Post
  <2>2. new # Idle /\ CallFits(new) /\ new.op = "LOADED" /\ new.alone = (others = {})
    BY <2>0 DEF Idle, CallFits
  <2>3. ASSUME NEW j \in others
        PROVE  /\ [call[j] EXCEPT !.alone = FALSE].alone = FALSE
               /\ [call[j] EXCEPT !.alone = FALSE].op = call[j].op
               /\ call[j].op = "WRITTEN" =>
                    [call[j] EXCEPT !.alone = FALSE].writes = call[j].writes
    <3>1. call[j].op \in {"LOADED", "DECIDED", "WRITTEN"}
      BY DEF AiInv, TypeOK, CallStates
    <3> QED BY <3>1, CallTypes DEF AiInv
  <2>4. \A j \in Calls : Alone(j)' => j = k /\ others = {}
    <3> HIDE DEF others
    <3> QED BY <2>1, <2>2, <2>3 DEF Alone
  <2>5. \A j \in Calls : HalfWritten(j) => HalfWritten(j)'
    <3>1. \A j \in Calls : HalfWritten(j) => j \in others
      BY DEF HalfWritten, Idle
    <3> HIDE DEF others
    <3> QED BY <2>1, <2>3, <3>1 DEF HalfWritten
  <2>6. (inOrder /\ (\A j \in Calls : ~HalfWritten(j)) => ScreenFits)'
    BY <2>1, <2>5 DEF FitInv, ScreenFits, IsShown, Suits
  <2>7. \A j \in Calls : Alone(j)' =>
          CallFits(call[j])' /\ \A i \in Calls \ {j} : call'[i] = Idle
    <3>1. call'[k] = new
      BY <2>1
    <3>2. CallFits(new)'
      BY <2>1, <2>2 DEF CallFits
    <3>3. others = {} => \A i \in Calls \ {k} : call'[i] = Idle
      BY <2>1
    <3> HIDE DEF others
    <3> QED BY <2>4, <3>1, <3>2, <3>3
  <2> QED BY <2>1, <2>6, <2>7 DEF FitInv
<1>2. ASSUME NEW k \in Calls, Decide(k)
      PROVE  FitInv'
  <2> DEFINE c == call[k]
             next(p) == [op |-> "DECIDED", filters |-> p.filters, cursor |-> p.cursor,
                         answer |-> p.answer, idle |-> p.idle, writes |-> p.writes,
                         alone |-> c.alone]
  <2>1. Becomes(k, Idle) \/ \E p \in PlansOf(c) : Becomes(k, next(p))
    BY <1>2 DEF Decide, Ends, PlansOf
  <2>2. c.op = "LOADED" /\ c.chip # "FAVORITE_ALL" /\ c # Idle
    BY <1>2 DEF Decide, Idle
  <2>3. UNCHANGED <<slots, cursor, answer, cards, inOrder>>
    BY <1>2 DEF Decide
  <2>4. ASSUME NEW state, Becomes(k, state)
        PROVE  inOrder /\ (\A j \in Calls : ~HalfWritten(j)') => ScreenFits'
    <3>1. \A j \in Calls : HalfWritten(j) => HalfWritten(j)'
      BY <2>2, <2>4 DEF HalfWritten, Becomes, AiInv, TypeOK
    <3> QED BY <2>3, <3>1 DEF FitInv, ScreenFits, IsShown, Suits
  <2>5. CASE Becomes(k, Idle)
    BY <2>2, <2>3, <2>4, <2>5, NobodyElseIsAlone DEF FitInv
  <2>6. ASSUME NEW p \in PlansOf(c), Becomes(k, next(p))
        PROVE  FitInv'
    <3>1. /\ p \in Plans
          /\ p.writes => Fits(p.answer, p.filters, p.cursor)
          /\ ~p.writes => Fits(p.answer, c.filters, cursor)
          /\ p.idle => /\ p.writes /\ p.filters = c.filters /\ HasPlace(c.filters)
                       /\ p.answer \in Again(c.filters)
      BY <2>2, DecidedPlans DEF GoodPlans
    <3>2. next(p).alone = c.alone /\ next(p) # Idle /\ next(p).op = "DECIDED"
      BY DEF Idle
    <3>3. ASSUME c.alone PROVE CallFits(next(p))
      <4>1. c.filters = slots
        BY <2>2, <3>3 DEF FitInv, Alone, CallFits
      <4> QED BY <3>1, <4>1 DEF CallFits
    <3>4. PICK state : state = next(p)
      OBVIOUS
    <3> HIDE DEF next
    <3>5. c.alone => CallFits(state)'
      BY <2>3, <3>2, <3>3, <3>4 DEF CallFits, Again
    <3> QED BY <2>2, <2>3, <2>4, <2>6, <3>2, <3>4, <3>5, MovesFit
  <2> QED BY <2>1, <2>5, <2>6
<1>3. ASSUME NEW k \in Calls, FavoriteAll(k)
      PROVE  FitInv'
  <2> DEFINE c == call[k]
             a == [Says("SHOW_MOVERS", c.filters, answer.mode) EXCEPT
                     !.more = MoreAfterFavorites, !.favors = TRUE]
             next == [op |-> "WRITTEN", idle |-> FALSE, writes |-> FALSE, alone |-> c.alone,
                      answer |-> a]
  <2>1. Becomes(k, Idle) \/ Becomes(k, next)
    BY <1>3 DEF FavoriteAll, Ends
  <2>2. c.op = "LOADED" /\ c.chip = "FAVORITE_ALL" /\ c # Idle
    BY <1>3 DEF FavoriteAll, Idle
  <2>3. UNCHANGED <<slots, cursor, answer, cards, inOrder>>
    BY <1>3 DEF FavoriteAll
  <2>4. ASSUME NEW state, Becomes(k, state)
        PROVE  inOrder /\ (\A j \in Calls : ~HalfWritten(j)') => ScreenFits'
    <3>1. \A j \in Calls : HalfWritten(j) => HalfWritten(j)'
      BY <2>2, <2>4 DEF HalfWritten, Becomes, AiInv, TypeOK
    <3> QED BY <2>3, <3>1 DEF FitInv, ScreenFits, IsShown, Suits
  <2>5. CASE Becomes(k, Idle)
    BY <2>2, <2>3, <2>4, <2>5, NobodyElseIsAlone DEF FitInv
  <2>6. CASE Becomes(k, next)
    <3>1. c.filters \in Filters /\ answer \in Answers /\ cards.more \in BOOLEAN
      BY <2>2, CallTypes DEF AiInv, TypeOK
    <3>2. /\ a \in Answers
          /\ a.filters = c.filters /\ a.next = "SHOW_MOVERS" /\ a.movers = {}
          /\ a.more = cards.more /\ a.favors
      BY <3>1 DEF Says, Answers, Unknown, NextActions, SlotActions, MoreAfterFavorites
    <3> HIDE DEF a
    <3>3. ASSUME c.alone, inOrder
          PROVE  IsShown(a)
      <4>1. Alone(k) /\ c.filters = slots
        BY <2>2, <3>3 DEF FitInv, Alone, CallFits
      <4>2. \A j \in Calls : ~HalfWritten(j)
        BY <2>2, <4>1 DEF FitInv, HalfWritten, Idle
      <4>3. cards.more /\ ~cards.covered => cursor # Nowhere
        BY <3>3, <4>2 DEF FitInv, ScreenFits
      <4> QED BY <3>2, <4>1, <4>3, ChipsTell DEF IsShown, Suits
    <3>4. PICK state : state = next
      OBVIOUS
    <3>5. state # Idle /\ state.alone = c.alone
      BY <3>4 DEF Idle
    <3>6. c.alone => CallFits(state)'
      BY <2>3, <3>2, <3>3, <3>4 DEF CallFits, IsShown, Suits
    <3> HIDE DEF next
    <3> QED BY <2>2, <2>3, <2>4, <2>6, <3>4, <3>5, <3>6, MovesFit
  <2> QED BY <2>1, <2>5, <2>6
<1>4. ASSUME NEW k \in Calls, UpdateSessionSlots(k)
      PROVE  FitInv'
  <2> DEFINE c == call[k]
  <2>1. PICK state : state = [op |-> "WRITTEN", answer |-> c.answer, idle |-> c.idle,
                              writes |-> c.writes, alone |-> c.alone]
    OBVIOUS
  <2>2. /\ c.op = "DECIDED" /\ c # Idle
        /\ c.writes => slots' = c.filters /\ cursor' = c.cursor
        /\ ~c.writes => slots' = slots /\ cursor' = cursor
        /\ Becomes(k, state)
        /\ UNCHANGED <<answer, cards, inOrder>>
    BY <1>4, <2>1 DEF UpdateSessionSlots, Idle
  <2>3. state # Idle /\ state.alone = c.alone
    BY <2>1 DEF Idle
  <2>4. inOrder /\ (\A j \in Calls : ~HalfWritten(j)') => ScreenFits'
    <3>1. \A j \in Calls : call'[j] = IF j = k THEN state ELSE call[j]
      BY <2>2 DEF Becomes, AiInv, TypeOK
    <3>2. c.writes => HalfWritten(k)'
      BY <2>1, <3>1 DEF HalfWritten
    <3>3. \A j \in Calls : HalfWritten(j) => HalfWritten(j)'
      BY <2>2, <3>1 DEF HalfWritten
    <3> QED BY <2>2, <3>2, <3>3 DEF FitInv, ScreenFits, IsShown, Suits
  <2>5. ASSUME c.alone
        PROVE  CallFits(state)'
    <3>1. /\ IF c.writes THEN Fits(c.answer, c.filters, c.cursor)
                         ELSE Fits(c.answer, slots, cursor)
          /\ c.idle => /\ c.writes /\ c.filters = slots /\ HasPlace(slots)
                       /\ c.answer \in Again(slots)
      BY <2>2, <2>5 DEF FitInv, Alone, CallFits
    <3>2. \A j \in Calls : ~HalfWritten(j)
      BY <2>2, <2>5 DEF FitInv, Alone, HalfWritten, Idle
    <3>3. inOrder => answer.filters = slots
      BY <3>2 DEF FitInv, ScreenFits, IsShown, Suits
    <3>4. Fits(c.answer, slots', cursor')
      BY <2>2, <3>1, CallTypes DEF AiInv
    <3>5. c.idle => slots' = slots
      BY <2>2, <3>1
    <3>6. IsShown(state.answer)' /\ ~state.answer.favors
      BY <2>1, <3>4 DEF Fits, Suits, IsShown
    <3>7. state.idle => (/\ HasPlace(slots) /\ state.answer \in Again(slots)
                         /\ inOrder => answer.filters = slots)'
      BY <2>1, <2>2, <3>1, <3>3, <3>5 DEF Again, HasPlace
    <3> QED BY <2>1, <3>6, <3>7 DEF CallFits
  <2> QED BY <2>2, <2>3, <2>4, <2>5, MovesFit
<1>5. ASSUME NEW k \in Calls, PersistAssistant(k)
      PROVE  FitInv'
  <2> DEFINE c == call[k]
  <2>1. /\ c.op = "WRITTEN" /\ c # Idle
        /\ answer' = c.answer
        /\ cards' =
             IF c.answer.movers = {}
             THEN [cards EXCEPT !.since = IF @ < RecentScan THEN @ + 1 ELSE @,
                                !.covered = @ \/ ~c.answer.favors]
             ELSE [movers |-> c.answer.movers, more |-> c.answer.more, since |-> 0,
                   covered |-> FALSE]
        /\ inOrder' = (c.alone /\ (c.writes \/ inOrder))
        /\ Becomes(k, Idle)
        /\ UNCHANGED <<slots, cursor>>
    BY <1>5 DEF PersistAssistant, Ends, Idle
  <2>2. \A j \in Calls : ~Alone(j)'
    BY <2>1, NobodyElseIsAlone
  <2>3. inOrder' => /\ IsShown(c.answer)
                    /\ c.answer.favors => ~c.writes /\ c.answer.movers = {}
    BY <2>1 DEF FitInv, Alone, CallFits
  <2>6. c.answer \in Answers /\ cards \in [movers : SUBSET Movers, more : BOOLEAN,
                                          since : 0..RecentScan, covered : BOOLEAN]
    BY <2>1, CallTypes DEF AiInv, TypeOK
  <2>7. ASSUME c.answer.movers # {} PROVE inOrder' => ScreenFits'
    <3>1. cards' = [movers |-> c.answer.movers, more |-> c.answer.more, since |-> 0,
                    covered |-> FALSE]
      BY <2>1, <2>7
    <3>2. inOrder' => ~c.answer.favors /\ IsShown(c.answer)
      BY <2>3, <2>7
    <3>3. inOrder' => (c.answer.more => "SHOW_MORE" \in Chips(c.answer))
      BY <3>2 DEF IsShown, Suits, Chips
    <3>4. inOrder' => (c.answer.more => cursor # Nowhere)
      BY <2>6, <3>2, <3>3 DEF IsShown, Suits, Answers
    <3>5. inOrder' => IsShown(answer)'
      BY <2>1, <2>6, <3>1, <3>2 DEF IsShown, Suits, Answers
    <3>6. cards'.more = c.answer.more
      BY <3>1
    <3>7. inOrder' => (cards'.more => cursor' # Nowhere)
      BY <2>1, <3>4, <3>6
    <3> QED BY <3>5, <3>7 DEF ScreenFits
  <2>8. ASSUME c.answer.movers = {} PROVE inOrder' => ScreenFits'
    <3>1. cards'.more = cards.more /\ cards'.covered = (cards.covered \/ ~c.answer.favors)
      BY <2>1, <2>6, <2>8
    <3>2. inOrder' => IsShown(answer)'
      BY <2>1, <2>3, <2>6, <3>1 DEF IsShown, Suits, Answers
    <3>3. ASSUME inOrder', c.answer.favors
          PROVE  cards.more /\ ~cards.covered => cursor # Nowhere
      <4>1. Alone(k) /\ inOrder /\ ~c.writes
        BY <2>1, <2>3, <3>3 DEF Alone
      <4>2. \A j \in Calls : ~HalfWritten(j)
        BY <2>1, <4>1 DEF FitInv, HalfWritten, Idle
      <4> QED BY <4>1, <4>2 DEF FitInv, ScreenFits
    <3>4. ASSUME inOrder', cards'.more, ~cards'.covered
          PROVE  cursor' # Nowhere
      <4>1. cards.more /\ ~cards.covered /\ c.answer.favors
        BY <2>6, <3>1, <3>4 DEF Answers
      <4> QED BY <2>1, <3>3, <3>4, <4>1
    <3> QED BY <3>2, <3>4 DEF ScreenFits
  <2>4. inOrder' => ScreenFits'
    BY <2>7, <2>8
  <2>5. (answer.movers # {} => cards = [movers |-> answer.movers, more |-> answer.more,
                                          since |-> 0, covered |-> FALSE])'
    BY <2>1
  <2> QED BY <2>2, <2>4, <2>5 DEF FitInv
<1>6. ASSUME NEW k \in Calls, CallFails(k)
      PROVE  FitInv'
  <2>1. /\ call[k] # Idle /\ Becomes(k, Idle)
        /\ inOrder' => inOrder /\ ~HalfWritten(k)
        /\ UNCHANGED <<slots, cursor, answer, cards>>
    BY <1>6 DEF CallFails, Ends, HalfWritten
  <2>2. \A j \in Calls : ~Alone(j)'
    BY <2>1, NobodyElseIsAlone
  <2>3. \A j \in Calls \ {k} : HalfWritten(j) => HalfWritten(j)'
    BY <2>1 DEF HalfWritten, Becomes, AiInv, TypeOK
  <2>4. (inOrder /\ (\A j \in Calls : ~HalfWritten(j)) => ScreenFits)'
    BY <2>1, <2>3 DEF FitInv, ScreenFits, IsShown, Suits
  <2> QED BY <2>1, <2>2, <2>4 DEF FitInv
<1>7. CASE UNCHANGED vars
  BY <1>7 DEF vars, FitInv, Alone, CallFits, ScreenFits, IsShown, Suits, HalfWritten, Again
<1> QED BY <1>1, <1>2, <1>3, <1>4, <1>5, <1>6, <1>7 DEF Next

\* Whatever actions are sent, after a post of its own the answer is about the stored
\* slots, and none of its chips is refused or shows something else, whatever the rule
\* that made it; but for the next page that is offered with favorites added from behind
\* a later answer (buildUi, handleClientAction, handleFavoriteAll, persistAssistant).
THEOREM AnswersFitTheSession == Spec => []AnswerFitsSession
<1>1. AiInv /\ FitInv => AnswerFitsSession
  <2> SUFFICES ASSUME AiInv, FitInv, inOrder, \A k \in Calls : call[k] = Idle
      PROVE  /\ answer.filters = slots
             /\ \A chip \in Chips(answer) :
                  \/ chip = "FAVORITE_ALL" /\ Found = answer.movers
                  \/ chip = "SHOW_MORE" /\ answer.favors /\ cards.covered
                  \/ /\ chip # "FAVORITE_ALL"
                     /\ ByChip(chip, slots, cursor) # {}
                     /\ chip = "SHOW_MORE" => cursor # Nowhere
    BY DEF AnswerFitsSession
  <2> DEFINE behind == answer.favors /\ cards.covered
  <2>1. Suits(answer, slots, cursor, behind)
    BY DEF FitInv, HalfWritten, Idle, ScreenFits, IsShown
  <2>2. answer \in Answers /\ slots \in Filters /\ cursor \in Filters /\ Continues(cursor, slots)
    BY DEF AiInv, TypeOK
  <2>3. \A chip \in Chips(answer) : chip # "FAVORITE_ALL" /\ (chip = "SHOW_MORE" => ~behind) =>
          /\ ByChip(chip, slots, cursor) # {}
          /\ chip = "SHOW_MORE" => cursor # Nowhere
    <3> HIDE DEF behind
    <3> QED BY <2>1, <2>2, ChipCanBePressed DEF Suits
  <2>4. \A chip \in Chips(answer) : chip = "FAVORITE_ALL" => Found = answer.movers
    BY <2>2, ChipsTell, MoverAiConstantsOK DEF FitInv, Found
  <2>5. answer.filters = slots
    BY <2>1 DEF Suits
  <2> QED BY <2>3, <2>4, <2>5
<1>2. AiInv /\ FitInv /\ [Next]_vars => (AiInv /\ FitInv)'
  BY NextAi, NextFit
<1> QED BY InitAi, InitFit, <1>1, <1>2, PTL DEF Spec

\* Words that change nothing keep the recommendation on the screen: the same mover,
\* as long as it is among those that can be recommended (respondShowRecommendation).
THEOREM TheRecommendationStays == Spec => RecommendationStays
<1> DEFINE Kept == \A k \in Calls :
                     IdleTalk(k) /\ answer.filters.sort = None /\ answer' # answer => Stays
<1>1. AiInv /\ FitInv /\ [Next]_vars => [Kept]_vars
  <2> SUFFICES ASSUME AiInv, FitInv, Next, NEW k \in Calls, IdleTalk(k),
                      answer.filters.sort = None, answer' # answer
      PROVE  Stays
    BY Zenon
  <2>1. call[k].op = "WRITTEN" /\ call[k].alone /\ call[k].idle /\ Alone(k) /\ inOrder
    BY DEF IdleTalk, Alone, Idle
  <2>2. \A j \in Calls \ {k} : call[j] = Idle
    BY <2>1 DEF FitInv
  <2>3. PICK j \in Calls : PersistAssistant(j)
    BY DEF Next, Post, Decide, FavoriteAll, UpdateSessionSlots, CallFails
  <2>4. j = k /\ answer' = call[k].answer
    BY <2>2, <2>3 DEF PersistAssistant, Idle
  <2>5. call[k].answer \in Again(slots) /\ answer.filters = slots /\ HasPlace(slots)
    BY <2>1 DEF FitInv, CallFits
  <2>6. slots \in Filters /\ answer \in Answers /\ ~IsComplete(slots)
    BY <2>5 DEF AiInv, TypeOK, IsComplete
  <2>7. answer' \in RankingAnswers(slots, answer.pick)
    BY <2>4, <2>5, <2>6, ShowAgainIsGood DEF Again
  <2> QED BY <2>7 DEF RankingAnswers, Stays
<1>2. AiInv /\ FitInv /\ [Next]_vars => (AiInv /\ FitInv)'
  BY NextAi, NextFit
<1> QED BY InitAi, InitFit, <1>1, <1>2, PTL DEF Spec, RecommendationStays

=============================================================================
