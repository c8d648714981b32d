# MOVING: a TLA+ model of the backend

MOVING matches customers who move house with movers. This directory models its
server (Express, Prisma, PostgreSQL, one process) in TLA+: the modules, the TLC
configurations that check them on small instances and proofs checked by TLAPS.
Source paths below are relative to the repository's `src/` directory (`src/jobs/...`).

## 1. The system

| Component | State | Operations | Interacts with |
| :-- | :-- | :-- | :-- |
| Quotation requests (`modules/quotation-request`) | `quotation_request`, `targeted_request` | open a request, target movers, list | estimates, notifications |
| Estimates (`modules/estimate`) | `estimate` by (request, mover) | send, reject, confirm, list | requests, `mover_profile.confirmed_count`, chat rooms, notifications |
| Payments (`estimate.service`, `estimate.payment`, `toss-payments`) | deposit and payment columns, `estimate_extra_charge` | pay deposit or balance, propose / edit / answer charges, ask for payment | Toss Payments over HTTP, reviews, notifications |
| Jobs (`src/jobs`) | none of their own | cancel overdue deposits (hourly), close requests (00:00), remind (09:00), careers (yearly) | all of the above |
| Notifications (`modules/notification`) | `notification`, SSE connections in memory | record in the transaction, publish after the commit, read, delete, list | every writer |
| Chat (`modules/chat`) | `chat_room`, `chat_message`, read marks | send, mark read, close after 14 days, list | estimates, notifications, SSE |
| Reviews, favorites | `review`, `review_image`, `favorite`, counters in `mover_profile` | write, edit, photos; add, remove, in bulk | estimates, search |
| Accounts (`modules/auth`, `modules/profile`) | `user`, refresh-token hash, profile and services, three tables of verification codes | sign up, log in, refresh, reset, delete account, register and edit a profile | mail, every table on deletion |
| Mover search (`modules/mover`) | none of its own | lists in four orders with a cursor of figures, ranking | reviews, confirmations, careers |
| AI search (`modules/mover-ai`) | sessions and messages | slots, chips, lists, recommendation, favorites from the chat | external LLM, mover search, favorites |
| Middlewares | in-memory rate counters | guards in front of the handlers | |

What makes it hard:

- **Interleaving.** A handler checks, awaits and then writes. Some transactions
  repeat the check in a conditional update, some run Serializable and retry,
  some neither.
- **Time.** Deposits expire after 48 hours or at 00:00 of the moving day; jobs
  run at fixed hours and may find anything. An LLM answers after up to twenty
  seconds, on the basis of what was read before.
- **External services.** Toss takes money between two database steps, and its
  answer may be lost. A browser's connection breaks, stalls and comes back.
- **Several rows, one story.** Request, estimate, deposit columns, counters,
  chat room, notifications and the event a browser gets have to agree.
- **Cursors.** A client reads a list in pages while its rows move and vanish.

`PROJECT.json` lists under `hazards` each place in the code where one of these
bites, with the property that watches it or the reason why none does.

## 2. The modules

| Module | What it is |
| :-- | :-- |
| `MoveAssignment` | The promise: a request is open, held by one mover, done or lapsed; an unpaid hold may be released, a paid one may not; only a settled hold is finished. |
| `EstimateLife` | What every writer of an estimate's row keeps of its status and deposit: only an unpaid confirmation is taken back, only a settled one is completed, a rejection is the end. |
| `MoveLifecycle` | The handlers and jobs that keep it: requests, targets, estimates, rejections, confirmations, deposits, `expireDeposits`, `expireRequests`. |
| `EstimatePayment` | The money of one estimate: both payments through Toss, extra charges, answers, payment requests. |
| `VerificationCode` | The codes sent by mail: sign-up, password reset, opening the profile for editing. |
| `Accounts` | One account from sign-up to deletion: guards, session, profile and services, and the deletion against everything else. |
| `EventStream` | The connections of `notification.sse` and what the client behind each has been told. |
| `ChatRoom` | A room, its notifications, the moving-day reminder, and when they are published; extends `EventStream`. |
| `Reputation` | Reviews, photos and favorites, and the figures of the mover's profile computed from them. |
| `MoverSearch` | The cursor list of movers in its four orders, and the ranking, over figures that change. |
| `MoverAi` | The conversation: every rule and chip of a post, and posts that overlap. |
| `Lists` | The six lists that page by a row's id, in seven orders. |
| `*_proofs` | The proofs of the module they are named after, `Cursors_proofs` those of `Lists` and `MoverSearch` (section 4). |
| `MC*` | Small instances for TLC. |

Each module holds a few definitions commented "A mutant": the same definition
with a plausible bug. Nothing uses them; `PROJECT.json` (`mutants`) pairs each
property with the one that must break it.

### MoveLifecycle

State: one function per column that matters, by request or by (request, mover), which is
the unique key of `estimate`. `deposit` abbreviates the two deposit columns (`NONE`:
amount NULL, `DUE`: unpaid, `PAID`); `day` is today relative to the moving date, which
is all that `getExpireBaseDate` and the deadline are used for; `late` says whose 48
hours are over. `call` is what the HTTP calls under way have checked and still rely on,
`job` the open transaction of `expireRequests`. `cards` counts the notification events
per type, up to `MaxCards`. `left` and `erased` come from the deletion of a mover's
account (`DeleteMoverAccount`): the targets of the mover go, pending and rejected
estimates go with them (`Erasable`), completed ones stay, and a mover with a confirmed
estimate cannot leave (`MayLeave`). A late rejection may have replaced that
confirmation; `erased` then keeps what deposit the row had. Calls of such a mover that
are under way go on, since the row of the user stays. What the model does not tell apart
is whether the balance of a completed estimate was paid; `Accounts` has the deletion of
a customer.

How steps were cut:

- A transaction whose first statement is a conditional `updateMany` is one
  step: PostgreSQL locks the row and evaluates the condition again after waiting.
  `confirm`, `payDeposit` and `expireDeposits` (per estimate) are of this kind;
  when a second conditional update finds nothing, the whole transaction is rolled
  back, so both conditions are guards.
- A Serializable transaction (`save`, `reject`, `saveTargetedRequest`) is one
  step. Retries after a serialization failure run the same step later.
- What the service checks before the transaction is a step of its own whose
  result the call remembers: `CreateCheck`, `SaveCheck` (including whether the
  mover was targeted), `RejectCheck`. `saveTargetedRequest` repeats everything
  inside, so its check needs no step.
- `expireRequests` reads the settled estimate and then writes under Read
  Committed: two steps.
- A call may fail and the process may restart at any moment; what is not
  committed is lost.

`Legacy` names estimates confirmed before deposits were introduced: the code
treats `depositAmount = NULL` as settled.

`ImplementsAssignment` maps a request to `MoveAssignment`, `ImplementsLives` each of
its estimates to `EstimateLife`, the module that `EstimatePayment` implements too:
what is the environment in one module is an action of the other, and both write the
row in the same way.

### EstimatePayment

One estimate of price `Price`. `pay` is three steps: the checks, Toss (approved,
refused, or no answer within ten seconds with the money taken or not), the conditional
update that records it. Toss takes the money of an order number once, because
`toss-payments.ts` sends the order number as idempotency key; this is the one external
assumption. `proposeExtraCharge` and `updateExtraCharge` hold the estimate's row from
their first update to the commit (two steps); `respondExtraCharges` changes charges
under a condition on the estimate but does not lock its row (two steps). Its
`updateMany` takes the charges one row after the other; the model takes them together.
The condition on the estimate is evaluated in one snapshot either way, the commit is a
step of its own, and of two answers that lock crosswise PostgreSQL ends one, as
`CallFails` may. The rest of the estimate's life comes in as the environment: `Confirm`,
`ExpireDeposits`, `Complete`, `RejectLate`. `PaymentStage` is what the service computes
from the columns (`toPaymentStage`), `DepositDue` and `BalanceDue` the conditions of the
updates and lists, written separately in the code; `StagesAgree` says that they never
disagree. `asked` is an auxiliary variable: the payment requests sent in the stage that
runs. Left out: the mode without a Toss key, `paymentKey` uniqueness, notifications
except PAYMENT_REQUEST.

### VerificationCode

One email and role, and the one row its purpose's table may hold for it. The
three flows of `auth.service` and `profile.service` are the same up to the
moment a right entry is accepted, so they share the actions `SendCode`,
`ReplaceCode`, `Mail`, `VerifyCode`, `WrongCode` and differ in the rest:

- sign-up marks the row verified (`AcceptSignupCode`, which looks at expiry and
  failures again) and later exchanges the row for an account (`SignupCheck`,
  `Signup`); the row must have been verified in the last 30 minutes;
- password reset issues a token that names the row (`AcceptResetCode`) and later
  marks the row used (`ResetCheck`, `ResetPassword`);
- profile editing marks the row used at once (`AcceptEditCode`).

`SendCode` is the point where the transaction's `deleteMany` sees the row,
`ReplaceCode` the insert: a send that saw another row than the one that is there
now meets the unique key (`SendConflict`). A row that vanished in between is no
conflict. Reading a row and writing it are separate steps, as are checking a
reset token and using it, with the hashing in between. `SignupCheck` stands at
the moment `verifiedSince` is computed; an account that was created after the
earlier look-up is met by the unique key. `done` is `verified_at` or `used_at`:
`FRESH` within 30 minutes, `STALE` after. `acted` counts the effects of a code:
accounts created, passwords reset, editing sessions opened. Two codes are never
equal by chance. Left out: who may ask (rate limits), what the account contains,
the session that a sign-up opens, the deletion of the account.

### Accounts

One account of either role. A call passes `requireAuth` and `requireProfile` in
steps of their own and acts later, so an account may be deleted behind its
guards. `role`, `deleted`, `personal` (the row still holds something personal),
`refresh` (a refresh-token hash is stored), `verified` (the editing code was used
in the last 30 minutes), `profile`, `services` and `move`, what each of the
customer's requests or the mover's estimates has come to; a held move may also end by
a late rejection, as in `stuck` (section 5).

`deleteAccount` is `DeleteCheck`, `DeleteBegin` and `DeleteCommit` or
`DeleteRetry`: the transaction is Serializable, so it decides on and erases the
rows of its first read (`rows`), and any commit that changed one of these rows
in the meantime (`Outdated`) makes it roll back and start again, up to
`DELETE_ACCOUNT_MAX_RETRIES`. Rows inserted since are not erased. All other
transactions run Read Committed. An update with services is two steps, because
`deleteMany` and `createMany` may have another commit between them. `LoginCheck`
stands for `login` and `oauthLogin`. Left out: `refresh`, which writes nothing;
two tokens that are equal because they were issued in the same second; the
unique keys of a sign-up (in `VerificationCode`); that a row lock keeps two
updates of the same columns apart; regions, which are replaced as services are.

### EventStream and ChatRoom

`EventStream` describes a connection by what the process knows (`targets`, its
Map), what is true of the socket (`OPEN`, `FULL`, `BROKEN`) and what the client
has seen: `current`, it has fetched everything committed for its user; `told`,
an event is on its way. Events carry no contents, so no more is needed. A stream
that reports a full buffer is destroyed; a client whose connection ends opens a
new one and fetches.

`ChatRoom`: a message gets its id at the insert and becomes visible at the commit, and
the room's row, updated in between, orders the commits but not the ids; a message that
commits after one with a greater id is `LATE`. Marking a room read is a read of the
latest visible message, the notification, the mark and the event, in the order of
`markRead`; reading the notification itself takes the same steps from the other end. The
moving-day job filters out who has the reminder, inserts for the others, and publishes
after the commit to those it inserted for (`reminders`, by user). What it meets differs
between runs: the customer alone, or both sides (`Recipients`). Its attempts are
numbered and each begins with an empty queue (`QueueOfRetry`); reading the rows and
filling the queue are one step, the insert that waits for another job's is the conflict.
A send may be refused at any time, which covers the closing date; an id whose
transaction rolled back is `Lost`. A user's own tabs are not told of the user's own
reading, and that is how the code is. Left out: photos, `lastMessageAt`, wording.

### Reputation

`review` and its photos are written in Serializable transactions: `ReviewBegin`
reads what the average is computed from, `ReviewCommit` writes status, stars,
average and counter, and a commit by another transaction on the same review or
profile defeats it (`Committed`, `Conflict`). The count of photos before the
upload (`ImageCheck`) is repeated inside. Favorites are inserted with ON CONFLICT
DO NOTHING and counted by what was returned, one step each; lists of favorites
are filtered first by the movers that exist (`BulkCheck`). The yearly job and the
deletion of a mover come in because they write the same profile.

### MoverSearch

`ListByFilters` is the query of `mover.repository` (`ShowPage`): it shows the
first `PageSize` rows after the cursor (`AfterCursor`), which carries the figure
and the id of the last row shown. Every order has one figure, and the id breaks
ties. `RowChanges` is everything else in the system that gives a mover other
figures, or takes the mover out of the list. `timesShown` and `changed` record the
reading. The ranking is `ListRankCandidates`, `ReadMean`, `PickBestMover` (one turn
of the loop, in any order of the rows) and `ShowRecommendation`. Scores are the
fractions of `mover-ai.rank` multiplied by their denominators, so that they are
integers.

The code compares scores and Bayesian ratings with a tolerance of 1e-9
(`mover-ai.rank.ts:73-78`), so the model does (`Exceeds`, `Ties`; `Precision` is 10^9 in
the code, 5 in the instance so that its figures can come that near). "Within the
tolerance" is not transitive: of three near ties each may beat the next and the last the
first, and the pick then depends on the order in which the rows were read.
`BestIsPicked` therefore promises what the code can: where no two are near without being
equal (`Distinct`), the pick comes first by the five keys; where some are, no score
exceeds that of the pick by more than one tolerance for each other candidate. Equal
Bayesian ratings may come out of the floating-point division a few roundings apart
(`Rounding`, `Roundings`). That changes no rating by more than the tolerance, but
`normalize` divides by the difference of the greatest and the least, so where all are
equal it changes the score.

### MoverAi

A post is `Post`, which reads the session and the latest answer, `Decide`, and then
`UpdateSessionSlots` and `PersistAssistant`, the two writes, with no transaction around
them; the chip that favorites what is shown does so first (`FavoriteAll`). `Decide` goes
through the rules of `mover-ai.service` in their order: the chip that was pressed
(`ByChip`), names of places that are ambiguous (`ByAmbiguousPlace`), names and resets
(`ByReset`), what Gemini suggests (`ByGemini`), the next missing slot (`BySlots`). Each
makes a plan: the slots and the cursor to store, and the answer. A post may carry any
action, whether the latest answer offered it or not, since neither the schema nor the
service asks. "Favorite all" acts on the latest answer that showed movers (`cards`,
`Found`), which may stand up to `RecentScan` answers back. Which movers a list or a
ranking finds is left open here. `inOrder` says whether the last post ran alone to its
end, since most of what an answer promises can only be promised then. Left out: wording,
translation, how a text is matched with names, the restored history.

### Lists

A reading of one of six lists: notifications, rooms, messages, reviews, estimates, a
mover's incoming requests. `kind` is one of seven orders, the requests having two: by
id, and by a time alone (`REQUESTS_BY_DATE`: the moving date, or the moment the request
was created, `estimate.service.ts:457` and `:441`), which several requests may share
without an id to decide between them. In the other orders a place has one row.

`kind` also decides what may happen to a row behind the reader's back. A new row may
stand anywhere (`TakesPlace`): ids commit in another order than they are given, and
dates come in any order. A room or its notification moves up, and also down
(`Moves`), because it takes the time of the message that was stored last and not of the
latest one. A row may leave the condition and come back (`Filtered`), and every row may
be deleted, by its owner or with an account.

What Prisma does with a cursor and `skip: 1` is the external assumption of the
module. `From`: it compares with the place the cursor's row has now. `Firsts`: a query
may return rows that share a place in any order, and in another one the next time.
`UpToCursor`: where the order is not unique, Prisma reads on from the tied rows and
looks for the cursor's own. `Skipped`: the first row of the result is passed over,
whichever it is. `touched`, `fell`, `lost` and `rose` record what happened to the rows
during a reading; `Tied` says that a row shares its place.

## 3. What the runs check

| Run | Instance | Shows |
| :-- | :-- | :-- |
| `core` | 1 request, 3 movers, limits 1 + 1, 2 calls; customers confirm again and movers delete their accounts at will | `AtMostOneHolder`, `StatusMatchesHolder`, `PaidMoveIsKept`, `CardsTellHistory`, `EstimateLimits`, and the refinements `ImplementsAssignment` and `ImplementsLives` |
| `two` | 2 customers, 2 movers, one legacy confirmation, fair jobs | `ConfirmedCountIsExact` over several requests of one mover; `ActiveIsReleasedOrOverwritten`: every active request ends, unless a late rejection replaced its confirmation or its customer confirms again and again |
| `payment` | 2 calls, 2 charges of 1000 or 2000, price 10000 (limit 2000, deposit 1000) | nothing recorded that was not charged in full, nothing overcharged, charges within the limit, one payment request per stage, answers are final, amounts are frozen once paid, every call ends, and the refinement `ImplementsLife` |
| `codes` | 3 calls, 2 codes, 2 wrong entries, the three purposes | failures stay within the limit, a code has its effect once, one account, only the newest code has effects, a void sign-up code stays void |
| `accounts` | 2 calls, 2 moves, 2 services, 2 attempts, both roles | a deleted mover holds no move, no deletion erases a held move (`HeldMovesSurvive`), a profile has a service |
| `chat` | 2 calls, 2 messages, 2 tabs of the customer, 2 attempts | every working connection is told of every commit, events are sent for what was recorded, a notification is unread for a reason, one reminder for each recipient |
| `reputation` | 2 reviews of one mover, favorites of 2, 2 calls, 1 photo, 2 attempts | average and number of reviews, number of favorites, limit of photos |
| `search` | 3 movers, 3 rows of figures, pages of one, a tolerance of 1/5 | a mover whose figures stay is shown once; the ranking picks the best, up to chains of near ties |
| `ai` | 2 regions, 1 service, 1 order, 2 movers, 2 posts at once, 3 in all, 2 answers looked back on | the stored cursor continues the stored slots; after a post alone every chip does what it says, but for one case (section 5); idle words keep the recommendation |
| `lists` | 3 rows, one not shown, pages of one, 5 places | rows that stay are shown (`ReadingIsComplete`) and once (`ShownOnce`), in each of the seven orders, but for ties |
| `stuck`, `two_active` | | what a comment or the README says and the code does not keep (section 5) |

Why the bounds are enough: a property of a request concerns two movers at most, and the
third takes part in the races for the last place; limits of one are reached and exceeded
by three movers; a race needs two calls, one that has checked and one that changes what
was checked. In `payment`, two charges of 1000 reach the limit and 1000 + 2000 exceed
it. In `codes`, two sign-ups need a third call that sends and verifies between them,
three wrong entries exceed a limit of two, and two codes are a resend. In `accounts`,
two attempts are a deletion that starts again; in `chat`, two messages are the fewest
whose commits come in another order than their ids; in `reputation`, two reviews are the
fewest that share an average. In `search` and `lists`, pages of one put a cursor on
every row. The three rows of figures of `search` give near scores, near ratings and
chains longer than one tolerance; the five places of `lists` leave room for a row above,
between and below the others. In `ai`, two overlapping posts can undo each other's
writes and the third meets the result. What is proved (section 4) does not depend on any
of these bounds. Bounds of the model: `MaxCards`, `Charges`, `Calls`, `MaxCodes`,
`MaxMessages`, `MaxAttempts`, `MaxPosts`, `RecentScan`, `Precision`, `Rounding`,
`MaxPlace`, `Rows`, `Profiles`, the set of requests. Movers, calls and the like are
interchangeable where a run declares symmetry; runs with liveness use none.

Deadlock is checked except in `reputation`, where all movers may have left, and
in `ai`, where `MaxPosts` posts may have been made. Elsewhere `Restart` or its like
is possible, so what the check really excludes is an evaluation error; stuck
calls are the subject of `EveryCallAnswers`, stuck requests of `two`.

Fairness. `MoveLifecycle`: days pass; the two jobs run on schedule (`server.ts` starts
them with the process) and take every target in turn, so a target that stays one is
handled: weak fairness for `ExpireDeposits`, strong fairness for the two steps of
`expireRequests`, because a restart may cut off a run but not every run. Customers and
movers owe nothing, and nothing counts how often a customer confirms: one who confirms
again after every expired deposit keeps the request active for ever, and
`ActiveIsReleasedOrOverwritten` says so (`ConfirmedForEver`). For every other request
strong fairness asks no more of a job that runs once a day than that it runs: once the
last confirmation is made, an active request whose day has passed stays one that the job
looks for, and only the job's work on another request or a restart comes between.
`EstimatePayment`: a call that was accepted goes on; strong fairness because waiting for
a row is a queue in PostgreSQL and Toss is cut off after ten seconds. The other modules state safety only:
what their calls must reach is reached by retrying or not at all, and the code promises
neither.


## 4. What is proved

The theorems hold for any sets of requests, movers, calls, charges, connections and
so on and for any limits that satisfy the module's named assumption (`ConstantsOK`,
`PaymentConstantsOK`, `CodeConstantsOK`, `AccountConstantsOK`, `ChatConstantsOK`,
`ReputationConstantsOK`, `MoverAiConstantsOK`, `ListConstantsOK`, `SearchConstantsOK`):
sets are finite where they are counted, limits are natural numbers, special values are
not members.
The bounds of section 3 are constants as well, so a theorem holds for each of them.
Every proof goes action by action; a case names the parts the action can disturb.
Each inductive invariant was checked by TLC on the run's instance before it was
proved. Where a proof covers the type invariant of a module, the runs do not repeat it,
except `core`.

| Module | Theorems |
| :-- | :-- |
| `MoveLifecycle_proofs` | `TypeCorrect`, `AssignmentCorrect`, `OneHolder`, `StatusAgrees`, `PaidIsKept`, `CardsAreTrue`, `LimitsHold`, `CountIsExact`, `Implements`, `ImplementsEveryLife` |
| `EstimatePayment_proofs` | `PaymentCorrect`, `DepositTakenOnce`, `AskedOncePerStage`, `AnswersAreFinal`, `PaidFreezes`, `PaymentTypeCorrect`, `RecordedWasCharged`, `NobodyOvercharged`, `LimitIsKept`, `StagesAlwaysAgree`, `PaymentImplementsLife` |
| `VerificationCode_proofs` | `CodeTypeCorrect`, `CodeCorrect`, `CodeUsedOnce`, `CodeOneAccount`, `CodeFailuresWithinLimit`, `CodeNewestOnly`, `CodeVoidStaysVoid` |
| `Accounts_proofs` | `AccountTypeCorrect`, `AccountCorrect`, `DeletedMoverIsFree`, `ServicesStay`, `DeletionSparesHeldMoves` |
| `ChatRoom_proofs` | `ChatTypeCorrect`, `ChatConnectedIsTold`, `ChatAnnouncedIsRecorded`, `ChatRemindedOnce`, `ChatUnreadHasReason` |
| `Reputation_proofs` | `ReputationCorrect`, `RatingStaysAverage`, `FavoriteCountStaysExact`, `ImagesStayWithinLimit` |
| `MoverAi_proofs` | `AiTypeCorrect`, `CursorIsOfItsSlots`, `AnswersFitTheSession`, `TheRecommendationStays` |
| `Cursors_proofs` | of `Lists`: `ListTypeCorrect`, `ListShownOnce`, `ListReadingIsComplete`; of `MoverSearch`: `SearchSeenOnce`, `SearchPicksBest` |

**MoveLifecycle.** "One holder" is not inductive: a rejection may replace a
confirmed estimate, and then only the deposit columns tell that the request is
taken. So `Holds` looks at both, and `AssignmentInv` adds what each handler relies
on:

- `DepositMatchesStatus`: an estimate that was never confirmed or was cancelled
  has no deposit, so `Confirm` of another mover meets no forgotten one;
- `LegacyIsKept`: a confirmation without a deposit is a legacy one and stays, for
  no open rejection is about its request (at most one estimate of a request is
  legacy, by `ConstantsOK`);
- `JobFoundSettled`: what `expireRequests` found settled in its first step still
  is in its second: a paid deposit is never cleared. Without it, completing the
  request in the second step could contradict a cancellation in between.

The limits need `CallsRememberTargets` (`LimitInv`): the mover of a call that was found
targeted still is, or has deleted the account since. The estimate of the latter may be
stored as a general one beyond the limit, so `EstimateLimits` counts the movers who are
still there (section 5). `ErasedForGood`, in `AssignmentInv`: a deposit is erased only
with the account, and no later confirmation gives that row another one. The counter is
a cardinality: each action either leaves who holds what (`HoldersKept`) or moves
one request into or out of a mover's set (`Held`). `Implements` is the refinement of
`MoveAssignment` under the mapping `AbsPhase`, `AbsHolder`, `AbsPaid`: the initial
states map to initial states and every step to one of its steps or to a stutter
(`AbsStep`). `ImplementsEveryLife` does the same for one estimate among the others; it
needs `AssignmentInv` for the job's second step, which completes what the first found
settled.

**EstimatePayment.** Two invariants. `IInv` (`PaymentCorrect`) holds the parts that do
not depend on the value of a sum: an update of charges that holds the estimate's
row began before the payment and still meets an unpaid estimate
(`WritersBeforePayment`); an answer on its way is about charges that were proposed
(`AnswersHoldProposed`); a recorded deposit was charged (`DepositCharged`); what the
stage, the mark of a request and the count of requests have to do with each other
(`StageInv`); the review row is there exactly when the balance is paid
(`ReviewInv`).

`MoneyInv` is about the sums. `BalanceInv`: what was charged for the balance, and what a
payment under way was started with, is never more than the balance of today
(`NeverOvercharged`) and never less than the price without the deposit
(`RecordedIsCharged`). This is so because the balance only grows: approving a charge
adds to it, and an approved charge is not edited. `LimitInv`: one transaction writes
charges at a time, and the sum it has read is at least that of the other charges, since
an answer only lowers it. A sum over a finite set is a fold, which is a CHOOSE of a
recursive function on its subsets. The lemmas about it (`SumTakesOut`, `SumGrows` and
others) are proved without an induction theorem: a smallest subset without the property,
which exists because the strict subsets of a finite set are well founded, leads to a
contradiction.

**VerificationCode.** `CodeInv` adds to its three properties:

- `IdsNameCodes`: an id that a token or a call still holds names the code it was
  taken with, and the row holds the newest code. Because a resend makes a new
  id, "the row has my id" is the same as "mine is the newest code";
- `EffectIsRecorded`: a code that had its effect is marked in the row or is no
  longer there, and for sign-up the account exists;
- `FlowsAreSeparate`: sign-up steps only in the sign-up flow, tokens only in the
  reset flow.

**Accounts.** The deletion decides on what it read and commits later.
`DeletionsCover` says what a deletion that may still commit knows about the rows as
they are now: whoever changes a row it relies on takes the commit away from it
(`StillFresh`), and every other change, such as a service inserted since, is one
the deletion leaves alone. That no deletion erases a held move is then what it
knows at its commit.

**Reputation.** The same idea for the average: `TransactionsKnow` says what a
transaction that has not been defeated still knows about the stars, the profile and
the photos; every step either leaves them or defeats it (`StillOpen`). The average
itself is never computed: two functions of stars that are equal have the same one.
`FavoriteCountStaysExact` is an argument about cardinalities (`Fans`).

**ChatRoom.** What the process writes to includes every connection that works
(`SocketInv`). An attempt of the reminder carries the events of its own insert only
(`AttemptInv`), and it inserts for those only who had no reminder when it read the rows
(`RemindStep`). For the unread notification, `OpenInv`, `MarkInv` and `CardInv` follow
the mark and the notification through the steps of a send and of a reading: a
notification that stays unread has a message behind it that is unread or late.

**MoverAi.** No lock protects the session, so the argument for the cursor is about each
plan by itself: whichever rule made it, its cursor continues the list of its own slots,
and the two are written together. A post hands on what it read, which was written
together too.

What the chips promise can only be promised of a post that ran alone. `FitInv` follows
such a post: as long as it runs no other does; what it plans (`Fits` of the plan's
answer, slots and cursor, by cases over every rule in `TextPlans` and `ChipPlans`) is
what is stored when both writes are done; and what the latest cards promise still holds
as long as no other answer covers them (`ScreenFits`, `Suits`). `ChipsTell` and
`OfferFits` say what an answer offers and what the session must hold for it.
`MoverAiConstantsOK` says that there is at least one service and one order, as in the
code's two enumerations: without one, a chip would have no choice behind it.

**Lists.** Everything is said of rows that share their place with no other; where the id
decides between equal times, these are all rows (`PlacesOK`).
For `ListShownOnce`: such a row, shown in this reading, stands at or above the cursor's
row unless one of the two moved (`ShownAbove`), and a query only finds rows from the
cursor down (`RestBelow`). As long as the cursor's row is listed, `skip: 1` passes over
that row and no other that has a place of its own (`OneFirst`). For
`ListReadingIsComplete`: the cursor's row is listed until it is touched (`CursorOK`); a
page takes the highest of the rest and is full unless it holds everything
(`PageOfRest`), so nothing that has a place of its own falls between two pages, and a
list that ends has shown all. `PageNext` and `TouchNext` put these together for the
reader's steps and the rows'.

**MoverSearch**, in the same module. Its lemmas about pages are stated for any strict
order of a finite set (`OrderedBy`). For
`SearchSeenOnce` the value and the id put the listed movers in a row (`FiguresOrder`);
the cursor keeps the figures of the last mover shown, so which side of it an unchanged
mover is on never changes, wherever the last one has moved since; and a page is what
comes first among those after the cursor (`NewPageSeenOnce`).

For `SearchPicksBest` the scores must be integers: the greatest and the least of a finite
set are among its elements (`Extremes`), and the mean is a sum over a set, that is a
CHOOSE of a recursive function (`SumIsNumber`, proved as the sums of `EstimatePayment`
are). The turn of the loop (`OneTurn`) keeps two things. No score of those seen is more
than one tolerance for each other above the best (`InReach`): a new best was at most one
tolerance below the old one (`FurtherOut`). And where what ties is equal, an excess over
the tolerance is just "greater" (`ExceedsIsGreater`), the five keys are a strict order
(`BeatsIsOrder`), which is the one the property states key by key (`BeatsOutranks`), and
the best comes before the others seen (`KeepsBest`).

Only model-checked:

- liveness (`ActiveIsReleasedOrOverwritten`, `EveryCallAnswers`): out of the prover's
  reach, as is ENABLED;
- that the integers of `MoverSearch` stand exactly for the code's fractions
  (`ScaleIsExact`): an assumption about the rows of the instance, which TLC evaluates.
  No proof uses it.

## 5. Where code and comments differ

- **`stuck`** (a bug). `reject` checks PENDING before its transaction and then
  upserts without a condition. If the customer confirms that estimate in between,
  the request is ASSIGNED, its estimate REJECTED, and no job ever closes it: the
  customer can open no other request nor delete the account. The README's state
  diagram has no arrow from CONFIRMED to REJECTED. `two` shows that there is one other way
  only in which a request stays active: its customer confirms again after every expired
  deposit, which nothing counts and no check of the moving date ends
  (`estimate.repository.ts:351-386`).
- **`two_active`**: the rule "one active request per user" is a read followed by
  an insert; two calls open two.

Also seen, without a run of its own. About the move and its money:

- an estimate can be stored on a request that is no longer PENDING, as in `stuck`
  (`estimate.service.ts:145` against `:120`); it does no harm to the assignment;
- whether a mover is targeted is read before the transaction of `save`
  (`estimate.service.ts:150`). If the mover's account is deleted in between, the target
  goes with it (`auth.repository.ts:135`) and the estimate is stored as a general one,
  beyond the limit if five are there;
- the comment of `expireDeposits.job.ts:19` says the chat room of a cancelled
  confirmation is deleted; it is kept, and `estimate.repository.ts:349` and `:392`
  disagree about it too;
- `pay` computes the balance before it waits for Toss, and a charge proposed and
  approved in that time is in no balance (`estimate.service.ts:248` against the
  README's line 155); one proposed in that time may stay unanswered on a PAID
  estimate;
- if the deposit expires while Toss approves, the money is taken, nothing is
  recorded and the customer is told that it has been paid already
  (`estimate.service.ts:265`, `errorCodes.ts:59`);
- "once per estimate" for payment requests is once per stage, since `payDeposit`
  clears the mark;
- the schema's comment that a review row appears at completion is out of date: it
  appears with the payment.

About accounts:

- the sign-up table looks at a code's expiry and failures again when it accepts;
  the reset and editing tables look only when the row is read, so there a right
  entry that was read before the last wrong one was counted is accepted.
  `VoidStaysVoid` is therefore about sign-up alone;
- a login under way while the account is deleted stores its refresh token on the
  erased row (`auth.service.ts:41`, `auth.repository.ts:15`), and an update under way
  writes name and phone back to it. The next request is refused
  (`middlewares/auth.ts:36`);
- a changed password in the profile keeps the sessions, the reset ends them.

About chat, notifications and lists:

- reading a room marks the notification first and moves the mark to the message it
  saw (`chat.repository.ts:159`, `:162`). A message with a smaller id that commits
  later is passed by the mark; its notification stays unread;
- the closing date of a room is the estimate's `updatedAt`, which every later write
  of the row moves, so a closed room can open again (`chat.repository.ts:18`);
- a message gives its room and the notification its own time
  (`chat.repository.ts:133-141`). Of two sent at once the later commit may bring the
  older time: the room moves down, and a reader who has seen it sees it again (`fell`);
- a mover's incoming requests are ordered by the moving date, or by `createdAt`, and
  nothing else (`estimate.service.ts:457`, `:441`), although the comment at
  `estimate.repository.ts:244` says why the id is needed. Requests that share it may be
  skipped or repeated between two pages even if nothing changes (`Tied`);
- a list whose cursor row leaves the condition drops a row that was never shown,
  since `skip: 1` skips the first row whichever it is, and a deleted cursor row ends
  the list early (comment at `estimate.repository.ts:244`); a cursor row that rises
  shows rows again (comment at `notification.repository.ts:88`). `ReadingIsComplete`
  and `ShownOnce` except exactly these cases (`lost`, `rose`).

About the conversation:

- a recommendation is lost when the next words complete the filters
  (`mover-ai.service.ts:929` against `:920`);
- "favorite all" pressed on cards that another answer has covered meanwhile copies their
  "show more" (`:595`), although the session may have dropped its cursor; pressing it is
  then refused (`:527`). `AnswerFitsSession` excepts exactly this (`covered`);
- a restored favorites message loses its "show more" (`:716` against `:595`); two
  "show more" at once show the same page; "favorite all" that overlaps another
  answer favorites movers other than those on the screen (`:575`).

About figures: near ties of the ranking depend on the order in which the database
returns the rows, which no ORDER BY fixes (`mover-ai.rank.ts:73-78`); favorites in bulk
and one by one lock their rows in different orders (`favorite.repository.ts:69`); a
favorite of a mover deleted in between stays as a row that nothing shows; a photo whose
transaction fails stays in the storage.

## 6. What is left

Every module of the plan is written, and every safety property that a run expects to
hold is proved. What remains:

1. the calendar: `getExpireBaseDate`, the deposit deadline and "the day of the move"
   as arithmetic over instants and Korean days, against a reference definition. The
   modules use only the order of today, the deadline and the moving date;
2. the closing date of a room as a function of the estimate's columns;
3. `refresh` and the sessions of several devices;
4. rate limits, if the code ever does more with them than configure a library.

## 7. Not modelled

Social login, mail and uploads to S3 (I/O and field mapping); rate limits (counters
of a library); hashing, tokens, cookies and file signatures (pure functions over
bytes); response shapes, DTOs, Swagger; start-up and configuration; seed and test
data. Of modelled parts: text filters of the search, the detail pages, regions,
images and texts of a profile, photos in a chat, wording and translation of the
conversation. `PROJECT.json` (`components`) gives the reason for each part.
