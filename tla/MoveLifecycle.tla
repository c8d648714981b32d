---------------------------- MODULE MoveLifecycle ----------------------------
(***************************************************************************)
(* The life of a moving request and of the estimates movers send for it:   *)
(* opening a request, targeting movers, estimating, rejecting, confirming, *)
(* paying the deposit, a mover's account that is deleted, and the two      *)
(* scheduled jobs that take a confirmation back (expireDeposits) or close  *)
(* the request (expireRequests).                                           *)
(*                                                                         *)
(* A database transaction is one action when its first statement is a      *)
(* conditional update (the row lock and the re-evaluated WHERE make the    *)
(* check and the write one step) or when it runs Serializable.  A check    *)
(* that the service makes before the transaction is a step of its own: the *)
(* call that passed it waits in `call` until its transaction runs, and     *)
(* anything may happen in between.  expireRequests reads and then writes   *)
(* in a Read Committed transaction, so it takes two steps as well.         *)
(***************************************************************************)
EXTENDS Integers, FiniteSets

CONSTANTS
  Requests,      \* identities of quotation requests, used or not yet used
  Movers,        \* mover accounts
  Customers,     \* customer accounts
  Owner,         \* the customer each request identity belongs to
  Calls,         \* HTTP calls the server can have under way at once
  GeneralLimit,  \* 5 in the code: estimates from movers that were not targeted
  TargetLimit,   \* 3 in the code: movers the customer may target
  MaxCards,      \* bound of the model: events of one type counted per estimate
  Legacy,        \* pairs <<r, m>> confirmed before deposits existed
  NoMover, NoRequest

ASSUME ConstantsOK ==
  /\ IsFiniteSet(Requests) /\ IsFiniteSet(Movers)
  /\ Owner \in [Requests -> Customers]
  /\ GeneralLimit \in Nat \ {0} /\ TargetLimit \in Nat
  /\ MaxCards \in Nat /\ MaxCards >= 2
  /\ NoMover \notin Movers /\ NoRequest \notin Requests
  /\ Legacy \subseteq Requests \X Movers
  /\ \A p, q \in Legacy : p[1] = q[1] => p = q

VARIABLES
  requestStatus,   \* quotation_request.quotation_status, "NONE": no row
  targeted,        \* the movers in targeted_request
  estimateStatus,  \* estimate.estimate_status by (request, mover), the unique key
  deposit,         \* "NONE": deposit_amount NULL, "DUE": unpaid, "PAID"
  late,            \* movers whose 48 hours for the deposit have passed
  day,             \* where today is relative to the moving date
  confirmedCount,  \* mover_profile.confirmed_count
  rooms,           \* movers with a chat_room for the request's estimate
  cards,           \* notification events recorded, by estimate and type
  call,            \* what each call under way has already checked
  job,             \* the expireRequests transaction that is open, if any
  left,            \* movers whose account is deleted
  erased           \* history: the deposit of an estimate deleted with its mover

vars == <<requestStatus, targeted, estimateStatus, deposit, late, day,
          confirmedCount, rooms, cards, call, job, left, erased>>

RequestStatuses  == {"NONE", "PENDING", "ASSIGNED", "COMPLETED", "EXPIRED"}
EstimateStatuses == {"NONE", "PENDING", "REJECTED", "CONFIRMED", "COMPLETED"}
CardTypes == {"NEW_REQUEST", "NEW_ESTIMATE", "ESTIMATE_REJECTED",
              "ESTIMATE_CONFIRMED", "DEPOSIT_PAID", "DEPOSIT_EXPIRED"}

Idle == [op |-> "IDLE"]
CallStates ==
  {Idle} \cup [op : {"CREATE"}, customer : Customers]
         \cup [op : {"SAVE"}, request : Requests, mover : Movers, isTargeted : BOOLEAN]
         \cup [op : {"REJECT"}, request : Requests, mover : Movers]

NoJob == [request |-> NoRequest, found |-> NoMover]

TypeOK ==
  /\ requestStatus \in [Requests -> RequestStatuses]
  /\ targeted \in [Requests -> SUBSET Movers]
  /\ estimateStatus \in [Requests -> [Movers -> EstimateStatuses]]
  /\ deposit \in [Requests -> [Movers -> {"NONE", "DUE", "PAID"}]]
  /\ late \in [Requests -> SUBSET Movers]
  /\ day \in [Requests -> {"BEFORE", "MOVING_DAY", "AFTER"}]
  /\ confirmedCount \in [Movers -> Int]
  /\ rooms \in [Requests -> SUBSET Movers]
  /\ cards \in [Requests -> [Movers -> [CardTypes -> Nat]]]
  /\ call \in [Calls -> CallStates]
  /\ job \in [request : Requests \cup {NoRequest}, found : Movers \cup {NoMover}]
  /\ left \subseteq Movers
  /\ erased \in [Requests -> [Movers -> {"NONE", "DUE", "PAID"}]]

IsLegacy(r) == \E m \in Movers : <<r, m>> \in Legacy

Init ==
  /\ requestStatus = [r \in Requests |-> IF IsLegacy(r) THEN "ASSIGNED" ELSE "NONE"]
  /\ targeted = [r \in Requests |-> {}]
  /\ estimateStatus = [r \in Requests |-> [m \in Movers |->
                         IF <<r, m>> \in Legacy THEN "CONFIRMED" ELSE "NONE"]]
  /\ deposit = [r \in Requests |-> [m \in Movers |-> "NONE"]]
  /\ late = [r \in Requests |-> {}]
  /\ day = [r \in Requests |-> "BEFORE"]
  /\ confirmedCount = [m \in Movers |-> Cardinality({r \in Requests : <<r, m>> \in Legacy})]
  /\ rooms = [r \in Requests |-> {m \in Movers : <<r, m>> \in Legacy}]
  /\ cards = [r \in Requests |-> [m \in Movers |-> [t \in CardTypes |-> 0]]]
  /\ call = [k \in Calls |-> Idle]
  /\ job = NoJob
  /\ left = {}
  /\ erased = [r \in Requests |-> [m \in Movers |-> "NONE"]]

-----------------------------------------------------------------------------
(* Conditions the handlers share.                                          *)

Active(s) == s \in {"PENDING", "ASSIGNED"}

\* A mutant: paid deposits count as due.
DepositDueIgnoringPaid(r, m) == estimateStatus[r][m] = "CONFIRMED" /\ deposit[r][m] # "NONE"

\* depositDueWhere: confirmed, deposit set and not paid.
DepositDue(r, m) == estimateStatus[r][m] = "CONFIRMED" /\ deposit[r][m] = "DUE"

\* A mutant: the deadline is not capped by the moving date.
OverdueAfter48HoursOnly(r, m) == m \in late[r]

\* depositDueAt = min(confirmation + 48 hours, 00:00 of the moving date) has passed.
Overdue(r, m) == m \in late[r] \/ day[r] # "BEFORE"

General(r) == {m \in Movers \ targeted[r] : estimateStatus[r][m] # "NONE"}

\* A mutant: one estimate too many.
GeneralLimitOffByOne(r) == Cardinality(General(r)) > GeneralLimit

GeneralLimitReached(r) == Cardinality(General(r)) >= GeneralLimit

TargetLimitReached(r) == Cardinality(targeted[r]) >= TargetLimit

\* A confirmation that expireRequests takes for a move that was carried out.
Settled(r, m) == estimateStatus[r][m] = "CONFIRMED" /\ deposit[r][m] \in {"NONE", "PAID"}

Capped(n) == IF n > MaxCards THEN MaxCards ELSE n

Noted(r, m, type) == [cards EXCEPT ![r][m][type] = Capped(@ + 1)]

\* A mutant: the call stays half filled in.
HalfFinished(k) == [call EXCEPT ![k] = [@ EXCEPT !.op = "IDLE"]]

Finished(k) == [call EXCEPT ![k] = Idle]

-----------------------------------------------------------------------------
(* Opening a request: findActiveByUserId, then the insert.                 *)

CreateCheck(k, c) ==
  /\ call[k] = Idle
  /\ \A r \in Requests : Owner[r] = c => ~Active(requestStatus[r])
  /\ call' = [call EXCEPT ![k] = [op |-> "CREATE", customer |-> c]]
  /\ UNCHANGED <<requestStatus, targeted, estimateStatus, deposit, late, day,
                 confirmedCount, rooms, cards, job, left, erased>>

Create(k, r) ==
  /\ call[k].op = "CREATE"
  /\ call[k].customer = Owner[r]
  /\ requestStatus[r] = "NONE"
  /\ requestStatus' = [requestStatus EXCEPT ![r] = "PENDING"]
  /\ call' = Finished(k)
  /\ UNCHANGED <<targeted, estimateStatus, deposit, late, day,
                 confirmedCount, rooms, cards, job, left, erased>>

\* No mover is needed any more once one is confirmed.
MayTarget(r) == requestStatus[r] = "PENDING"

\* The transaction checks again what the service checked, so one step is enough.
\* Only the mover is not looked up again: it may have left in between.
CreateTargetedRequest(r, m) ==
  /\ MayTarget(r)
  /\ ~TargetLimitReached(r)
  /\ m \notin targeted[r]
  /\ targeted' = [targeted EXCEPT ![r] = @ \cup {m}]
  /\ cards' = Noted(r, m, "NEW_REQUEST")
  /\ UNCHANGED <<requestStatus, estimateStatus, deposit, late, day,
                 confirmedCount, rooms, call, job, left, erased>>

-----------------------------------------------------------------------------
(* A mover answers: an estimate with a price, or a rejection.              *)

\* The account was found active before these checks: its mover may have left.
SaveCheck(k, r, m) ==
  /\ call[k] = Idle
  /\ requestStatus[r] = "PENDING"
  /\ call' = [call EXCEPT ![k] = [op |-> "SAVE", request |-> r, mover |-> m,
                                  isTargeted |-> m \in targeted[r]]]
  /\ UNCHANGED <<requestStatus, targeted, estimateStatus, deposit, late, day,
                 confirmedCount, rooms, cards, job, left, erased>>

\* The limit counts only when the mover was not targeted at the time of the
\* check; the unique key (request, mover) turns a second estimate away.
SaveAllowed(c) ==
  /\ c.isTargeted \/ ~GeneralLimitReached(c.request)
  /\ estimateStatus[c.request][c.mover] = "NONE"

Save(k) ==
  LET c == call[k] IN
  /\ c.op = "SAVE"
  /\ SaveAllowed(c)
  /\ estimateStatus' = [estimateStatus EXCEPT ![c.request][c.mover] = "PENDING"]
  /\ cards' = Noted(c.request, c.mover, "NEW_ESTIMATE")
  /\ call' = Finished(k)
  /\ UNCHANGED <<requestStatus, targeted, deposit, late, day, confirmedCount, rooms, job,
                 left, erased>>

\* ESTIMATE_LIMIT_EXCEEDED or ALREADY_ESTIMATED.
SaveRefused(k) ==
  /\ call[k].op = "SAVE"
  /\ ~SaveAllowed(call[k])
  /\ call' = Finished(k)
  /\ UNCHANGED <<requestStatus, targeted, estimateStatus, deposit, late, day,
                 confirmedCount, rooms, cards, job, left, erased>>

MayReject(r, m) == requestStatus[r] = "PENDING" /\ m \in targeted[r]

RejectCheck(k, r, m) ==
  /\ call[k] = Idle
  /\ MayReject(r, m)
  /\ call' = [call EXCEPT ![k] = [op |-> "REJECT", request |-> r, mover |-> m]]
  /\ UNCHANGED <<requestStatus, targeted, estimateStatus, deposit, late, day,
                 confirmedCount, rooms, cards, job, left, erased>>

\* The upsert has no condition on the status it replaces, and it leaves the
\* deposit columns as they are.  Only the first rejection is announced.
RejectNewsAlways(c) == Noted(c.request, c.mover, "ESTIMATE_REJECTED")  \* a mutant

RejectNews(c) ==
  IF estimateStatus[c.request][c.mover] = "REJECTED" THEN cards
  ELSE Noted(c.request, c.mover, "ESTIMATE_REJECTED")

Reject(k) ==
  LET c == call[k] IN
  /\ c.op = "REJECT"
  /\ estimateStatus' = [estimateStatus EXCEPT ![c.request][c.mover] = "REJECTED"]
  /\ cards' = RejectNews(c)
  /\ call' = Finished(k)
  /\ UNCHANGED <<requestStatus, targeted, deposit, late, day, confirmedCount, rooms, job,
                 left, erased>>

-----------------------------------------------------------------------------
(* The customer confirms an estimate and pays its deposit.                 *)

\* A mutant: the request's row is updated without its condition.
ConfirmFindsEstimate(r, m) == estimateStatus[r][m] = "PENDING"

\* Both conditional updates of the transaction have to find their row.
ConfirmFindsBothRows(r, m) == estimateStatus[r][m] = "PENDING" /\ requestStatus[r] = "PENDING"

\* A cancelled confirmation may be renewed, any number of times and also after
\* the moving date.  Without the mover's profile the transaction fails.
Confirm(r, m) ==
  /\ ConfirmFindsBothRows(r, m)
  /\ m \notin left
  /\ estimateStatus' = [estimateStatus EXCEPT ![r][m] = "CONFIRMED"]
  /\ requestStatus' = [requestStatus EXCEPT ![r] = "ASSIGNED"]
  /\ deposit' = [deposit EXCEPT ![r][m] = "DUE"]
  /\ late' = [late EXCEPT ![r] = @ \ {m}]
  /\ confirmedCount' = [confirmedCount EXCEPT ![m] = @ + 1]
  /\ rooms' = [rooms EXCEPT ![r] = @ \cup {m}]
  /\ cards' = Noted(r, m, "ESTIMATE_CONFIRMED")
  /\ UNCHANGED <<targeted, day, call, job, left, erased>>

PayDeposit(r, m) ==
  /\ DepositDue(r, m)
  /\ ~Overdue(r, m)
  /\ deposit' = [deposit EXCEPT ![r][m] = "PAID"]
  /\ cards' = Noted(r, m, "DEPOSIT_PAID")
  /\ UNCHANGED <<requestStatus, targeted, estimateStatus, late, day,
                 confirmedCount, rooms, call, job, left, erased>>

-----------------------------------------------------------------------------
(* The scheduled jobs.                                                     *)

\* A mutant: any confirmation whose deadline has passed is cancelled.
ExpireDepositsAnyOverdue(r, m) ==
  estimateStatus[r][m] = "CONFIRMED" /\ deposit[r][m] # "NONE" /\ Overdue(r, m)

\* The hourly job: one transaction per overdue estimate.  The list it read is
\* only a hint, the conditional update repeats the whole condition.
ExpireDepositsTarget(r, m) == DepositDue(r, m) /\ Overdue(r, m)

TakenBackNever(m) == confirmedCount  \* a mutant

TakenBack(m) == [confirmedCount EXCEPT ![m] = @ - 1]

ExpireDeposits(r, m) ==
  /\ ExpireDepositsTarget(r, m)
  /\ estimateStatus' = [estimateStatus EXCEPT ![r][m] = "PENDING"]
  /\ deposit' = [deposit EXCEPT ![r][m] = "NONE"]
  /\ late' = [late EXCEPT ![r] = @ \ {m}]
  /\ requestStatus' = [requestStatus EXCEPT ![r] = IF @ = "ASSIGNED" THEN "PENDING" ELSE @]
  /\ confirmedCount' = TakenBack(m)
  /\ cards' = Noted(r, m, "DEPOSIT_EXPIRED")
  /\ UNCHANGED <<targeted, day, rooms, call, job, left, erased>>

\* The midnight job opens a transaction for a request whose moving date has
\* passed and reads whether a settled confirmation exists ...
ExpireRequestsRead(r) ==
  /\ job = NoJob
  /\ day[r] = "AFTER"
  /\ Active(requestStatus[r])
  /\ \E f \in Movers \cup {NoMover} :
       /\ IF f = NoMover THEN \A m \in Movers : ~Settled(r, m) ELSE Settled(r, f)
       /\ job' = [request |-> r, found |-> f]
  /\ UNCHANGED <<requestStatus, targeted, estimateStatus, deposit, late, day,
                 confirmedCount, rooms, cards, call, left, erased>>

\* A mutant: the conditional update also takes a request assigned meanwhile.
ExpireRequestsClosingAssigned(status, found) ==
  IF ~Active(status) THEN status ELSE IF found = NoMover THEN "EXPIRED" ELSE "COMPLETED"

\* ... and then writes, whatever was committed in between.  The request is
\* closed only from the states the conditional update names, else it is skipped.
ExpireRequestsClosing(status, found) ==
  IF found = NoMover
  THEN IF status = "PENDING" THEN "EXPIRED" ELSE status
  ELSE IF Active(status) THEN "COMPLETED" ELSE status

ExpireRequestsWrite(r) ==
  LET f == job.found IN
  /\ job.request = r
  /\ requestStatus' = [requestStatus EXCEPT ![r] = ExpireRequestsClosing(@, f)]
  /\ estimateStatus' =
       IF f \in Movers /\ Active(requestStatus[r]) /\ estimateStatus[r][f] = "CONFIRMED"
       THEN [estimateStatus EXCEPT ![r][f] = "COMPLETED"]
       ELSE estimateStatus
  /\ job' = NoJob
  /\ UNCHANGED <<targeted, deposit, late, day, confirmedCount, rooms, cards, call, left, erased>>

-----------------------------------------------------------------------------
(* A mover deletes the account, in one Serializable transaction that gives *)
(* up while the mover has a confirmed move.  A completed one is kept; the  *)
(* account may go when its balance is paid, which is not told apart here.  *)
(* Calls of the mover that are under way go on: the user's row stays.      *)

MayLeave(m) == \A r \in Requests : estimateStatus[r][m] # "CONFIRMED"

Erasable(r, m) == estimateStatus[r][m] \in {"PENDING", "REJECTED"}

DeleteMoverAccount(m) ==
  /\ m \notin left
  /\ MayLeave(m)
  /\ left' = left \cup {m}
  /\ estimateStatus' = [r \in Requests |->
       [estimateStatus[r] EXCEPT ![m] = IF Erasable(r, m) THEN "NONE" ELSE @]]
  /\ deposit' = [r \in Requests |->
       [deposit[r] EXCEPT ![m] = IF Erasable(r, m) THEN "NONE" ELSE @]]
  /\ erased' = [r \in Requests |->
       [erased[r] EXCEPT ![m] = IF Erasable(r, m) THEN deposit[r][m] ELSE @]]
  /\ late' = [r \in Requests |-> IF Erasable(r, m) THEN late[r] \ {m} ELSE late[r]]
  /\ targeted' = [r \in Requests |-> targeted[r] \ {m}]
  /\ rooms' = [r \in Requests |-> rooms[r] \ {m}]
  /\ cards' = [r \in Requests |-> [cards[r] EXCEPT ![m] = [t \in CardTypes |-> 0]]]
  /\ UNCHANGED <<requestStatus, day, confirmedCount, call, job>>

-----------------------------------------------------------------------------
(* Time, and a server that may stop.                                       *)

MovingDayArrives(r) ==
  /\ day[r] = "BEFORE" /\ Active(requestStatus[r])
  /\ day' = [day EXCEPT ![r] = "MOVING_DAY"]
  /\ UNCHANGED <<requestStatus, targeted, estimateStatus, deposit, late,
                 confirmedCount, rooms, cards, call, job, left, erased>>

MovingDayPasses(r) ==
  /\ day[r] = "MOVING_DAY" /\ Active(requestStatus[r])
  /\ day' = [day EXCEPT ![r] = "AFTER"]
  /\ UNCHANGED <<requestStatus, targeted, estimateStatus, deposit, late,
                 confirmedCount, rooms, cards, call, job, left, erased>>

DepositHoursPass(r, m) ==
  /\ DepositDue(r, m)
  /\ late' = [late EXCEPT ![r] = @ \cup {m}]
  /\ UNCHANGED <<requestStatus, targeted, estimateStatus, deposit, day,
                 confirmedCount, rooms, cards, call, job, left, erased>>

\* A call ends without a commit: its client gave up, its transaction failed.
CallFails(k) ==
  /\ call[k] # Idle
  /\ call' = Finished(k)
  /\ UNCHANGED <<requestStatus, targeted, estimateStatus, deposit, late, day,
                 confirmedCount, rooms, cards, job, left, erased>>

\* The process stops and starts again: calls and open transactions are gone.
Restart ==
  /\ call' = [k \in Calls |-> Idle]
  /\ job' = NoJob
  /\ UNCHANGED <<requestStatus, targeted, estimateStatus, deposit, late, day,
                 confirmedCount, rooms, cards, left, erased>>

Next ==
  \/ \E k \in Calls, c \in Customers : CreateCheck(k, c)
  \/ \E k \in Calls, r \in Requests : Create(k, r)
  \/ \E r \in Requests, m \in Movers : CreateTargetedRequest(r, m)
  \/ \E k \in Calls, r \in Requests, m \in Movers : SaveCheck(k, r, m)
  \/ \E k \in Calls : Save(k)
  \/ \E k \in Calls : SaveRefused(k)
  \/ \E k \in Calls, r \in Requests, m \in Movers : RejectCheck(k, r, m)
  \/ \E k \in Calls : Reject(k)
  \/ \E r \in Requests, m \in Movers : Confirm(r, m)
  \/ \E r \in Requests, m \in Movers : PayDeposit(r, m)
  \/ \E r \in Requests, m \in Movers : ExpireDeposits(r, m)
  \/ \E r \in Requests : ExpireRequestsRead(r)
  \/ \E r \in Requests : ExpireRequestsWrite(r)
  \/ \E m \in Movers : DeleteMoverAccount(m)
  \/ \E r \in Requests : MovingDayArrives(r)
  \/ \E r \in Requests : MovingDayPasses(r)
  \/ \E r \in Requests, m \in Movers : DepositHoursPass(r, m)
  \/ \E k \in Calls : CallFails(k)
  \/ Restart

Spec == Init /\ [][Next]_vars

-----------------------------------------------------------------------------
(* Safety.                                                                 *)

\* m has been given the move of request r and the assignment was never taken
\* back.  The deposit columns keep the trace when a late rejection replaced the
\* confirmation, and `erased` keeps it when that mover then left.
Holds(r, m) ==
  \/ estimateStatus[r][m] \in {"CONFIRMED", "COMPLETED"}
  \/ deposit[r][m] # "NONE"
  \/ erased[r][m] # "NONE"

PaidOnce(r, m) == "PAID" \in {deposit[r][m], erased[r][m]}

\* A late rejection replaced a confirmation: the deposit is set, the estimate
\* is REJECTED, or was when it was deleted.
Overwritten(r) ==
  \E m \in Movers : \/ estimateStatus[r][m] = "REJECTED" /\ deposit[r][m] # "NONE"
                    \/ erased[r][m] # "NONE"

\* No request is ever given to two movers, however confirmations, rejections,
\* deposit payments and the two jobs interleave (confirm's two conditional
\* updates against expireDeposits and expireRequests).
AtMostOneHolder ==
  \A r \in Requests : \A m, n \in Movers : Holds(r, m) /\ Holds(r, n) => m = n

\* The request's status and its estimates tell the same story although they are
\* different rows: it is ASSIGNED or COMPLETED exactly when a mover holds it.
StatusMatchesHolder ==
  \A r \in Requests :
    requestStatus[r] \in {"ASSIGNED", "COMPLETED"} <=> \E m \in Movers : Holds(r, m)

\* Once a deposit was announced as paid no job takes it or the assignment back
\* or lets the request expire: expireDeposits and expireRequests only touch
\* unpaid ones.
PaidMoveIsKept ==
  \A r \in Requests, m \in Movers :
    /\ cards[r][m]["DEPOSIT_PAID"] > 0 => deposit[r][m] = "PAID"
    /\ PaidOnce(r, m) => requestStatus[r] \in {"ASSIGNED", "COMPLETED"}

\* README: at most 5 general and 3 targeted estimates per request, also when
\* movers send, leave and are targeted at the same time (save counts under
\* Serializable but decides "targeted" before the transaction).  A mover who has
\* left is not counted: its account's deletion takes the target away, and a save
\* that was let through as targeted then commits beside the five.
EstimateLimits ==
  \A r \in Requests :
    /\ Cardinality(General(r) \ left) <= GeneralLimit
    /\ Cardinality(targeted[r]) <= TargetLimit
    /\ Cardinality({m \in Movers \ left : estimateStatus[r][m] # "NONE"})
         <= GeneralLimit + TargetLimit

\* mover_profile.confirmed_count, kept by +1 in confirm and -1 in expireDeposits,
\* is the number of moves the mover holds.
ConfirmedCountIsExact ==
  \A m \in Movers \ left :
    confirmedCount[m] = Cardinality({r \in Requests : Holds(r, m)})

\* The notification rows tell what happened: every confirmation announced to
\* the two parties is still in force or was followed by its DEPOSIT_EXPIRED, a
\* rejection and a paid deposit are announced exactly once.  (A mover who has
\* left has no notifications, and its estimates have none.)
CardsTellHistory ==
  \A r \in Requests, m \in Movers \ left : LET card == cards[r][m] IN
    /\ card["NEW_REQUEST"] = IF m \in targeted[r] THEN 1 ELSE 0
    /\ card["NEW_ESTIMATE"] <= IF estimateStatus[r][m] = "NONE" THEN 0 ELSE 1
    /\ card["ESTIMATE_REJECTED"] = IF estimateStatus[r][m] = "REJECTED" THEN 1 ELSE 0
    /\ card["ESTIMATE_CONFIRMED"] =
         Capped(card["DEPOSIT_EXPIRED"] + IF deposit[r][m] # "NONE" THEN 1 ELSE 0)
    /\ card["DEPOSIT_PAID"] = IF deposit[r][m] = "PAID" THEN 1 ELSE 0

-----------------------------------------------------------------------------
(* The inductive invariant behind these properties: what has to hold of    *)
(* the deposit columns, of the remembered checks and of the open job.      *)

\* An estimate that was never confirmed, or whose confirmation was cancelled,
\* has no deposit; a confirmation without one is older than deposits.
DepositMatchesStatus ==
  \A r \in Requests, m \in Movers :
    /\ estimateStatus[r][m] \in {"NONE", "PENDING"} => deposit[r][m] = "NONE"
    /\ estimateStatus[r][m] \in {"CONFIRMED", "COMPLETED"} /\ deposit[r][m] = "NONE"
         => <<r, m>> \in Legacy
    /\ deposit[r][m] = "DUE" => requestStatus[r] = "ASSIGNED"

\* A confirmation from before deposits stays, for no job cancels it and no call
\* about its request can have seen it PENDING.
LegacyIsKept ==
  /\ \A r \in Requests, m \in Movers : <<r, m>> \in Legacy =>
       estimateStatus[r][m] \in {"CONFIRMED", "COMPLETED"} /\ deposit[r][m] = "NONE"
  /\ \A k \in Calls : call[k].op = "REJECT" => ~IsLegacy(call[k].request)

\* Only the deletion of the mover's account takes a target back; what a call saw
\* of the other ones is still true.
CallsRememberTargets ==
  \A k \in Calls :
    call[k].op = "REJECT" \/ (call[k].op = "SAVE" /\ call[k].isTargeted)
      => call[k].mover \in targeted[call[k].request] \cup left

\* The estimate the open job found is settled for good: a paid deposit stays.
JobFoundSettled ==
  job.request \in Requests /\ job.found \in Movers =>
    PaidOnce(job.request, job.found) \/ <<job.request, job.found>> \in Legacy

\* A deposit is erased only with its mover's account, and the estimate that a
\* last call of this mover may bring back is never confirmed again.
ErasedForGood ==
  \A r \in Requests, m \in Movers :
    erased[r][m] # "NONE" => m \in left /\ deposit[r][m] = "NONE"

AssignmentInv ==
  /\ DepositMatchesStatus /\ ErasedForGood /\ LegacyIsKept /\ JobFoundSettled
  /\ AtMostOneHolder /\ StatusMatchesHolder /\ PaidMoveIsKept

-----------------------------------------------------------------------------
(* The abstract specification.                                             *)

PhaseOf(status) ==
  CASE status = "NONE" -> "NONE"
    [] status = "PENDING" -> "OPEN"
    [] status = "ASSIGNED" -> "HELD"
    [] status = "COMPLETED" -> "DONE"
    [] status = "EXPIRED" -> "LAPSED"

HolderOf(r) ==
  IF \E m \in Movers : Holds(r, m) THEN CHOOSE m \in Movers : Holds(r, m) ELSE NoMover

Assignment == INSTANCE MoveAssignment WITH
  Exempt <- {r \in Requests : IsLegacy(r)},
  phase  <- [r \in Requests |-> PhaseOf(requestStatus[r])],
  holder <- [r \in Requests |-> HolderOf(r)],
  paid   <- {r \in Requests : \E m \in Movers : PaidOnce(r, m)}

\* One estimate's row, seen on its own.
Life(r, m) == INSTANCE EstimateLife WITH
  status <- estimateStatus[r][m], deposit <- deposit[r][m]

\* Whichever call or job writes it, each estimate's row goes through its status
\* and its deposit as EstimateLife says.
ImplementsLives ==
  /\ \A r \in Requests, m \in Movers : Life(r, m)!Init
  /\ [][\A r \in Requests, m \in Movers :
         Life(r, m)!Next \/ UNCHANGED <<estimateStatus[r][m], deposit[r][m]>>]_vars

\* Through all interleavings of calls, jobs and restarts the handlers implement
\* MoveAssignment: one holder at a time, released only while unpaid, finished
\* only when settled.
ImplementsAssignment == Assignment!Spec

-----------------------------------------------------------------------------
(* What the documents say and the code does not keep.                      *)

\* README ("one active request per user") and schema.prisma: a customer never
\* has two requests in PENDING or ASSIGNED.
OneActiveRequest ==
  \A r, q \in Requests :
    Active(requestStatus[r]) /\ Active(requestStatus[q]) /\ Owner[r] = Owner[q] => r = q

-----------------------------------------------------------------------------
(* Liveness.                                                               *)

\* The jobs run on schedule, and every run takes each of its targets in turn.
\* A run may be cut short by a restart and may find a request in a state it has
\* to skip, so nothing is said of the states it meets; only that not every
\* transaction is cut short: strong fairness for expireRequests, whose two steps
\* also wait for those of the other requests.  Days go by.  Customers and movers
\* owe nothing.
Fairness ==
  \A r \in Requests :
    /\ WF_vars(MovingDayArrives(r)) /\ WF_vars(MovingDayPasses(r))
    /\ SF_vars(ExpireRequestsRead(r)) /\ SF_vars(ExpireRequestsWrite(r))
    /\ \A m \in Movers : WF_vars(ExpireDeposits(r, m))

FairSpec == Spec /\ Fairness

\* A customer who confirms again whenever expireDeposits has cancelled can keep a
\* request ASSIGNED at every midnight run, also after its moving date.
ConfirmedForEver(r) == []<><<\E m \in Movers : Confirm(r, m)>>_vars

\* expireRequests.job.ts: the job is what releases an active request; without
\* it the customer could never open a second one.  Every active request ends
\* that is not confirmed again and again.
ActiveIsReleased ==
  \A r \in Requests :
    ConfirmedForEver(r) \/ (Active(requestStatus[r]) ~> ~Active(requestStatus[r]))

\* What the code guarantees: an active request that is not confirmed again and
\* again ends, or a late rejection has replaced its confirmation.
ActiveIsReleasedOrOverwritten ==
  \A r \in Requests :
    \/ ConfirmedForEver(r)
    \/ Active(requestStatus[r]) ~> (~Active(requestStatus[r]) \/ Overwritten(r))

=============================================================================
