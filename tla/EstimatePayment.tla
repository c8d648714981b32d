--------------------------- MODULE EstimatePayment ---------------------------
(***************************************************************************)
(* The money of one estimate: the deposit after the confirmation, extra    *)
(* charges the mover proposes after the move, the balance, the mover's     *)
(* payment requests, and the approval by Toss Payments in between.         *)
(*                                                                         *)
(* A payment is three steps of a call: the service's check, the approval   *)
(* by Toss (the network may lose the answer) and the conditional update    *)
(* that records it.  proposeExtraCharge and updateExtraCharge update the   *)
(* estimate first, so that its row is locked, then read the sum, then      *)
(* write: the lock and the sum are one step, the write and the commit      *)
(* another.  respondExtraCharges updates charge rows under a condition on  *)
(* the estimate, whose row it does not lock: the update is one step, the   *)
(* commit that makes it visible another.  Every other transaction starts   *)
(* with a conditional update of the estimate, waits for its row and is one *)
(* step.                                                                   *)
(***************************************************************************)
EXTENDS Integers, FiniteSets, Functions

CONSTANTS
  Calls,     \* HTTP calls under way at once
  Charges,   \* identities of extra charges: a bound of the model
  Amounts,   \* amounts a mover asks for
  Price      \* of the estimate

ASSUME PaymentConstantsOK ==
  /\ IsFiniteSet(Calls) /\ IsFiniteSet(Charges)
  /\ Price \in Nat /\ Price >= 10000
  /\ Amounts \subseteq {n \in Nat : n >= 1000}

VARIABLES
  status,     \* estimate.estimate_status
  deposit,    \* "NONE": deposit_amount NULL, "DUE": unpaid, "PAID"
  overdue,    \* deposit_due_at has passed
  payment,    \* estimate.payment_status
  requested,  \* payment_requested_at is set
  asked,      \* PAYMENT_REQUEST notifications sent in the stage that runs or ran last
  charge,     \* the rows of estimate_extra_charge
  charged,    \* what Toss took from the customer under each order number
  review,     \* the customer's review row exists (and can be written)
  call        \* each call under way, with what it has read

vars == <<status, deposit, overdue, payment, requested, asked, charge, charged, review, call>>

Types    == {"DEPOSIT", "BALANCE"}
Stages   == {"DEPOSIT_DUE", "BALANCE_DUE"}
Statuses == {"PENDING", "REJECTED", "CONFIRMED", "COMPLETED"}

NoCharge == [status |-> "NONE", amount |-> 0]
Idle == [op |-> "IDLE"]

CallStates ==
  {Idle}
  \cup [op : {"PAY"}, type : Types, amount : Int, approved : BOOLEAN]
  \cup [op : {"ANSWERED"}, type : Types, answer : {"PAID", "ALREADY_PAID", "PAYMENT_FAILED"}]
  \cup [op : {"PROPOSE"}, amount : Amounts, total : Int]
  \cup [op : {"UPDATE"}, charge : Charges, amount : Amounts, total : Int]
  \cup [op : {"RESPOND"}, charges : SUBSET Charges, decision : {"APPROVED", "REJECTED"}]

TypeOK ==
  /\ status \in Statuses
  /\ deposit \in {"NONE", "DUE", "PAID"}
  /\ overdue \in BOOLEAN
  /\ payment \in {"UNPAID", "PAID"}
  /\ requested \in BOOLEAN
  /\ asked \in [Stages -> Nat]
  /\ charge \in [Charges -> [status : {"NONE", "PROPOSED", "APPROVED", "REJECTED"},
                             amount : Amounts \cup {0}]]
  /\ charged \in [Types -> Int]
  /\ review \in BOOLEAN
  /\ call \in [Calls -> CallStates]

\* An estimate just sent, or one confirmed before deposits existed.
Init ==
  /\ status \in {"PENDING", "CONFIRMED"}
  /\ deposit = "NONE" /\ overdue = FALSE
  /\ payment = "UNPAID" /\ requested = FALSE
  /\ asked = [s \in Stages |-> 0]
  /\ charge = [c \in Charges |-> NoCharge]
  /\ charged = [t \in Types |-> 0]
  /\ review = FALSE
  /\ call = [k \in Calls |-> Idle]

-----------------------------------------------------------------------------
(* Amounts and stages (estimate.payment.ts).                               *)

\* floor(price * 0.1 / 10) * 10 and floor(price * 0.2 / 10) * 10.
DepositAmount  == (Price \div 100) * 10
ExtraChargeMax == (Price \div 50) * 10

AmountOf == [c \in Charges |-> charge[c].amount]
SumOf(cs) == SumFunctionOnSet(AmountOf, cs)
WithStatus(ss) == {c \in Charges : charge[c].status \in ss}

BalanceAmount ==
  Price - (IF deposit = "NONE" THEN 0 ELSE DepositAmount) + SumOf(WithStatus({"APPROVED"}))

DepositDue == status = "CONFIRMED" /\ deposit = "DUE"

BalanceDue == status = "COMPLETED" /\ payment = "UNPAID" /\ deposit \in {"NONE", "PAID"}

\* toPaymentStage, what the service asks; the two conditions above are what the
\* updates and the lists ask.
PaymentStage ==
  IF payment = "PAID" THEN "PAID"
  ELSE IF status = "CONFIRMED" /\ deposit = "DUE" THEN "DEPOSIT_DUE"
  ELSE IF status = "COMPLETED" /\ deposit # "DUE" THEN "BALANCE_DUE"
  ELSE "NONE"

-----------------------------------------------------------------------------
(* Rows and calls.                                                         *)

\* A mutant: the update that locks the estimate is missing.
EstimateRowAlwaysFree(k) == TRUE

\* No other transaction has updated the estimate and not yet committed.
EstimateRowFree(k) == \A j \in Calls \ {k} : call[j].op \notin {"PROPOSE", "UPDATE"}

ChargeRowFree(c) == \A j \in Calls : call[j].op = "RESPOND" => c \notin call[j].charges

Ready(k) == call[k].op \in {"IDLE", "ANSWERED"}

Become(k, state) == [call EXCEPT ![k] = state]

Answer(k, a) == Become(k, [op |-> "ANSWERED", type |-> call[k].type, answer |-> a])

-----------------------------------------------------------------------------
(* Payment: estimate.service pay.                                          *)

Payable(type) ==
  IF type = "DEPOSIT" THEN DepositDue /\ ~overdue
                      ELSE PaymentStage = "BALANCE_DUE" /\ WithStatus({"PROPOSED"}) = {}

ExpectedAmount(type) == IF type = "DEPOSIT" THEN DepositAmount ELSE BalanceAmount

\* Only a client whose amount and order number are the expected ones gets through.
PayCheck(k, type) ==
  /\ Ready(k)
  /\ Payable(type)
  /\ call' = Become(k, [op |-> "PAY", type |-> type,
                        amount |-> ExpectedAmount(type), approved |-> FALSE])
  /\ UNCHANGED <<status, deposit, overdue, payment, requested, asked, charge, charged, review>>

\* A mutant: every approval is taken on top of the others.
TakenEveryTime(k) == [charged EXCEPT ![call[k].type] = @ + call[k].amount]

\* Toss takes the money of an order number once, for it is the idempotency key.
Taken(k) == [charged EXCEPT ![call[k].type] = IF @ = 0 THEN call[k].amount ELSE @]

PayApproved(k) ==
  /\ call[k].op = "PAY" /\ ~call[k].approved
  /\ charged' = Taken(k)
  /\ call' = Become(k, [call[k] EXCEPT !.approved = TRUE])
  /\ UNCHANGED <<status, deposit, overdue, payment, requested, asked, charge, review>>

\* Refused, or no answer within 10 seconds: then the money may be taken.
PayNotApproved(k) ==
  /\ call[k].op = "PAY" /\ ~call[k].approved
  /\ charged' \in {charged, Taken(k)}
  /\ call' = Answer(k, "PAYMENT_FAILED")
  /\ UNCHANGED <<status, deposit, overdue, payment, requested, asked, charge, review>>

\* A mutant: the payment is recorded although Toss has not approved it yet.
MayRecordUnapproved(k) == call[k].op = "PAY" /\ EstimateRowFree(k)

MayRecord(k) == call[k].op = "PAY" /\ call[k].approved /\ EstimateRowFree(k)

\* A mutant: the mover's request outlives the deposit it asked for.
RequestedAfterDepositKept == requested

RequestedAfterDeposit == FALSE

PayDeposit(k) ==
  /\ MayRecord(k) /\ call[k].type = "DEPOSIT"
  /\ DepositDue /\ ~overdue
  /\ deposit' = "PAID"
  /\ requested' = RequestedAfterDeposit
  /\ call' = Answer(k, "PAID")
  /\ UNCHANGED <<status, overdue, payment, asked, charge, charged, review>>

Pay(k) ==
  /\ MayRecord(k) /\ call[k].type = "BALANCE"
  /\ BalanceDue
  /\ payment' = "PAID"
  /\ review' = TRUE
  /\ call' = Answer(k, "PAID")
  /\ UNCHANGED <<status, deposit, overdue, requested, asked, charge, charged>>

\* The conditional update finds no row.
PayConflict(k) ==
  /\ MayRecord(k)
  /\ IF call[k].type = "DEPOSIT" THEN ~DepositDue \/ overdue ELSE ~BalanceDue
  /\ call' = Answer(k, "ALREADY_PAID")
  /\ UNCHANGED <<status, deposit, overdue, payment, requested, asked, charge, charged, review>>

-----------------------------------------------------------------------------
(* Extra charges.                                                          *)

\* The service's check, alike for a new charge and for one that is edited.
MayCharge(a) == PaymentStage = "BALANCE_DUE" /\ a <= ExtraChargeMax

ProposeExtraChargeLock(k, a) ==
  /\ Ready(k)
  /\ MayCharge(a)
  /\ EstimateRowFree(k)
  /\ BalanceDue
  /\ \E c \in Charges : charge[c] = NoCharge      \* bound of the model
  /\ call' = Become(k, [op |-> "PROPOSE", amount |-> a,
                        total |-> SumOf(WithStatus({"PROPOSED", "APPROVED"}))])
  /\ UNCHANGED <<status, deposit, overdue, payment, requested, asked, charge, charged, review>>

WithinLimit(k) == call[k].total + call[k].amount <= ExtraChargeMax

ProposeExtraCharge(k, c) ==
  /\ call[k].op = "PROPOSE"
  /\ WithinLimit(k)
  /\ charge[c] = NoCharge
  /\ charge' = [charge EXCEPT ![c] = [status |-> "PROPOSED", amount |-> call[k].amount]]
  /\ call' = Become(k, Idle)
  /\ UNCHANGED <<status, deposit, overdue, payment, requested, asked, charged, review>>

UpdateExtraChargeLock(k, c, a) ==
  /\ Ready(k)
  /\ MayCharge(a)
  /\ EstimateRowFree(k)
  /\ BalanceDue
  /\ charge[c] # NoCharge
  /\ call' = Become(k, [op |-> "UPDATE", charge |-> c, amount |-> a,
                        total |-> SumOf(WithStatus({"PROPOSED", "APPROVED"}) \ {c})])
  /\ UNCHANGED <<status, deposit, overdue, payment, requested, asked, charge, charged, review>>

\* A mutant: a charge the customer has answered can be changed.
MayUpdateAnswered(c) == ChargeRowFree(c)

MayUpdate(c) == ChargeRowFree(c) /\ charge[c].status = "PROPOSED"

UpdateExtraCharge(k) ==
  /\ call[k].op = "UPDATE"
  /\ WithinLimit(k)
  /\ MayUpdate(call[k].charge)
  /\ charge' = [charge EXCEPT ![call[k].charge].amount = call[k].amount]
  /\ call' = Become(k, Idle)
  /\ UNCHANGED <<status, deposit, overdue, payment, requested, asked, charged, review>>

\* A mutant: the rollback of a refused charge never comes.
RollbackForgotten(k) == call

Rollback(k) == Become(k, Idle)

\* EXTRA_CHARGE_TOO_LARGE or EXTRA_CHARGE_NOT_PENDING: nothing is written.
ExtraChargeRefused(k) ==
  /\ call[k].op \in {"PROPOSE", "UPDATE"}
  /\ \/ ~WithinLimit(k)
     \/ /\ call[k].op = "UPDATE"
        /\ ChargeRowFree(call[k].charge)
        /\ charge[call[k].charge].status # "PROPOSED"
  /\ call' = Rollback(k)
  /\ UNCHANGED <<status, deposit, overdue, payment, requested, asked, charge, charged, review>>

\* All the chosen charges wait for an answer, or none is changed.
MayRespond(cs) == cs # {} /\ cs \subseteq WithStatus({"PROPOSED"})

RespondExtraCharges(k, cs, decision) ==
  /\ Ready(k)
  /\ MayRespond(cs)
  /\ BalanceDue
  /\ \A c \in cs : ChargeRowFree(c)
  /\ call' = Become(k, [op |-> "RESPOND", charges |-> cs, decision |-> decision])
  /\ UNCHANGED <<status, deposit, overdue, payment, requested, asked, charge, charged, review>>

RespondCommit(k) ==
  /\ call[k].op = "RESPOND"
  /\ charge' = [c \in Charges |-> IF c \in call[k].charges
                                  THEN [charge[c] EXCEPT !.status = call[k].decision]
                                  ELSE charge[c]]
  /\ call' = Become(k, Idle)
  /\ UNCHANGED <<status, deposit, overdue, payment, requested, asked, charged, review>>

-----------------------------------------------------------------------------
(* Payment requests.                                                       *)

MayRequest == PaymentStage \in Stages /\ ~requested

RequestPayment(k) ==
  /\ Ready(k)
  /\ EstimateRowFree(k)
  /\ MayRequest
  /\ DepositDue \/ BalanceDue
  /\ requested' = TRUE
  /\ asked' = [asked EXCEPT ![IF DepositDue THEN "DEPOSIT_DUE" ELSE "BALANCE_DUE"] = @ + 1]
  /\ call' = Become(k, Idle)
  /\ UNCHANGED <<status, deposit, overdue, payment, charge, charged, review>>

-----------------------------------------------------------------------------
(* What happens to the estimate elsewhere (see MoveLifecycle), and time.   *)
(* Only a COMPLETED estimate has extra charges, so that only RejectLate can *)
(* meet a locked row.                                                      *)

RowFree == \A k \in Calls : EstimateRowFree(k)

\* A new confirmation starts a new deposit stage: its requests are counted anew.
Confirm ==
  /\ status = "PENDING"
  /\ status' = "CONFIRMED" /\ deposit' = "DUE" /\ overdue' = FALSE
  /\ asked' = [asked EXCEPT !["DEPOSIT_DUE"] = 0]
  /\ UNCHANGED <<payment, requested, charge, charged, review, call>>

ExpireDeposits ==
  /\ DepositDue /\ overdue
  /\ status' = "PENDING" /\ deposit' = "NONE" /\ overdue' = FALSE
  /\ requested' = FALSE
  /\ UNCHANGED <<payment, asked, charge, charged, review, call>>

\* A mutant: the job takes a confirmation whose deposit is still due.
CompleteUnsettled ==
  /\ status = "CONFIRMED"
  /\ status' = "COMPLETED"
  /\ UNCHANGED <<deposit, overdue, payment, requested, asked, charge, charged, review, call>>

\* expireRequests: the moving date has passed.
Complete ==
  /\ status = "CONFIRMED" /\ deposit \in {"NONE", "PAID"}
  /\ status' = "COMPLETED"
  /\ UNCHANGED <<deposit, overdue, payment, requested, asked, charge, charged, review, call>>

\* A rejection whose check is older than the confirmation.
RejectLate ==
  /\ status # "REJECTED" /\ RowFree
  /\ status' = "REJECTED"
  /\ UNCHANGED <<deposit, overdue, payment, requested, asked, charge, charged, review, call>>

DepositHoursPass ==
  /\ DepositDue /\ ~overdue
  /\ overdue' = TRUE
  /\ UNCHANGED <<status, deposit, payment, requested, asked, charge, charged, review, call>>

\* A transaction fails and is rolled back; for a payment this comes after the
\* approval, so that the money is taken and nothing is recorded.
CallFails(k) ==
  /\ ~Ready(k)
  /\ call[k].op = "PAY" => call[k].approved
  /\ call' = Become(k, Idle)
  /\ UNCHANGED <<status, deposit, overdue, payment, requested, asked, charge, charged, review>>

Restart ==
  /\ call' = [k \in Calls |-> Idle]
  /\ UNCHANGED <<status, deposit, overdue, payment, requested, asked, charge, charged, review>>

-----------------------------------------------------------------------------

\* The steps a call takes on its own once it is under way.
Proceed(k) ==
  \/ PayApproved(k) \/ PayNotApproved(k)
  \/ PayDeposit(k) \/ Pay(k) \/ PayConflict(k)
  \/ \E c \in Charges : ProposeExtraCharge(k, c)
  \/ UpdateExtraCharge(k)
  \/ ExtraChargeRefused(k)
  \/ RespondCommit(k)

Arrive(k) ==
  \/ \E t \in Types : PayCheck(k, t)
  \/ \E a \in Amounts : ProposeExtraChargeLock(k, a)
  \/ \E c \in Charges, a \in Amounts : UpdateExtraChargeLock(k, c, a)
  \/ \E cs \in SUBSET Charges, d \in {"APPROVED", "REJECTED"} : RespondExtraCharges(k, cs, d)
  \/ RequestPayment(k)

Next ==
  \/ \E k \in Calls : Arrive(k) \/ Proceed(k) \/ CallFails(k)
  \/ Confirm \/ ExpireDeposits \/ Complete \/ RejectLate
  \/ DepositHoursPass
  \/ Restart

Spec == Init /\ [][Next]_vars

\* A call that has been accepted goes on: Toss answers or times out, a
\* transaction runs as soon as the rows it waits for are free.  Waiting for a
\* row is fair (PostgreSQL queues the waiters), hence strong fairness.
FairSpec == Spec /\ \A k \in Calls : SF_vars(Proceed(k))

-----------------------------------------------------------------------------
(* Safety.                                                                 *)

\* schema.prisma, README: the charges that were not turned down never exceed
\* 20% of the price, also when the mover sends, edits and the customer answers
\* at the same time (the sum is read before the charge is written).
ChargesWithinLimit == SumOf(WithStatus({"PROPOSED", "APPROVED"})) <= ExtraChargeMax

\* Nothing is recorded as paid that Toss has not taken, and no review can be
\* written before: exactly the deposit, and for the balance at least what the
\* deposit leaves of the price (Toss takes an order number once, with the charges
\* that were approved when it was first sent).
RecordedIsCharged ==
  /\ deposit = "PAID" => charged["DEPOSIT"] = DepositAmount
  /\ payment = "PAID" => charged["BALANCE"] >= Price - DepositAmount
  /\ review <=> payment = "PAID"

\* The customer never pays more than price and extra charges they approved,
\* however often payments are repeated after a lost answer.
NeverOvercharged ==
  charged["DEPOSIT"] <= DepositAmount /\ charged["BALANCE"] <= BalanceAmount

\* In each stage the mover asks for the payment at most once, also over a
\* cancelled and renewed confirmation, and a new stage can be asked for again
\* (estimate.service.ts): payment_requested_at speaks of the stage that runs.
OneRequestPerStage ==
  /\ \A s \in Stages : asked[s] <= 1
  /\ DepositDue => (requested <=> asked["DEPOSIT_DUE"] = 1)
  /\ BalanceDue => (requested <=> asked["BALANCE_DUE"] = 1)

\* What the customer has answered stays as it was answered.
AnsweredIsFinal ==
  [][\A c \in Charges : charge[c].status \in {"APPROVED", "REJECTED"} => charge'[c] = charge[c]]_vars

\* Once the balance is recorded no charge appears and no amount changes: the
\* row lock makes the payment wait for the charge that is being written.
PaidFreezesAmounts ==
  [][payment = "PAID" => \A c \in Charges : charge'[c].amount = charge[c].amount]_vars

\* toPaymentStage and the where clauses of the updates and lists are two
\* spellings of one rule that have to stay in step (estimate.payment.ts), though
\* only the first looks at payment_status before a deposit.
StagesAgree ==
  /\ PaymentStage = "DEPOSIT_DUE" <=> DepositDue
  /\ PaymentStage = "BALANCE_DUE" <=> BalanceDue

\* The payments and jobs here write status and deposit as MoveLifecycle does.
Life == INSTANCE EstimateLife
ImplementsLife == Life!Spec

\* No call is stuck behind the rows another one holds.
EveryCallAnswers == \A k \in Calls : ~Ready(k) ~> Ready(k)

=============================================================================
