------------------------ MODULE MoveLifecycle_proofs ------------------------
(***************************************************************************)
(* Theorems of MoveLifecycle for every set of requests, movers, customers  *)
(* and calls and every value of the limits.                                *)
(***************************************************************************)
EXTENDS MoveLifecycle, FiniteSetTheorems, TLAPS

-----------------------------------------------------------------------------
(* Type correctness.                                                       *)

\* What a call under way carries depends on its operation.
LEMMA CallFields ==
  ASSUME TypeOK, NEW k \in Calls
  PROVE  /\ call[k].op = "CREATE" => call[k].customer \in Customers
         /\ call[k].op = "SAVE" => /\ call[k].request \in Requests
                                   /\ call[k].mover \in Movers
                                   /\ call[k].isTargeted \in BOOLEAN
         /\ call[k].op = "REJECT" => /\ call[k].request \in Requests
                                     /\ call[k].mover \in Movers
BY DEF TypeOK, CallStates, Idle

LEMMA NotedType ==
  ASSUME TypeOK, NEW r \in Requests, NEW m \in Movers, NEW t \in CardTypes
  PROVE  Noted(r, m, t) \in [Requests -> [Movers -> [CardTypes -> Nat]]]
BY ConstantsOK DEF TypeOK, Noted, Capped

LEMMA FinishedType ==
  ASSUME TypeOK, NEW k \in Calls
  PROVE  Finished(k) \in [Calls -> CallStates]
BY DEF TypeOK, Finished, CallStates

LEMMA LegacyCountType == \A m \in Movers : Cardinality({r \in Requests : <<r, m>> \in Legacy}) \in Nat
<1> TAKE m \in Movers
<1>1. IsFiniteSet({r \in Requests : <<r, m>> \in Legacy})
  BY ConstantsOK, FS_Subset
<1> QED BY <1>1, FS_CardinalityType

LEMMA InitTypeOK == Init => TypeOK
<1> SUFFICES ASSUME Init PROVE TypeOK
  OBVIOUS
<1>1. confirmedCount \in [Movers -> Int]
  BY LegacyCountType DEF Init
<1>2. call \in [Calls -> CallStates]
  BY DEF Init, CallStates
<1> QED BY <1>1, <1>2 DEF Init, TypeOK, RequestStatuses, EstimateStatuses, CardTypes, NoJob

LEMMA NextTypeOK == TypeOK /\ [Next]_vars => TypeOK'
<1> SUFFICES ASSUME TypeOK, [Next]_vars PROVE TypeOK'
  OBVIOUS
<1> USE DEF TypeOK, RequestStatuses, EstimateStatuses
<1>1. ASSUME NEW k \in Calls, NEW c \in Customers, CreateCheck(k, c) PROVE TypeOK'
  BY <1>1 DEF CreateCheck, CallStates
<1>2. ASSUME NEW k \in Calls, NEW r \in Requests, Create(k, r) PROVE TypeOK'
  BY <1>2, FinishedType DEF Create
<1>3. ASSUME NEW r \in Requests, NEW m \in Movers, CreateTargetedRequest(r, m) PROVE TypeOK'
  BY <1>3, NotedType DEF CreateTargetedRequest, CardTypes
<1>4. ASSUME NEW k \in Calls, NEW r \in Requests, NEW m \in Movers, SaveCheck(k, r, m)
      PROVE TypeOK'
  BY <1>4 DEF SaveCheck, CallStates
<1>5. ASSUME NEW k \in Calls, Save(k) PROVE TypeOK'
  BY <1>5, FinishedType, NotedType, CallFields DEF Save, CardTypes
<1>6. ASSUME NEW k \in Calls, SaveRefused(k) PROVE TypeOK'
  BY <1>6, FinishedType DEF SaveRefused
<1>7. ASSUME NEW k \in Calls, NEW r \in Requests, NEW m \in Movers, RejectCheck(k, r, m)
      PROVE TypeOK'
  BY <1>7 DEF RejectCheck, CallStates
<1>8. ASSUME NEW k \in Calls, Reject(k) PROVE TypeOK'
  <2> DEFINE r == call[k].request
             m == call[k].mover
  <2>1. r \in Requests /\ m \in Movers
    BY <1>8, CallFields DEF Reject
  <2>2. cards' \in [Requests -> [Movers -> [CardTypes -> Nat]]]
    BY <1>8, <2>1, NotedType DEF Reject, RejectNews, CardTypes
  <2>3. estimateStatus' \in [Requests -> [Movers -> EstimateStatuses]]
    BY <1>8, <2>1 DEF Reject
  <2>4. call' \in [Calls -> CallStates]
    BY <1>8, FinishedType DEF Reject
  <2> QED BY <1>8, <2>2, <2>3, <2>4 DEF Reject
<1>9. ASSUME NEW r \in Requests, NEW m \in Movers, Confirm(r, m) PROVE TypeOK'
  <2>1. cards' \in [Requests -> [Movers -> [CardTypes -> Nat]]]
    BY <1>9, NotedType DEF Confirm, CardTypes
  <2>2. estimateStatus' \in [Requests -> [Movers -> EstimateStatuses]]
    BY <1>9 DEF Confirm
  <2>3. deposit' \in [Requests -> [Movers -> {"NONE", "DUE", "PAID"}]]
    BY <1>9 DEF Confirm
  <2>4. late' \in [Requests -> SUBSET Movers] /\ rooms' \in [Requests -> SUBSET Movers]
    BY <1>9 DEF Confirm
  <2>5. confirmedCount' \in [Movers -> Int] /\ requestStatus' \in [Requests -> RequestStatuses]
    BY <1>9 DEF Confirm
  <2> QED BY <1>9, <2>1, <2>2, <2>3, <2>4, <2>5 DEF Confirm
<1>10. ASSUME NEW r \in Requests, NEW m \in Movers, PayDeposit(r, m) PROVE TypeOK'
  BY <1>10, NotedType DEF PayDeposit, CardTypes
<1>11. ASSUME NEW r \in Requests, NEW m \in Movers, ExpireDeposits(r, m) PROVE TypeOK'
  <2>1. cards' \in [Requests -> [Movers -> [CardTypes -> Nat]]]
    BY <1>11, NotedType DEF ExpireDeposits, CardTypes
  <2>2. estimateStatus' \in [Requests -> [Movers -> EstimateStatuses]]
    BY <1>11 DEF ExpireDeposits
  <2>3. deposit' \in [Requests -> [Movers -> {"NONE", "DUE", "PAID"}]]
    BY <1>11 DEF ExpireDeposits
  <2>4. late' \in [Requests -> SUBSET Movers]
    BY <1>11 DEF ExpireDeposits
  <2>5. confirmedCount' \in [Movers -> Int] /\ requestStatus' \in [Requests -> RequestStatuses]
    BY <1>11 DEF ExpireDeposits, TakenBack
  <2> QED BY <1>11, <2>1, <2>2, <2>3, <2>4, <2>5 DEF ExpireDeposits
<1>12. ASSUME NEW r \in Requests, ExpireRequestsRead(r) PROVE TypeOK'
  BY <1>12 DEF ExpireRequestsRead
<1>13. ASSUME NEW r \in Requests, ExpireRequestsWrite(r) PROVE TypeOK'
  BY <1>13 DEF ExpireRequestsWrite, ExpireRequestsClosing, NoJob
<1>14. ASSUME NEW r \in Requests, MovingDayArrives(r) PROVE TypeOK'
  BY <1>14 DEF MovingDayArrives
<1>15. ASSUME NEW r \in Requests, MovingDayPasses(r) PROVE TypeOK'
  BY <1>15 DEF MovingDayPasses
<1>16. ASSUME NEW r \in Requests, NEW m \in Movers, DepositHoursPass(r, m) PROVE TypeOK'
  BY <1>16 DEF DepositHoursPass
<1>17. ASSUME NEW k \in Calls, CallFails(k) PROVE TypeOK'
  BY <1>17, FinishedType DEF CallFails
<1>18. CASE Restart
  BY <1>18 DEF Restart, CallStates, NoJob
<1>19. ASSUME NEW m \in Movers, DeleteMoverAccount(m) PROVE TypeOK'
  <2>1. /\ estimateStatus' \in [Requests -> [Movers -> EstimateStatuses]]
        /\ deposit' \in [Requests -> [Movers -> {"NONE", "DUE", "PAID"}]]
        /\ erased' \in [Requests -> [Movers -> {"NONE", "DUE", "PAID"}]]
    BY <1>19 DEF DeleteMoverAccount
  <2>2. /\ late' \in [Requests -> SUBSET Movers] /\ targeted' \in [Requests -> SUBSET Movers]
        /\ rooms' \in [Requests -> SUBSET Movers] /\ left' \subseteq Movers
    BY <1>19 DEF DeleteMoverAccount
  <2>3. cards' \in [Requests -> [Movers -> [CardTypes -> Nat]]]
    BY <1>19 DEF DeleteMoverAccount
  <2> QED BY <1>19, <2>1, <2>2, <2>3 DEF DeleteMoverAccount
<1>20. CASE UNCHANGED vars
  BY <1>20 DEF vars
<1> QED BY <1>1, <1>2, <1>3, <1>4, <1>5, <1>6, <1>7, <1>8, <1>9, <1>10, <1>11, <1>12,
           <1>13, <1>14, <1>15, <1>16, <1>17, <1>18, <1>19, <1>20 DEF Next

\* Every reachable state has the types the columns and the calls have.
THEOREM TypeCorrect == Spec => []TypeOK
BY InitTypeOK, NextTypeOK, PTL DEF Spec

-----------------------------------------------------------------------------
(* One holder per request, and a status that agrees with it.               *)

\* Calls that were not about to reject are not after the step either.
NoNewReject ==
  \A k \in Calls : call'[k].op = "REJECT" => call[k].op = "REJECT" /\ call'[k] = call[k]

LEMMA FinishedIsNoReject ==
  ASSUME TypeOK, NEW k \in Calls, call' = Finished(k)
  PROVE  NoNewReject
BY DEF TypeOK, Finished, Idle, NoNewReject

\* The step announces no paid deposit.
PaidCardsKept ==
  \A r \in Requests, m \in Movers : cards'[r][m]["DEPOSIT_PAID"] = cards[r][m]["DEPOSIT_PAID"]

LEMMA NotedKeepsPaidCards ==
  ASSUME TypeOK, NEW r \in Requests, NEW m \in Movers, NEW t \in CardTypes,
         t # "DEPOSIT_PAID", cards' = Noted(r, m, t)
  PROVE  PaidCardsKept
BY DEF TypeOK, Noted, PaidCardsKept, CardTypes

\* A step that only moves clocks, cards, targets or harmless calls.
LEMMA AssignmentFrame ==
  ASSUME AssignmentInv, NoNewReject, PaidCardsKept,
         UNCHANGED <<requestStatus, estimateStatus, deposit, left, erased>>,
         job' = job \/ job' = NoJob
  PROVE  AssignmentInv'
<1>1. \A r \in Requests, m \in Movers : Holds(r, m)' = Holds(r, m)
  BY DEF Holds
<1>2. DepositMatchesStatus' /\ PaidMoveIsKept' /\ ErasedForGood'
  BY DEF AssignmentInv, DepositMatchesStatus, PaidMoveIsKept, PaidCardsKept, PaidOnce, ErasedForGood
<1>3. LegacyIsKept'
  BY DEF AssignmentInv, LegacyIsKept, NoNewReject
<1>4. JobFoundSettled'
  BY ConstantsOK DEF AssignmentInv, JobFoundSettled, PaidOnce, NoJob
<1>5. AtMostOneHolder' /\ StatusMatchesHolder'
  BY <1>1 DEF AssignmentInv, AtMostOneHolder, StatusMatchesHolder
<1> QED BY <1>2, <1>3, <1>4, <1>5 DEF AssignmentInv

LEMMA InitAssignmentInv == Init => AssignmentInv
<1> SUFFICES ASSUME Init PROVE AssignmentInv
  OBVIOUS
<1>1. \A r \in Requests, m \in Movers : Holds(r, m) <=> <<r, m>> \in Legacy
  BY DEF Init, Holds
<1>2. DepositMatchesStatus /\ PaidMoveIsKept /\ ErasedForGood
  BY DEF Init, DepositMatchesStatus, PaidMoveIsKept, PaidOnce, ErasedForGood, CardTypes
<1>3. LegacyIsKept
  BY DEF Init, LegacyIsKept, Idle
<1>4. JobFoundSettled
  BY ConstantsOK DEF Init, JobFoundSettled, NoJob
<1>5. AtMostOneHolder
  <2> SUFFICES ASSUME NEW r \in Requests, NEW m \in Movers, NEW n \in Movers,
                      <<r, m>> \in Legacy, <<r, n>> \in Legacy
               PROVE  m = n
    BY <1>1 DEF AtMostOneHolder
  <2> QED BY ConstantsOK
<1>6. StatusMatchesHolder
  BY <1>1 DEF Init, StatusMatchesHolder, IsLegacy
<1> QED BY <1>2, <1>3, <1>4, <1>5, <1>6 DEF AssignmentInv

\* A request in PENDING has no holder, so none of its estimates has a deposit.
LEMMA PendingHasNoHolder ==
  ASSUME AssignmentInv, NEW r \in Requests, requestStatus[r] \in {"NONE", "PENDING", "EXPIRED"}
  PROVE  /\ \A m \in Movers : ~Holds(r, m)
         /\ ~IsLegacy(r)
BY DEF AssignmentInv, StatusMatchesHolder, LegacyIsKept, Holds, IsLegacy

LEMMA CreateAssignment ==
  ASSUME TypeOK, AssignmentInv, NEW k \in Calls, NEW r \in Requests, Create(k, r)
  PROVE  AssignmentInv'
<1> USE DEF Create
<1>1. NoNewReject
  BY FinishedIsNoReject
<1>2. \A q \in Requests, m \in Movers : Holds(q, m)' = Holds(q, m)
  BY DEF Holds
<1>3. \A q \in Requests : requestStatus'[q] = IF q = r THEN "PENDING" ELSE requestStatus[q]
  BY DEF TypeOK
<1>4. DepositMatchesStatus' /\ PaidMoveIsKept' /\ ErasedForGood'
  BY <1>3 DEF AssignmentInv, DepositMatchesStatus, PaidMoveIsKept, PaidOnce, ErasedForGood
<1>5. LegacyIsKept'
  BY <1>1 DEF AssignmentInv, LegacyIsKept, NoNewReject
<1>6. JobFoundSettled'
  BY DEF AssignmentInv, JobFoundSettled, PaidOnce
<1>7. AtMostOneHolder' /\ StatusMatchesHolder'
  BY <1>2, <1>3, PendingHasNoHolder DEF AssignmentInv, AtMostOneHolder, StatusMatchesHolder
<1> QED BY <1>4, <1>5, <1>6, <1>7 DEF AssignmentInv

LEMMA SaveAssignment ==
  ASSUME TypeOK, AssignmentInv, NEW k \in Calls, Save(k)
  PROVE  AssignmentInv'
<1> DEFINE r == call[k].request
           m == call[k].mover
<1>1. r \in Requests /\ m \in Movers
  BY CallFields DEF Save
<1>2. NoNewReject
  BY FinishedIsNoReject DEF Save
<1>3. estimateStatus[r][m] = "NONE"
  BY DEF Save, SaveAllowed
<1>4. \A q \in Requests, n \in Movers : estimateStatus'[q][n] =
        IF q = r /\ n = m THEN "PENDING" ELSE estimateStatus[q][n]
  BY <1>1 DEF Save, TypeOK
<1>5. \A q \in Requests, n \in Movers : Holds(q, n)' = Holds(q, n)
  BY <1>3, <1>4 DEF Holds, Save
<1>6. DepositMatchesStatus' /\ PaidMoveIsKept' /\ ErasedForGood'
  <2>1. PaidCardsKept
    BY <1>1, NotedKeepsPaidCards DEF Save, CardTypes
  <2> QED BY <1>3, <1>4, <2>1
          DEF AssignmentInv, DepositMatchesStatus, PaidMoveIsKept, PaidCardsKept,
              PaidOnce, ErasedForGood, Save
<1>7. LegacyIsKept'
  BY <1>2, <1>3, <1>4 DEF AssignmentInv, LegacyIsKept, NoNewReject, Save
<1>8. JobFoundSettled'
  BY DEF AssignmentInv, JobFoundSettled, PaidOnce, Save
<1>9. AtMostOneHolder' /\ StatusMatchesHolder'
  BY <1>5 DEF AssignmentInv, AtMostOneHolder, StatusMatchesHolder, Save
<1> QED BY <1>6, <1>7, <1>8, <1>9 DEF AssignmentInv

\* A rejection never hides a holder: what it overwrites either was no
\* assignment or keeps its deposit columns.
LEMMA RejectAssignment ==
  ASSUME TypeOK, AssignmentInv, NEW k \in Calls, Reject(k)
  PROVE  AssignmentInv'
<1> DEFINE r == call[k].request
           m == call[k].mover
<1>1. r \in Requests /\ m \in Movers
  BY CallFields DEF Reject
<1>2. NoNewReject
  BY FinishedIsNoReject DEF Reject
<1>3. ~IsLegacy(r)
  BY DEF Reject, AssignmentInv, LegacyIsKept
<1>4. \A q \in Requests, n \in Movers : estimateStatus'[q][n] =
        IF q = r /\ n = m THEN "REJECTED" ELSE estimateStatus[q][n]
  BY <1>1 DEF Reject, TypeOK
<1>5. \A q \in Requests, n \in Movers : Holds(q, n)' = Holds(q, n)
  BY <1>1, <1>3, <1>4 DEF Holds, Reject, AssignmentInv, DepositMatchesStatus, IsLegacy
<1>6. DepositMatchesStatus' /\ PaidMoveIsKept' /\ ErasedForGood'
  <2>1. PaidCardsKept
    BY <1>1, NotedKeepsPaidCards DEF Reject, RejectNews, CardTypes, PaidCardsKept
  <2> QED BY <1>4, <2>1
          DEF AssignmentInv, DepositMatchesStatus, PaidMoveIsKept, PaidCardsKept,
              PaidOnce, ErasedForGood, Reject
<1>7. LegacyIsKept'
  BY <1>2, <1>3, <1>4 DEF AssignmentInv, LegacyIsKept, NoNewReject, IsLegacy, Reject
<1>8. JobFoundSettled'
  BY DEF AssignmentInv, JobFoundSettled, PaidOnce, Reject
<1>9. AtMostOneHolder' /\ StatusMatchesHolder'
  BY <1>5 DEF AssignmentInv, AtMostOneHolder, StatusMatchesHolder, Reject
<1> QED BY <1>6, <1>7, <1>8, <1>9 DEF AssignmentInv

LEMMA ConfirmAssignment ==
  ASSUME TypeOK, AssignmentInv, NEW r \in Requests, NEW m \in Movers, Confirm(r, m)
  PROVE  AssignmentInv'
<1> USE DEF Confirm, ConfirmFindsBothRows
<1>1. \A n \in Movers : ~Holds(r, n)
  BY PendingHasNoHolder
<1>2. \A q \in Requests, n \in Movers :
        /\ estimateStatus'[q][n] = IF q = r /\ n = m THEN "CONFIRMED" ELSE estimateStatus[q][n]
        /\ deposit'[q][n] = IF q = r /\ n = m THEN "DUE" ELSE deposit[q][n]
  BY DEF TypeOK
<1>3. \A q \in Requests : requestStatus'[q] = IF q = r THEN "ASSIGNED" ELSE requestStatus[q]
  BY DEF TypeOK
<1>4. \A q \in Requests, n \in Movers : Holds(q, n)' <=> Holds(q, n) \/ (q = r /\ n = m)
  BY <1>1, <1>2 DEF Holds
<1>5. DepositMatchesStatus'
  <2> SUFFICES ASSUME NEW q \in Requests, NEW n \in Movers
               PROVE  /\ estimateStatus'[q][n] \in {"NONE", "PENDING"} => deposit'[q][n] = "NONE"
                      /\ estimateStatus'[q][n] \in {"CONFIRMED", "COMPLETED"} /\ deposit'[q][n] = "NONE"
                           => <<q, n>> \in Legacy
                      /\ deposit'[q][n] = "DUE" => requestStatus'[q] = "ASSIGNED"
    BY DEF DepositMatchesStatus
  <2> HIDE DEF Confirm, ConfirmFindsBothRows
  <2> QED BY <1>2, <1>3 DEF AssignmentInv, DepositMatchesStatus
<1>6. PaidMoveIsKept'
  <2>1. PaidCardsKept
    BY NotedKeepsPaidCards DEF CardTypes
  <2>2. deposit[r][m] # "PAID"
    BY <1>1 DEF Holds
  <2> QED BY <1>2, <1>3, <2>1, <2>2 DEF AssignmentInv, PaidMoveIsKept, PaidCardsKept, PaidOnce
<1>7. LegacyIsKept' /\ ErasedForGood'
  BY <1>1, <1>2 DEF AssignmentInv, LegacyIsKept, ErasedForGood
<1>8. JobFoundSettled'
  BY <1>1, <1>2 DEF AssignmentInv, JobFoundSettled, PaidOnce, Holds
<1>9. AtMostOneHolder'
  BY <1>1, <1>4 DEF AssignmentInv, AtMostOneHolder
<1>10. StatusMatchesHolder'
  BY <1>1, <1>3, <1>4 DEF AssignmentInv, StatusMatchesHolder
<1> QED BY <1>5, <1>6, <1>7, <1>8, <1>9, <1>10 DEF AssignmentInv

LEMMA PayDepositAssignment ==
  ASSUME TypeOK, AssignmentInv, NEW r \in Requests, NEW m \in Movers, PayDeposit(r, m)
  PROVE  AssignmentInv'
<1> USE DEF PayDeposit, DepositDue
<1>1. \A q \in Requests, n \in Movers :
        deposit'[q][n] = IF q = r /\ n = m THEN "PAID" ELSE deposit[q][n]
  BY DEF TypeOK
<1>2. \A q \in Requests, n \in Movers : Holds(q, n)' = Holds(q, n)
  BY <1>1 DEF Holds
<1>3. DepositMatchesStatus' /\ PaidMoveIsKept'
  <2>1. requestStatus[r] = "ASSIGNED"
    BY DEF AssignmentInv, DepositMatchesStatus
  <2>2. DepositMatchesStatus'
    <3>1. estimateStatus' = estimateStatus /\ requestStatus' = requestStatus
      OBVIOUS
    <3>2. estimateStatus[r][m] = "CONFIRMED"
      OBVIOUS
    <3> SUFFICES ASSUME NEW q \in Requests, NEW n \in Movers
                 PROVE  /\ estimateStatus'[q][n] \in {"NONE", "PENDING"} => deposit'[q][n] = "NONE"
                        /\ estimateStatus'[q][n] \in {"CONFIRMED", "COMPLETED"} /\ deposit'[q][n] = "NONE"
                             => <<q, n>> \in Legacy
                        /\ deposit'[q][n] = "DUE" => requestStatus'[q] = "ASSIGNED"
      BY DEF DepositMatchesStatus
    <3> HIDE DEF PayDeposit, DepositDue
    <3> QED BY <1>1, <3>1, <3>2 DEF AssignmentInv, DepositMatchesStatus
  <2>3. PaidMoveIsKept'
    <3>1. \A q \in Requests, n \in Movers : ~(q = r /\ n = m) =>
            cards'[q][n]["DEPOSIT_PAID"] = cards[q][n]["DEPOSIT_PAID"]
      BY DEF TypeOK, Noted, CardTypes
    <3> QED BY <1>1, <2>1, <3>1 DEF AssignmentInv, PaidMoveIsKept, PaidOnce
  <2> QED BY <2>2, <2>3
<1>4. LegacyIsKept' /\ ErasedForGood'
  BY <1>1 DEF AssignmentInv, LegacyIsKept, ErasedForGood
<1>5. JobFoundSettled'
  BY <1>1 DEF AssignmentInv, JobFoundSettled, PaidOnce
<1>6. AtMostOneHolder' /\ StatusMatchesHolder'
  BY <1>2 DEF AssignmentInv, AtMostOneHolder, StatusMatchesHolder
<1> QED BY <1>3, <1>4, <1>5, <1>6 DEF AssignmentInv

LEMMA ExpireDepositsAssignment ==
  ASSUME TypeOK, AssignmentInv, NEW r \in Requests, NEW m \in Movers, ExpireDeposits(r, m)
  PROVE  AssignmentInv'
<1> USE DEF ExpireDeposits, ExpireDepositsTarget, DepositDue
<1>1. Holds(r, m) /\ requestStatus[r] = "ASSIGNED"
  BY DEF Holds, AssignmentInv, DepositMatchesStatus
<1>2. \A n \in Movers : Holds(r, n) => n = m
  BY <1>1 DEF AssignmentInv, AtMostOneHolder
<1>3. \A q \in Requests, n \in Movers :
        /\ estimateStatus'[q][n] = IF q = r /\ n = m THEN "PENDING" ELSE estimateStatus[q][n]
        /\ deposit'[q][n] = IF q = r /\ n = m THEN "NONE" ELSE deposit[q][n]
  BY DEF TypeOK
<1>4. \A q \in Requests : requestStatus'[q] = IF q = r THEN "PENDING" ELSE requestStatus[q]
  BY <1>1 DEF TypeOK
<1>5. \A q \in Requests, n \in Movers : Holds(q, n)' <=> Holds(q, n) /\ ~(q = r /\ n = m)
  BY <1>3 DEF Holds, AssignmentInv, ErasedForGood
<1>6. DepositMatchesStatus'
  <2> SUFFICES ASSUME NEW q \in Requests, NEW n \in Movers
               PROVE  /\ estimateStatus'[q][n] \in {"NONE", "PENDING"} => deposit'[q][n] = "NONE"
                      /\ estimateStatus'[q][n] \in {"CONFIRMED", "COMPLETED"} /\ deposit'[q][n] = "NONE"
                           => <<q, n>> \in Legacy
                      /\ deposit'[q][n] = "DUE" => requestStatus'[q] = "ASSIGNED"
    BY DEF DepositMatchesStatus
  <2> HIDE DEF ExpireDeposits, ExpireDepositsTarget
  <2> QED BY <1>2, <1>3, <1>4 DEF AssignmentInv, DepositMatchesStatus, Holds
<1>7. PaidMoveIsKept'
  <2>1. PaidCardsKept
    BY NotedKeepsPaidCards DEF CardTypes
  <2>2. deposit[r][m] = "DUE"
    OBVIOUS
  <2>3. erased[r][m] = "NONE"
    BY <2>2 DEF AssignmentInv, ErasedForGood
  <2> QED BY <1>2, <1>3, <1>4, <2>1, <2>2, <2>3
          DEF AssignmentInv, PaidMoveIsKept, PaidCardsKept, PaidOnce, Holds
<1>8. <<r, m>> \notin Legacy /\ erased[r][m] = "NONE" /\ deposit[r][m] = "DUE"
  BY DEF AssignmentInv, LegacyIsKept, ErasedForGood
<1>9. LegacyIsKept' /\ ErasedForGood'
  BY <1>3, <1>8 DEF AssignmentInv, LegacyIsKept, ErasedForGood
<1>10. JobFoundSettled'
  BY <1>3, <1>8 DEF AssignmentInv, JobFoundSettled, PaidOnce
<1>11. AtMostOneHolder'
  BY <1>5 DEF AssignmentInv, AtMostOneHolder
<1>12. StatusMatchesHolder'
  BY <1>2, <1>4, <1>5 DEF AssignmentInv, StatusMatchesHolder
<1> QED BY <1>6, <1>7, <1>9, <1>10, <1>11, <1>12 DEF AssignmentInv

LEMMA ReadAssignment ==
  ASSUME TypeOK, AssignmentInv, NEW r \in Requests, ExpireRequestsRead(r)
  PROVE  AssignmentInv'
<1> USE DEF ExpireRequestsRead
<1>1. \A q \in Requests, n \in Movers : Holds(q, n)' = Holds(q, n)
  BY DEF Holds
<1>2. DepositMatchesStatus' /\ PaidMoveIsKept'
  BY DEF AssignmentInv, DepositMatchesStatus, PaidMoveIsKept, PaidOnce
<1>3. LegacyIsKept' /\ ErasedForGood'
  BY DEF AssignmentInv, LegacyIsKept, ErasedForGood
<1>4. JobFoundSettled'
  <2> SUFFICES ASSUME NEW f \in Movers, job' = [request |-> r, found |-> f], Settled(r, f)
               PROVE  deposit[r][f] = "PAID" \/ <<r, f>> \in Legacy
    BY ConstantsOK DEF JobFoundSettled, PaidOnce
  <2> QED BY DEF Settled, AssignmentInv, DepositMatchesStatus
<1>5. AtMostOneHolder' /\ StatusMatchesHolder'
  BY <1>1 DEF AssignmentInv, AtMostOneHolder, StatusMatchesHolder
<1> QED BY <1>2, <1>3, <1>4, <1>5 DEF AssignmentInv

\* The second half of expireRequests decides on what the first half read.  A
\* settled estimate is still settled; without one, only a request that is
\* PENDING, hence held by nobody, expires.
LEMMA WriteAssignment ==
  ASSUME TypeOK, AssignmentInv, NEW r \in Requests, ExpireRequestsWrite(r)
  PROVE  AssignmentInv'
<1> DEFINE f == job.found
           completes == f \in Movers /\ Active(requestStatus[r]) /\ estimateStatus[r][f] = "CONFIRMED"
<1>1. /\ job.request = r
      /\ job' = NoJob
      /\ deposit' = deposit /\ call' = call /\ left' = left /\ erased' = erased
      /\ f \in Movers \cup {NoMover}
  BY DEF ExpireRequestsWrite, TypeOK
<1>2. \A q \in Requests, n \in Movers : estimateStatus'[q][n] =
        IF completes /\ q = r /\ n = f THEN "COMPLETED" ELSE estimateStatus[q][n]
  BY DEF ExpireRequestsWrite, TypeOK
<1>3. \A q \in Requests : requestStatus'[q] =
        IF q = r THEN ExpireRequestsClosing(requestStatus[r], f) ELSE requestStatus[q]
  BY DEF ExpireRequestsWrite, TypeOK
<1>4. \A q \in Requests, n \in Movers : Holds(q, n)' = Holds(q, n)
  BY <1>1, <1>2 DEF Holds
<1>5. f \in Movers => PaidOnce(r, f) \/ <<r, f>> \in Legacy
  BY <1>1 DEF AssignmentInv, JobFoundSettled
<1>6. f \in Movers => requestStatus[r] \in {"ASSIGNED", "COMPLETED"}
  BY <1>5 DEF AssignmentInv, PaidMoveIsKept, LegacyIsKept, StatusMatchesHolder, Holds
<1>7. requestStatus'[r] \in {"ASSIGNED", "COMPLETED"} <=> requestStatus[r] \in {"ASSIGNED", "COMPLETED"}
  BY <1>1, <1>3, <1>6, ConstantsOK DEF ExpireRequestsClosing, Active
<1>8. \A n \in Movers : deposit[r][n] = "DUE" => requestStatus'[r] = "ASSIGNED"
  <2> SUFFICES ASSUME NEW n \in Movers, deposit[r][n] = "DUE"
               PROVE  requestStatus'[r] = "ASSIGNED"
    OBVIOUS
  <2>1. requestStatus[r] = "ASSIGNED" /\ Holds(r, n)
    BY DEF AssignmentInv, DepositMatchesStatus, Holds
  <2>2. f \notin Movers
    <3> SUFFICES ASSUME f \in Movers PROVE FALSE
      OBVIOUS
    <3>1. Holds(r, f)
      BY <1>5 DEF AssignmentInv, LegacyIsKept, Holds, PaidOnce
    <3>2. f = n
      BY <2>1, <3>1 DEF AssignmentInv, AtMostOneHolder
    <3> QED BY <1>5, <3>2 DEF AssignmentInv, LegacyIsKept, PaidOnce, ErasedForGood
  <2> QED BY <1>1, <1>3, <2>1, <2>2 DEF ExpireRequestsClosing
<1>9. DepositMatchesStatus'
  <2> SUFFICES ASSUME NEW q \in Requests, NEW n \in Movers
               PROVE  /\ estimateStatus'[q][n] \in {"NONE", "PENDING"} => deposit[q][n] = "NONE"
                      /\ estimateStatus'[q][n] \in {"CONFIRMED", "COMPLETED"} /\ deposit[q][n] = "NONE"
                           => <<q, n>> \in Legacy
                      /\ deposit[q][n] = "DUE" => requestStatus'[q] = "ASSIGNED"
    BY <1>1 DEF DepositMatchesStatus
  <2> QED BY <1>2, <1>3, <1>8 DEF AssignmentInv, DepositMatchesStatus
<1>10. PaidMoveIsKept'
  <2>1. cards' = cards
    BY DEF ExpireRequestsWrite
  <2> QED BY <1>1, <1>3, <1>7, <2>1 DEF AssignmentInv, PaidMoveIsKept, PaidOnce
<1>11. LegacyIsKept' /\ ErasedForGood'
  BY <1>1, <1>2 DEF AssignmentInv, LegacyIsKept, ErasedForGood
<1>12. JobFoundSettled'
  BY <1>1, ConstantsOK DEF JobFoundSettled, NoJob
<1>13. AtMostOneHolder'
  BY <1>4 DEF AssignmentInv, AtMostOneHolder
<1>14. StatusMatchesHolder'
  BY <1>3, <1>4, <1>7 DEF AssignmentInv, StatusMatchesHolder
<1> QED BY <1>9, <1>10, <1>11, <1>12, <1>13, <1>14 DEF AssignmentInv

\* A call that starts to reject has just seen its request PENDING.
LEMMA RejectCheckAssignment ==
  ASSUME TypeOK, AssignmentInv, NEW k \in Calls, NEW r \in Requests, NEW m \in Movers,
         RejectCheck(k, r, m)
  PROVE  AssignmentInv'
<1> USE DEF RejectCheck
<1>1. ~IsLegacy(r)
  BY PendingHasNoHolder DEF MayReject
<1>2. \A j \in Calls : call'[j].op = "REJECT" => ~IsLegacy(call'[j].request)
  BY <1>1 DEF TypeOK, AssignmentInv, LegacyIsKept
<1>3. \A q \in Requests, n \in Movers : Holds(q, n)' = Holds(q, n)
  BY DEF Holds
<1>4. DepositMatchesStatus' /\ PaidMoveIsKept' /\ ErasedForGood'
  BY DEF AssignmentInv, DepositMatchesStatus, PaidMoveIsKept, PaidOnce, ErasedForGood
<1>5. LegacyIsKept'
  BY <1>2 DEF AssignmentInv, LegacyIsKept, IsLegacy
<1>6. JobFoundSettled'
  BY DEF AssignmentInv, JobFoundSettled, PaidOnce
<1>7. AtMostOneHolder' /\ StatusMatchesHolder'
  BY <1>3 DEF AssignmentInv, AtMostOneHolder, StatusMatchesHolder
<1> QED BY <1>4, <1>5, <1>6, <1>7 DEF AssignmentInv

\* A step that deletes an account erases rows, and keeps who held what.
LEMMA DeleteRows ==
  ASSUME TypeOK, AssignmentInv, NEW m \in Movers, DeleteMoverAccount(m)
  PROVE  /\ \A q \in Requests, n \in Movers :
              LET gone == n = m /\ Erasable(q, n) IN
              /\ estimateStatus'[q][n] = IF gone THEN "NONE" ELSE estimateStatus[q][n]
              /\ deposit'[q][n] = IF gone THEN "NONE" ELSE deposit[q][n]
              /\ erased'[q][n] = IF gone THEN deposit[q][n] ELSE erased[q][n]
         /\ \A q \in Requests, n \in Movers, t \in CardTypes :
              cards'[q][n][t] = IF n = m THEN 0 ELSE cards[q][n][t]
         /\ \A q \in Requests : erased[q][m] = "NONE" /\ estimateStatus[q][m] # "CONFIRMED"
<1>1. \A q \in Requests : erased[q][m] = "NONE" /\ estimateStatus[q][m] # "CONFIRMED"
  BY DEF DeleteMoverAccount, MayLeave, AssignmentInv, ErasedForGood
<1>2. \A q \in Requests, n \in Movers, t \in CardTypes :
        cards'[q][n][t] = IF n = m THEN 0 ELSE cards[q][n][t]
  BY DEF DeleteMoverAccount, TypeOK
<1>3. ASSUME NEW q \in Requests, NEW n \in Movers
      PROVE  /\ estimateStatus'[q][n] =
                  IF n = m /\ Erasable(q, n) THEN "NONE" ELSE estimateStatus[q][n]
             /\ deposit'[q][n] = IF n = m /\ Erasable(q, n) THEN "NONE" ELSE deposit[q][n]
             /\ erased'[q][n] = IF n = m /\ Erasable(q, n) THEN deposit[q][n] ELSE erased[q][n]
  BY DEF DeleteMoverAccount, TypeOK
<1> QED BY <1>1, <1>2, <1>3

LEMMA DeleteHolds ==
  ASSUME TypeOK, AssignmentInv, NEW m \in Movers, DeleteMoverAccount(m),
         NEW q \in Requests, NEW n \in Movers
  PROVE  Holds(q, n)' = Holds(q, n) /\ PaidOnce(q, n)' = PaidOnce(q, n)
BY DeleteRows DEF Holds, PaidOnce, Erasable

LEMMA DeleteAssignment ==
  ASSUME TypeOK, AssignmentInv, NEW m \in Movers, DeleteMoverAccount(m)
  PROVE  AssignmentInv'
<1>1. UNCHANGED <<requestStatus, call, job>> /\ left' = left \cup {m}
  BY DEF DeleteMoverAccount
<1>2. DepositMatchesStatus'
  <2> SUFFICES ASSUME NEW q \in Requests, NEW n \in Movers
               PROVE  /\ estimateStatus'[q][n] \in {"NONE", "PENDING"} => deposit'[q][n] = "NONE"
                      /\ estimateStatus'[q][n] \in {"CONFIRMED", "COMPLETED"} /\ deposit'[q][n] = "NONE"
                           => <<q, n>> \in Legacy
                      /\ deposit'[q][n] = "DUE" => requestStatus'[q] = "ASSIGNED"
    BY DEF DepositMatchesStatus
  <2>1. CASE n = m /\ Erasable(q, n)
    BY <2>1, DeleteRows
  <2>2. CASE ~(n = m /\ Erasable(q, n))
    <3>1. estimateStatus'[q][n] = estimateStatus[q][n] /\ deposit'[q][n] = deposit[q][n]
      BY <2>2, DeleteRows
    <3> QED BY <1>1, <3>1 DEF AssignmentInv, DepositMatchesStatus
  <2> QED BY <2>1, <2>2
<1>3. PaidMoveIsKept'
  <2> SUFFICES ASSUME NEW q \in Requests, NEW n \in Movers
               PROVE  /\ cards'[q][n]["DEPOSIT_PAID"] > 0 => deposit'[q][n] = "PAID"
                      /\ PaidOnce(q, n)' => requestStatus'[q] \in {"ASSIGNED", "COMPLETED"}
    BY DEF PaidMoveIsKept
  <2>1. cards'[q][n]["DEPOSIT_PAID"] = IF n = m THEN 0 ELSE cards[q][n]["DEPOSIT_PAID"]
    BY DeleteRows DEF CardTypes
  <2>2. n # m => deposit'[q][n] = deposit[q][n]
    BY DeleteRows
  <2>3. PaidOnce(q, n)' = PaidOnce(q, n)
    BY DeleteHolds
  <2> QED BY <1>1, <2>1, <2>2, <2>3 DEF AssignmentInv, PaidMoveIsKept
<1>4. ErasedForGood'
  BY <1>1, DeleteRows DEF AssignmentInv, ErasedForGood
<1>5. LegacyIsKept'
  BY <1>1, DeleteRows DEF AssignmentInv, LegacyIsKept, Erasable
<1>6. JobFoundSettled'
  BY <1>1, DeleteHolds DEF AssignmentInv, JobFoundSettled
<1>7. AtMostOneHolder'
  BY DeleteHolds DEF AssignmentInv, AtMostOneHolder
<1>8. StatusMatchesHolder'
  BY <1>1, DeleteHolds DEF AssignmentInv, StatusMatchesHolder
<1> QED BY <1>2, <1>3, <1>4, <1>5, <1>6, <1>7, <1>8 DEF AssignmentInv

LEMMA NextAssignmentInv == TypeOK /\ AssignmentInv /\ [Next]_vars => AssignmentInv'
<1> SUFFICES ASSUME TypeOK, AssignmentInv, [Next]_vars PROVE AssignmentInv'
  OBVIOUS
<1>1. ASSUME NEW k \in Calls, NEW c \in Customers, CreateCheck(k, c) PROVE AssignmentInv'
  <2>1. NoNewReject
    BY <1>1 DEF CreateCheck, TypeOK, NoNewReject
  <2> QED BY <1>1, <2>1, AssignmentFrame DEF PaidCardsKept, CreateCheck
<1>2. ASSUME NEW r \in Requests, NEW m \in Movers, CreateTargetedRequest(r, m)
      PROVE  AssignmentInv'
  BY <1>2, NotedKeepsPaidCards, AssignmentFrame
     DEF CreateTargetedRequest, NoNewReject, CardTypes
<1>3. ASSUME NEW k \in Calls, NEW r \in Requests, NEW m \in Movers, SaveCheck(k, r, m)
      PROVE  AssignmentInv'
  <2>1. NoNewReject
    BY <1>3 DEF SaveCheck, TypeOK, NoNewReject
  <2> QED BY <1>3, <2>1, AssignmentFrame DEF PaidCardsKept, SaveCheck
<1>4. ASSUME NEW k \in Calls, SaveRefused(k) PROVE AssignmentInv'
  BY <1>4, FinishedIsNoReject, AssignmentFrame DEF PaidCardsKept, SaveRefused
<1>5. ASSUME NEW r \in Requests, MovingDayArrives(r) PROVE AssignmentInv'
  BY <1>5, AssignmentFrame DEF PaidCardsKept, MovingDayArrives, NoNewReject
<1>6. ASSUME NEW r \in Requests, MovingDayPasses(r) PROVE AssignmentInv'
  BY <1>6, AssignmentFrame DEF PaidCardsKept, MovingDayPasses, NoNewReject
<1>7. ASSUME NEW r \in Requests, NEW m \in Movers, DepositHoursPass(r, m)
      PROVE  AssignmentInv'
  BY <1>7, AssignmentFrame DEF PaidCardsKept, DepositHoursPass, NoNewReject
<1>8. ASSUME NEW k \in Calls, CallFails(k) PROVE AssignmentInv'
  BY <1>8, FinishedIsNoReject, AssignmentFrame DEF PaidCardsKept, CallFails
<1>9. CASE Restart
  BY <1>9, AssignmentFrame DEF PaidCardsKept, Restart, NoNewReject, Idle
<1>10. CASE UNCHANGED vars
  BY <1>10, AssignmentFrame DEF PaidCardsKept, vars, NoNewReject
<1> QED BY <1>1, <1>2, <1>3, <1>4, <1>5, <1>6, <1>7, <1>8, <1>9, <1>10,
           CreateAssignment, SaveAssignment, RejectCheckAssignment, RejectAssignment,
           ConfirmAssignment, PayDepositAssignment, ExpireDepositsAssignment,
           ReadAssignment, WriteAssignment, DeleteAssignment DEF Next

\* The inductive invariant holds in every reachable state.
THEOREM AssignmentCorrect == Spec => []AssignmentInv
<1>1. Init => TypeOK /\ AssignmentInv
  BY InitTypeOK, InitAssignmentInv
<1>2. TypeOK /\ AssignmentInv /\ [Next]_vars => (TypeOK /\ AssignmentInv)'
  BY NextTypeOK, NextAssignmentInv
<1> QED BY <1>1, <1>2, PTL DEF Spec

\* A request is never held by two movers, whatever calls, jobs and restarts
\* come between the steps of confirm, reject and the two jobs.
THEOREM OneHolder == Spec => []AtMostOneHolder
<1>1. AssignmentInv => AtMostOneHolder
  BY DEF AssignmentInv
<1> QED BY <1>1, AssignmentCorrect, PTL

\* quotation_status agrees with the estimates in every reachable state.
THEOREM StatusAgrees == Spec => []StatusMatchesHolder
<1>1. AssignmentInv => StatusMatchesHolder
  BY DEF AssignmentInv
<1> QED BY <1>1, AssignmentCorrect, PTL

\* A move whose deposit is paid is neither cancelled nor expired by a job.
THEOREM PaidIsKept == Spec => []PaidMoveIsKept
<1>1. AssignmentInv => PaidMoveIsKept
  BY DEF AssignmentInv
<1> QED BY <1>1, AssignmentCorrect, PTL

-----------------------------------------------------------------------------
(* What the notifications tell.                                            *)

LEMMA NotedAt ==
  ASSUME TypeOK, NEW r \in Requests, NEW m \in Movers, NEW t \in CardTypes,
         cards' = Noted(r, m, t)
  PROVE  \A q \in Requests, n \in Movers, u \in CardTypes : cards'[q][n][u] =
           IF q = r /\ n = m /\ u = t 
        THEN Capped(cards[q][n][u] + 1) ELSE cards[q][n][u]
BY DEF TypeOK, Noted

\* A step that writes neither cards nor what they tell.
LEMMA HistoryFrame ==
  ASSUME CardsTellHistory, UNCHANGED <<cards, targeted, estimateStatus, deposit, left>>
  PROVE  CardsTellHistory'
BY DEF CardsTellHistory

LEMMA TargetedHistory ==
  ASSUME TypeOK, CardsTellHistory, NEW r \in Requests, NEW m \in Movers,
         CreateTargetedRequest(r, m)
  PROVE  CardsTellHistory'
<1>1. \A q \in Requests, n \in Movers, u \in CardTypes : cards'[q][n][u] =
        IF q = r /\ n = m /\ u = "NEW_REQUEST" 
        THEN Capped(cards[q][n][u] + 1) ELSE cards[q][n][u]
  BY NotedAt DEF CreateTargetedRequest, CardTypes
<1>2. \A q \in Requests, n \in Movers :
        n \in targeted'[q] <=> n \in targeted[q] \/ (q = r /\ n = m)
  BY DEF CreateTargetedRequest, TypeOK
<1>3. m \notin targeted[r] /\ UNCHANGED <<estimateStatus, deposit, left>>
  BY DEF CreateTargetedRequest
<1> QED BY <1>1, <1>2, <1>3, ConstantsOK DEF CardsTellHistory, CardTypes, Capped

LEMMA SaveHistory ==
  ASSUME TypeOK, CardsTellHistory, NEW k \in Calls, Save(k)
  PROVE  CardsTellHistory'
<1> DEFINE r == call[k].request
           m == call[k].mover
<1>1. r \in Requests /\ m \in Movers
  BY CallFields DEF Save
<1>2. \A q \in Requests, n \in Movers, u \in CardTypes : cards'[q][n][u] =
        IF q = r /\ n = m /\ u = "NEW_ESTIMATE" 
        THEN Capped(cards[q][n][u] + 1) ELSE cards[q][n][u]
  <2>1. cards' = Noted(r, m, "NEW_ESTIMATE")
    BY DEF Save
  <2> HIDE DEF r, m
  <2> QED BY <1>1, <2>1, NotedAt DEF CardTypes
<1>3. \A q \in Requests, n \in Movers : estimateStatus'[q][n] =
        IF q = r /\ n = m THEN "PENDING" ELSE estimateStatus[q][n]
  BY <1>1 DEF Save, TypeOK
<1>4. estimateStatus[r][m] = "NONE" /\ UNCHANGED <<targeted, deposit, left>>
  BY DEF Save, SaveAllowed
<1>5. \A q \in Requests, n \in Movers : cards[q][n]["NEW_ESTIMATE"] \in Nat
  BY DEF TypeOK, CardTypes
<1> HIDE DEF r, m
<1> QED BY <1>1, <1>2, <1>3, <1>4, <1>5, ConstantsOK DEF CardsTellHistory, CardTypes, Capped

\* The upsert announces only the first rejection.
LEMMA RejectHistory ==
  ASSUME TypeOK, CardsTellHistory, NEW k \in Calls, Reject(k)
  PROVE  CardsTellHistory'
<1> DEFINE r == call[k].request
           m == call[k].mover
           first == estimateStatus[r][m] # "REJECTED"
<1>1. r \in Requests /\ m \in Movers
  BY CallFields DEF Reject
<1>2. \A q \in Requests, n \in Movers, u \in CardTypes : cards'[q][n][u] =
        IF first /\ q = r /\ n = m /\ u = "ESTIMATE_REJECTED"
        
        THEN Capped(cards[q][n][u] + 1) ELSE cards[q][n][u]
  <2>1. cards' = IF first THEN Noted(r, m, "ESTIMATE_REJECTED") ELSE cards
    BY DEF Reject, RejectNews
  <2> HIDE DEF r, m, first
  <2> QED BY <1>1, <2>1, NotedAt DEF CardTypes
<1>3. \A q \in Requests, n \in Movers : estimateStatus'[q][n] =
        IF q = r /\ n = m THEN "REJECTED" ELSE estimateStatus[q][n]
  BY <1>1 DEF Reject, TypeOK
<1>4. UNCHANGED <<targeted, deposit, left>>
  BY DEF Reject
<1>5. \A q \in Requests, n \in Movers : cards[q][n]["NEW_ESTIMATE"] \in Nat
  BY DEF TypeOK, CardTypes
<1> HIDE DEF r, m
<1> QED BY <1>1, <1>2, <1>3, <1>4, <1>5, ConstantsOK DEF CardsTellHistory, CardTypes, Capped

LEMMA ConfirmHistory ==
  ASSUME TypeOK, AssignmentInv, CardsTellHistory, NEW r \in Requests, NEW m \in Movers,
         Confirm(r, m)
  PROVE  CardsTellHistory'
<1>1. \A q \in Requests, n \in Movers, u \in CardTypes : cards'[q][n][u] =
        IF q = r /\ n = m /\ u = "ESTIMATE_CONFIRMED" 
        THEN Capped(cards[q][n][u] + 1) ELSE cards[q][n][u]
  BY NotedAt DEF Confirm, CardTypes
<1>2. \A q \in Requests, n \in Movers :
        /\ estimateStatus'[q][n] = IF q = r /\ n = m THEN "CONFIRMED" ELSE estimateStatus[q][n]
        /\ deposit'[q][n] = IF q = r /\ n = m THEN "DUE" ELSE deposit[q][n]
  BY DEF Confirm, TypeOK
<1>3. estimateStatus[r][m] = "PENDING" /\ deposit[r][m] = "NONE" /\ targeted' = targeted /\ left' = left
  BY DEF Confirm, ConfirmFindsBothRows, AssignmentInv, DepositMatchesStatus
<1>4. \A q \in Requests, n \in Movers : cards[q][n]["DEPOSIT_EXPIRED"] \in Nat
  BY DEF TypeOK, CardTypes
<1> QED BY <1>1, <1>2, <1>3, <1>4, ConstantsOK DEF CardsTellHistory, CardTypes, Capped

LEMMA PayDepositHistory ==
  ASSUME TypeOK, CardsTellHistory, NEW r \in Requests, NEW m \in Movers, PayDeposit(r, m)
  PROVE  CardsTellHistory'
<1>1. \A q \in Requests, n \in Movers, u \in CardTypes : cards'[q][n][u] =
        IF q = r /\ n = m /\ u = "DEPOSIT_PAID" 
        THEN Capped(cards[q][n][u] + 1) ELSE cards[q][n][u]
  BY NotedAt DEF PayDeposit, CardTypes
<1>2. \A q \in Requests, n \in Movers : deposit'[q][n] =
        IF q = r /\ n = m THEN "PAID" ELSE deposit[q][n]
  BY DEF PayDeposit, TypeOK
<1>3. deposit[r][m] = "DUE" /\ UNCHANGED <<targeted, estimateStatus, left>>
  BY DEF PayDeposit, DepositDue
<1> QED BY <1>1, <1>2, <1>3, ConstantsOK DEF CardsTellHistory, CardTypes, Capped

LEMMA ExpireDepositsHistory ==
  ASSUME TypeOK, CardsTellHistory, NEW r \in Requests, NEW m \in Movers, ExpireDeposits(r, m)
  PROVE  CardsTellHistory'
<1>1. \A q \in Requests, n \in Movers, u \in CardTypes : cards'[q][n][u] =
        IF q = r /\ n = m /\ u = "DEPOSIT_EXPIRED" 
        THEN Capped(cards[q][n][u] + 1) ELSE cards[q][n][u]
  BY NotedAt DEF ExpireDeposits, CardTypes
<1>2. \A q \in Requests, n \in Movers :
        /\ estimateStatus'[q][n] = IF q = r /\ n = m THEN "PENDING" ELSE estimateStatus[q][n]
        /\ deposit'[q][n] = IF q = r /\ n = m THEN "NONE" ELSE deposit[q][n]
  BY DEF ExpireDeposits, TypeOK
<1>3. /\ estimateStatus[r][m] = "CONFIRMED" /\ deposit[r][m] = "DUE"
      /\ targeted' = targeted /\ left' = left
  BY DEF ExpireDeposits, ExpireDepositsTarget, DepositDue
<1>4. \A q \in Requests, n \in Movers : cards[q][n]["DEPOSIT_EXPIRED"] \in Nat
  BY DEF TypeOK, CardTypes
<1> QED BY <1>1, <1>2, <1>3, <1>4, ConstantsOK DEF CardsTellHistory, CardTypes, Capped

LEMMA WriteHistory ==
  ASSUME TypeOK, CardsTellHistory, NEW r \in Requests, ExpireRequestsWrite(r)
  PROVE  CardsTellHistory'
<1>1. UNCHANGED <<targeted, deposit, cards, left>>
  BY DEF ExpireRequestsWrite
<1>2. \A q \in Requests, n \in Movers : \/ estimateStatus'[q][n] = estimateStatus[q][n]
                                        \/ /\ estimateStatus[q][n] = "CONFIRMED"
                                           /\ estimateStatus'[q][n] = "COMPLETED"
  BY DEF ExpireRequestsWrite, TypeOK
<1> QED BY <1>1, <1>2 DEF CardsTellHistory

LEMMA DeleteHistory ==
  ASSUME TypeOK, AssignmentInv, CardsTellHistory, NEW m \in Movers, DeleteMoverAccount(m)
  PROVE  CardsTellHistory'
<1>1. left' = left \cup {m}
  BY DEF DeleteMoverAccount
<1>2. \A q \in Requests, n \in Movers : n # m =>
        /\ estimateStatus'[q][n] = estimateStatus[q][n] /\ deposit'[q][n] = deposit[q][n]
        /\ \A t \in CardTypes : cards'[q][n][t] = cards[q][n][t]
        /\ n \in targeted'[q] <=> n \in targeted[q]
  BY DeleteRows DEF DeleteMoverAccount
<1> QED BY <1>1, <1>2 DEF CardsTellHistory, CardTypes

LEMMA NextHistory == TypeOK /\ AssignmentInv /\ CardsTellHistory /\ [Next]_vars => CardsTellHistory'
<1> SUFFICES ASSUME TypeOK, AssignmentInv, CardsTellHistory, [Next]_vars
             PROVE  CardsTellHistory'
  OBVIOUS
<1>1. ASSUME NEW k \in Calls, \/ \E c \in Customers : CreateCheck(k, c)
                              \/ \E r \in Requests : Create(k, r)
                              \/ \E r \in Requests, m \in Movers :
                                   SaveCheck(k, r, m) \/ RejectCheck(k, r, m)
                              \/ SaveRefused(k) \/ CallFails(k)
      PROVE  CardsTellHistory'
  BY <1>1, HistoryFrame
     DEF CreateCheck, Create, SaveCheck, RejectCheck, SaveRefused, CallFails
<1>2. ASSUME NEW r \in Requests, \/ ExpireRequestsRead(r)
                                 \/ MovingDayArrives(r) \/ MovingDayPasses(r)
                                 \/ \E m \in Movers : DepositHoursPass(r, m)
      PROVE  CardsTellHistory'
  BY <1>2, HistoryFrame
     DEF ExpireRequestsRead, MovingDayArrives, MovingDayPasses, DepositHoursPass
<1>3. CASE Restart \/ UNCHANGED vars
  BY <1>3, HistoryFrame DEF Restart, vars
<1> QED BY <1>1, <1>2, <1>3, TargetedHistory, SaveHistory, RejectHistory, ConfirmHistory,
           PayDepositHistory, ExpireDepositsHistory, WriteHistory, DeleteHistory DEF Next

\* The notifications of an estimate are exactly those its state asks for, through
\* every order of confirmations, cancellations, payments and repeated rejections.
THEOREM CardsAreTrue == Spec => []CardsTellHistory
<1>1. Init => CardsTellHistory
  BY ConstantsOK DEF Init, CardsTellHistory, CardTypes, Capped
<1> QED BY <1>1, InitTypeOK, NextTypeOK, InitAssignmentInv, NextAssignmentInv, NextHistory, PTL
        DEF Spec

-----------------------------------------------------------------------------
(* The two limits on estimates.                                            *)

LimitInv == CallsRememberTargets /\ EstimateLimits

\* Sets of movers are finite, so that their sizes are numbers.
LEMMA MoverSets ==
  \A S \in SUBSET Movers : IsFiniteSet(S) /\ Cardinality(S) \in Nat
BY ConstantsOK, FS_Subset, FS_CardinalityType

LEMMA SmallerSet ==
  ASSUME NEW S \in SUBSET Movers, NEW T \in SUBSET S
  PROVE  Cardinality(T) <= Cardinality(S)
BY MoverSets, FS_Subset

LEMMA OneMore ==
  ASSUME NEW S \in SUBSET Movers, NEW m
  PROVE  Cardinality(S \cup {m}) <= Cardinality(S) + 1
<1>1. IsFiniteSet(S) /\ Cardinality(S) \in Nat
  BY MoverSets
<1>2. Cardinality(S \cup {m}) = IF m \in S THEN Cardinality(S) ELSE Cardinality(S) + 1
  BY <1>1, FS_AddElement
<1> QED BY <1>1, <1>2

\* The bound on all estimates of a request follows from the other two.
LEMMA SumOfLimits ==
  ASSUME NEW G \in SUBSET Movers, NEW T \in SUBSET Movers, NEW E \in SUBSET (G \cup T),
         Cardinality(G) <= GeneralLimit, Cardinality(T) <= TargetLimit
  PROVE  Cardinality(E) <= GeneralLimit + TargetLimit
<1>1. Cardinality(G \cup T) = Cardinality(G) + Cardinality(T) - Cardinality(G \cap T)
  BY MoverSets, FS_Union
<1>2. G \cap T \in SUBSET Movers /\ G \cup T \in SUBSET Movers /\ E \in SUBSET Movers
  OBVIOUS
<1>3. Cardinality(E) <= Cardinality(G \cup T)
  BY <1>2, SmallerSet
<1>4. /\ Cardinality(G) \in Nat /\ Cardinality(T) \in Nat /\ Cardinality(E) \in Nat
      /\ Cardinality(G \cap T) \in Nat /\ Cardinality(G \cup T) \in Nat
  BY <1>2, MoverSets
<1> QED BY <1>1, <1>3, <1>4, ConstantsOK

\* The estimates the first limit speaks of.
Counted(r) == General(r) \ left

LEMMA LimitsTogether ==
  ASSUME TypeOK,
         \A r \in Requests : /\ Cardinality(General(r) \ left) <= GeneralLimit
                             /\ Cardinality(targeted[r]) <= TargetLimit
  PROVE  EstimateLimits
<1> SUFFICES ASSUME NEW r \in Requests
             PROVE  Cardinality({m \in Movers \ left : estimateStatus[r][m] # "NONE"})
                      <= GeneralLimit + TargetLimit
  BY DEF EstimateLimits
<1>1. General(r) \ left \in SUBSET Movers /\ targeted[r] \in SUBSET Movers
  BY DEF General, TypeOK
<1>2. {m \in Movers \ left : estimateStatus[r][m] # "NONE"}
        \in SUBSET ((General(r) \ left) \cup targeted[r])
  BY DEF General
<1> QED BY <1>1, <1>2, SumOfLimits

LEMMA LimitsTogetherNext ==
  ASSUME TypeOK',
         \A r \in Requests : /\ Cardinality(Counted(r)') <= GeneralLimit
                             /\ Cardinality(targeted'[r]) <= TargetLimit
  PROVE  EstimateLimits'
<1> SUFFICES ASSUME NEW r \in Requests
             PROVE  Cardinality({m \in Movers \ left' : estimateStatus'[r][m] # "NONE"})
                      <= GeneralLimit + TargetLimit
  BY DEF EstimateLimits, Counted
<1>1. Counted(r)' \in SUBSET Movers /\ targeted'[r] \in SUBSET Movers
  BY DEF Counted, General, TypeOK
<1>2. {m \in Movers \ left' : estimateStatus'[r][m] # "NONE"}
        \in SUBSET (Counted(r)' \cup targeted'[r])
  BY DEF Counted, General
<1> QED BY <1>1, <1>2, SumOfLimits

\* Estimates of movers that were not targeted: the step adds none.
LEMMA LimitsFrame ==
  ASSUME TypeOK, TypeOK', LimitInv, left \subseteq left',
         \A r \in Requests : targeted'[r] \subseteq targeted[r],
         \A r \in Requests, m \in Movers \ left' :
           /\ m \in targeted[r] => m \in targeted'[r]
           /\ estimateStatus'[r][m] # "NONE" => estimateStatus[r][m] # "NONE" \/ m \in targeted[r]
  PROVE  EstimateLimits'
<1> SUFFICES ASSUME NEW r \in Requests
             PROVE  Cardinality(Counted(r)') <= GeneralLimit /\ Cardinality(targeted'[r]) <= TargetLimit
  BY LimitsTogetherNext
<1>1. Counted(r)' \in SUBSET Counted(r) /\ Counted(r) \in SUBSET Movers
  BY DEF General, Counted
<1>2. Cardinality(Counted(r)') <= Cardinality(Counted(r))
  BY <1>1, SmallerSet
<1>3. Cardinality(Counted(r)') \in Nat /\ Cardinality(Counted(r)) \in Nat
  BY <1>1, MoverSets
<1>4. Cardinality(Counted(r)) <= GeneralLimit /\ Cardinality(targeted[r]) <= TargetLimit
  BY DEF LimitInv, EstimateLimits, Counted
<1>5. targeted[r] \in SUBSET Movers /\ targeted'[r] \in SUBSET targeted[r]
  BY DEF TypeOK
<1>6. /\ Cardinality(targeted'[r]) <= Cardinality(targeted[r])
      /\ Cardinality(targeted'[r]) \in Nat /\ Cardinality(targeted[r]) \in Nat
  BY <1>5, SmallerSet, MoverSets
<1> QED BY <1>2, <1>3, <1>4, <1>6, ConstantsOK

\* What a call saw of the targets stays true when the call does not change.
LEMMA RememberFrame ==
  ASSUME CallsRememberTargets,
         left \subseteq left', \A r \in Requests : targeted[r] \subseteq targeted'[r] \cup left',
         TypeOK,
         \A k \in Calls : call'[k] = call[k] \/ call'[k].op \notin {"SAVE", "REJECT"}
  PROVE  CallsRememberTargets'
BY CallFields DEF CallsRememberTargets

LEMMA NextRemember == TypeOK /\ CallsRememberTargets /\ [Next]_vars => CallsRememberTargets'
<1> SUFFICES ASSUME TypeOK, CallsRememberTargets, [Next]_vars PROVE CallsRememberTargets'
  OBVIOUS
<1>1. ASSUME NEW k \in Calls, NEW c \in Customers, CreateCheck(k, c) PROVE CallsRememberTargets'
  BY <1>1, RememberFrame DEF CreateCheck, TypeOK
<1>2. ASSUME NEW k \in Calls, targeted' = targeted, left' = left, call' = Finished(k)
      PROVE  CallsRememberTargets'
  BY <1>2, RememberFrame DEF Finished, Idle, TypeOK
<1>3. ASSUME NEW r \in Requests, NEW m \in Movers, CreateTargetedRequest(r, m)
      PROVE  CallsRememberTargets'
  BY <1>3, RememberFrame DEF CreateTargetedRequest, TypeOK
<1>4. ASSUME NEW k \in Calls, NEW r \in Requests, NEW m \in Movers,
             SaveCheck(k, r, m) \/ RejectCheck(k, r, m)
      PROVE  CallsRememberTargets'
  <2>1. targeted' = targeted /\ left' = left
    BY <1>4 DEF SaveCheck, RejectCheck
  <2>2. \/ call'[k] = [op |-> "SAVE", request |-> r, mover |-> m, isTargeted |-> m \in targeted[r]]
        \/ call'[k] = [op |-> "REJECT", request |-> r, mover |-> m] /\ m \in targeted[r]
    BY <1>4 DEF SaveCheck, RejectCheck, MayReject, TypeOK
  <2>3. \A j \in Calls : j # k => call'[j] = call[j]
    BY <1>4 DEF SaveCheck, RejectCheck, TypeOK
  <2>4. ASSUME call'[k].op = "REJECT" \/ (call'[k].op = "SAVE" /\ call'[k].isTargeted)
        PROVE  call'[k].mover = m /\ call'[k].request = r /\ m \in targeted[r]
    <3>1. CASE call'[k] = [op |-> "REJECT", request |-> r, mover |-> m] /\ m \in targeted[r]
      BY <3>1
    <3>2. CASE call'[k] = [op |-> "SAVE", request |-> r, mover |-> m,
                           isTargeted |-> m \in targeted[r]]
      <4>1. call'[k].isTargeted = (m \in targeted[r]) /\ call'[k].op = "SAVE"
        BY <3>2
      <4>2. call'[k].mover = m /\ call'[k].request = r
        BY <3>2
      <4>3. m \in targeted[r]
        BY <2>4, <4>1, Zenon
      <4> QED BY <4>2, <4>3
    <3> QED BY <2>2, <3>1, <3>2
  <2> QED BY <2>1, <2>3, <2>4 DEF CallsRememberTargets
<1>5. CASE UNCHANGED <<targeted, call, left>>
  BY <1>5 DEF CallsRememberTargets
<1>6. CASE Restart
  BY <1>6, RememberFrame DEF Restart, Idle
<1>7. ASSUME NEW m \in Movers, DeleteMoverAccount(m) PROVE CallsRememberTargets'
  <2>1. /\ call' = call /\ left' = left \cup {m}
        /\ \A r \in Requests : targeted'[r] = targeted[r] \ {m}
    BY <1>7 DEF DeleteMoverAccount
  <2> QED BY <2>1, RememberFrame
<1> QED BY <1>1, <1>2, <1>3, <1>4, <1>5, <1>6, <1>7
        DEF Next, vars, Create, Save, SaveRefused, Reject, Confirm, PayDeposit, ExpireDeposits,
            ExpireRequestsRead, ExpireRequestsWrite, MovingDayArrives, MovingDayPasses,
            DepositHoursPass, CallFails

LEMMA TargetedLimits ==
  ASSUME TypeOK, TypeOK', LimitInv, NEW r \in Requests, NEW m \in Movers,
         CreateTargetedRequest(r, m)
  PROVE  EstimateLimits'
<1> SUFFICES ASSUME NEW q \in Requests
             PROVE  Cardinality(Counted(q)') <= GeneralLimit /\ Cardinality(targeted'[q]) <= TargetLimit
  BY LimitsTogetherNext
<1>1. targeted'[q] = IF q = r THEN targeted[q] \cup {m} ELSE targeted[q]
  BY DEF CreateTargetedRequest, TypeOK
<1>2. targeted[q] \in SUBSET Movers /\ Counted(q) \in SUBSET Movers
  BY DEF TypeOK, Counted, General
<1>3. Counted(q)' \in SUBSET Counted(q)
  BY <1>1 DEF Counted, General, CreateTargetedRequest
<1>4. Cardinality(Counted(q)') <= Cardinality(Counted(q))
  BY <1>2, <1>3, SmallerSet
<1>5. /\ Cardinality(Counted(q)') \in Nat /\ Cardinality(Counted(q)) \in Nat
      /\ IsFiniteSet(targeted[q]) /\ Cardinality(targeted[q]) \in Nat
  BY <1>2, <1>3, MoverSets
<1>6. /\ Cardinality(Counted(q)) <= GeneralLimit
      /\ Cardinality(targeted[q]) <= TargetLimit
      /\ q = r => ~(Cardinality(targeted[q]) >= TargetLimit)
  BY DEF LimitInv, EstimateLimits, Counted, CreateTargetedRequest, TargetLimitReached
<1>7. Cardinality(targeted'[q]) <= TargetLimit
  <2>1. CASE q = r
    <3>1. Cardinality(targeted[q] \cup {m}) <= Cardinality(targeted[q]) + 1
      BY <1>2, OneMore
    <3>2. Cardinality(targeted[q] \cup {m}) \in Nat
      BY <1>2, MoverSets
    <3> QED BY <1>1, <1>5, <1>6, <2>1, <3>1, <3>2, ConstantsOK
  <2> QED BY <1>1, <1>6, <2>1
<1> QED BY <1>4, <1>5, <1>6, <1>7, ConstantsOK

\* A mover that was targeted when the call was checked still is, or has left; any
\* other one is counted in the transaction that adds the estimate.
LEMMA SaveLimits ==
  ASSUME TypeOK, TypeOK', LimitInv, NEW k \in Calls, Save(k)
  PROVE  EstimateLimits'
<1> DEFINE r == call[k].request
           m == call[k].mover
<1>1. r \in Requests /\ m \in Movers
  BY CallFields DEF Save
<1>2. \A q \in Requests, n \in Movers : estimateStatus'[q][n] =
        IF q = r /\ n = m THEN "PENDING" ELSE estimateStatus[q][n]
  BY <1>1 DEF Save, TypeOK
<1>3. /\ targeted' = targeted /\ left' = left
      /\ m \in targeted[r] \cup left \/ ~GeneralLimitReached(r)
  BY DEF Save, SaveAllowed, LimitInv, CallsRememberTargets
<1> HIDE DEF r, m
<1>4. CASE m \in targeted[r] \cup left
  BY <1>2, <1>3, <1>4, LimitsFrame
<1>5. CASE ~GeneralLimitReached(r)
  <2> SUFFICES ASSUME NEW q \in Requests
               PROVE  /\ Cardinality(Counted(q)') <= GeneralLimit
                      /\ Cardinality(targeted'[q]) <= TargetLimit
    BY LimitsTogetherNext
  <2>1. Counted(q)' \in SUBSET (IF q = r THEN Counted(q) \cup {m} ELSE Counted(q))
    BY <1>2, <1>3 DEF Counted, General
  <2>2. Counted(q) \in SUBSET Movers /\ Counted(q) \cup {m} \in SUBSET Movers
    BY <1>1 DEF Counted, General
  <2>3. /\ IsFiniteSet(Counted(q)) /\ Cardinality(Counted(q)) \in Nat
        /\ Cardinality(Counted(q)') \in Nat /\ Cardinality(Counted(q) \cup {m}) \in Nat
    BY <2>1, <2>2, MoverSets
  <2>4. Cardinality(Counted(q) \cup {m}) <= Cardinality(Counted(q)) + 1
    BY <2>2, OneMore
  <2>5. Cardinality(Counted(q)) <= GeneralLimit /\ Cardinality(targeted[q]) <= TargetLimit
    BY DEF LimitInv, EstimateLimits, Counted
  <2>6. q = r => ~(Cardinality(Counted(q)) >= GeneralLimit)
    <3>1. Counted(r) \in SUBSET General(r) /\ General(r) \in SUBSET Movers
      BY DEF Counted, General
    <3>2. Cardinality(Counted(r)) <= Cardinality(General(r))
      BY <3>1, SmallerSet
    <3>3. Cardinality(Counted(r)) \in Nat /\ Cardinality(General(r)) \in Nat
      BY <3>1, MoverSets
    <3> QED BY <1>5, <3>2, <3>3, ConstantsOK DEF GeneralLimitReached
  <2>7. CASE q = r
    <3>1. Cardinality(Counted(q)') <= Cardinality(Counted(q) \cup {m})
      BY <2>1, <2>2, <2>7, SmallerSet
    <3> QED BY <1>3, <2>3, <2>4, <2>5, <2>6, <2>7, <3>1, ConstantsOK
  <2>8. CASE q # r
    <3>1. Cardinality(Counted(q)') <= Cardinality(Counted(q))
      BY <2>1, <2>2, <2>8, SmallerSet
    <3> QED BY <1>3, <2>3, <2>5, <3>1, ConstantsOK
  <2> QED BY <2>7, <2>8
<1> QED BY <1>3, <1>4, <1>5

LEMMA NextLimits == TypeOK /\ TypeOK' /\ LimitInv /\ [Next]_vars => EstimateLimits'
<1> SUFFICES ASSUME TypeOK, TypeOK', LimitInv, [Next]_vars PROVE EstimateLimits'
  OBVIOUS
<1>1. CASE UNCHANGED <<targeted, estimateStatus, left>>
  BY <1>1, LimitsFrame
<1>2. ASSUME NEW k \in Calls, Reject(k) PROVE EstimateLimits'
  <2>1. call[k].request \in Requests /\ call[k].mover \in targeted[call[k].request] \cup left
    BY <1>2, CallFields DEF Reject, LimitInv, CallsRememberTargets
  <2>2. \A r \in Requests, m \in Movers :
          estimateStatus'[r][m] # "NONE" =>
            estimateStatus[r][m] # "NONE" \/ m \in targeted[r] \cup left
    BY <1>2, <2>1 DEF Reject, TypeOK
  <2>3. targeted' = targeted /\ left' = left
    BY <1>2 DEF Reject
  <2> QED BY <2>2, <2>3, LimitsFrame
<1>3. ASSUME NEW r \in Requests, NEW m \in Movers, Confirm(r, m) \/ ExpireDeposits(r, m)
      PROVE  EstimateLimits'
  <2>1. estimateStatus[r][m] # "NONE" /\ targeted' = targeted /\ left' = left
    BY <1>3 DEF Confirm, ConfirmFindsBothRows, ExpireDeposits, ExpireDepositsTarget, DepositDue
  <2>2. \A q \in Requests, n \in Movers :
          estimateStatus'[q][n] # "NONE" => estimateStatus[q][n] # "NONE"
    <3>1. \A q \in Requests, n \in Movers :
            estimateStatus'[q][n] = estimateStatus[q][n] \/ (q = r /\ n = m)
      BY <1>3 DEF Confirm, ExpireDeposits, TypeOK
    <3> QED BY <2>1, <3>1
  <2> QED BY <2>1, <2>2, LimitsFrame
<1>4. ASSUME NEW r \in Requests, ExpireRequestsWrite(r) PROVE EstimateLimits'
  <2>1. targeted' = targeted /\ left' = left
    BY <1>4 DEF ExpireRequestsWrite
  <2>2. \A q \in Requests, n \in Movers :
          estimateStatus'[q][n] # "NONE" => estimateStatus[q][n] # "NONE"
    BY <1>4 DEF ExpireRequestsWrite, TypeOK
  <2> QED BY <2>1, <2>2, LimitsFrame
<1>5. ASSUME NEW m \in Movers, DeleteMoverAccount(m) PROVE EstimateLimits'
  <2>1. left' = left \cup {m} /\ \A q \in Requests : targeted'[q] = targeted[q] \ {m}
    BY <1>5 DEF DeleteMoverAccount
  <2>2. \A q \in Requests, n \in Movers \ left' : estimateStatus'[q][n] = estimateStatus[q][n]
    BY <1>5, <2>1 DEF DeleteMoverAccount, TypeOK
  <2> QED BY <2>1, <2>2, LimitsFrame
<1> QED BY <1>1, <1>2, <1>3, <1>4, <1>5, TargetedLimits, SaveLimits
        DEF Next, vars, CreateCheck, Create, SaveCheck, RejectCheck, SaveRefused, CallFails,
            PayDeposit, ExpireRequestsRead, MovingDayArrives, MovingDayPasses,
            DepositHoursPass, Restart

LEMMA InitLimits == Init => LimitInv
<1> SUFFICES ASSUME Init PROVE LimitInv
  OBVIOUS
<1>1. CallsRememberTargets
  BY DEF Init, CallsRememberTargets, Idle
<1>2. \A r \in Requests : targeted[r] = {}
  BY DEF Init
<1>3. ASSUME NEW r \in Requests
      PROVE  Cardinality(General(r) \ left) <= GeneralLimit
  <2>0. General(r) \ left = General(r)
    BY DEF Init
  <2>1. General(r) = {m \in Movers : <<r, m>> \in Legacy}
    BY <1>2 DEF General, Init
  <2>2. CASE General(r) = {}
    BY <2>0, <2>2, FS_EmptySet, ConstantsOK
  <2>3. CASE General(r) # {}
    <3>1. PICK m \in General(r) : TRUE
      BY <2>3
    <3>2. General(r) = {m}
      BY <2>1, <3>1, ConstantsOK
    <3>3. Cardinality(General(r)) = 1
      BY <3>2, FS_Singleton
    <3> QED BY <2>0, <3>3, ConstantsOK
  <2> QED BY <2>2, <2>3
<1>4. \A r \in Requests : Cardinality(targeted[r]) <= TargetLimit
  <2>1. Cardinality({}) = 0
    BY FS_EmptySet
  <2> QED BY <1>2, <2>1, ConstantsOK
<1>5. EstimateLimits
  BY <1>3, <1>4, InitTypeOK, LimitsTogether
<1> QED BY <1>1, <1>5 DEF LimitInv

\* A request never gets more estimates than the two limits allow, although the
\* exemption of a targeted mover is decided before the transaction that counts.
THEOREM LimitsHold == Spec => []EstimateLimits
<1>1. Init => TypeOK /\ LimitInv
  BY InitTypeOK, InitLimits
<1>2. TypeOK /\ LimitInv /\ [Next]_vars => (TypeOK /\ LimitInv)'
  BY NextTypeOK, NextRemember, NextLimits DEF LimitInv
<1>3. LimitInv => EstimateLimits
  BY DEF LimitInv
<1> QED BY <1>1, <1>2, <1>3, PTL DEF Spec

-----------------------------------------------------------------------------
(* Who holds a request, before and after a step.                           *)

LEMMA ConfirmHolds ==
  ASSUME TypeOK, AssignmentInv, NEW r \in Requests, NEW m \in Movers, Confirm(r, m)
  PROVE  /\ \A n \in Movers : ~Holds(r, n)
         /\ \A q \in Requests, n \in Movers : Holds(q, n)' <=> Holds(q, n) \/ (q = r /\ n = m)
<1>1. \A n \in Movers : ~Holds(r, n)
  BY PendingHasNoHolder DEF Confirm, ConfirmFindsBothRows
<1>2. \A q \in Requests, n \in Movers :
        /\ estimateStatus'[q][n] = IF q = r /\ n = m THEN "CONFIRMED" ELSE estimateStatus[q][n]
        /\ deposit'[q][n] = IF q = r /\ n = m THEN "DUE" ELSE deposit[q][n]
  BY DEF Confirm, TypeOK
<1>3. erased' = erased
  BY DEF Confirm
<1> QED BY <1>1, <1>2, <1>3 DEF Holds

LEMMA ExpireHolds ==
  ASSUME TypeOK, AssignmentInv, NEW r \in Requests, NEW m \in Movers, ExpireDeposits(r, m)
  PROVE  /\ Holds(r, m)
         /\ \A q \in Requests, n \in Movers : Holds(q, n)' <=> Holds(q, n) /\ ~(q = r /\ n = m)
<1>1. Holds(r, m)
  BY DEF ExpireDeposits, ExpireDepositsTarget, DepositDue, Holds
<1>2. \A q \in Requests, n \in Movers :
        /\ estimateStatus'[q][n] = IF q = r /\ n = m THEN "PENDING" ELSE estimateStatus[q][n]
        /\ deposit'[q][n] = IF q = r /\ n = m THEN "NONE" ELSE deposit[q][n]
  BY DEF ExpireDeposits, TypeOK
<1>3. erased' = erased /\ erased[r][m] = "NONE"
  BY DEF ExpireDeposits, ExpireDepositsTarget, DepositDue, AssignmentInv, ErasedForGood
<1> QED BY <1>1, <1>2, <1>3 DEF Holds

HoldersKept == \A q \in Requests, n \in Movers : Holds(q, n)' = Holds(q, n)

LEMMA SaveHolds ==
  ASSUME TypeOK, AssignmentInv, NEW k \in Calls, Save(k)
  PROVE  HoldersKept
<1> DEFINE r == call[k].request
           m == call[k].mover
<1>1. r \in Requests /\ m \in Movers
  BY CallFields DEF Save
<1>2. \A q \in Requests, n \in Movers : estimateStatus'[q][n] =
        IF q = r /\ n = m THEN "PENDING" ELSE estimateStatus[q][n]
  BY <1>1 DEF Save, TypeOK
<1>3. estimateStatus[r][m] = "NONE" /\ deposit' = deposit /\ erased' = erased
  BY DEF Save, SaveAllowed
<1> HIDE DEF r, m
<1> QED BY <1>2, <1>3 DEF Holds, HoldersKept

LEMMA RejectHolds ==
  ASSUME TypeOK, AssignmentInv, NEW k \in Calls, Reject(k)
  PROVE  HoldersKept
<1> DEFINE r == call[k].request
           m == call[k].mover
<1>1. r \in Requests /\ m \in Movers
  BY CallFields DEF Reject
<1>2. ~IsLegacy(r) /\ deposit' = deposit /\ erased' = erased
  BY DEF Reject, AssignmentInv, LegacyIsKept
<1>3. \A q \in Requests, n \in Movers : estimateStatus'[q][n] =
        IF q = r /\ n = m THEN "REJECTED" ELSE estimateStatus[q][n]
  BY <1>1 DEF Reject, TypeOK
<1> QED BY <1>1, <1>2, <1>3
        DEF Holds, HoldersKept, AssignmentInv, DepositMatchesStatus, IsLegacy

LEMMA PayDepositHolds ==
  ASSUME TypeOK, NEW r \in Requests, NEW m \in Movers, PayDeposit(r, m)
  PROVE  HoldersKept
<1>1. \A q \in Requests, n \in Movers :
        deposit'[q][n] = IF q = r /\ n = m THEN "PAID" ELSE deposit[q][n]
  BY DEF PayDeposit, TypeOK
<1> QED BY <1>1 DEF Holds, HoldersKept, PayDeposit, DepositDue

LEMMA WriteHolds ==
  ASSUME TypeOK, NEW r \in Requests, ExpireRequestsWrite(r)
  PROVE  HoldersKept
<1>1. \A q \in Requests, n \in Movers : \/ estimateStatus'[q][n] = estimateStatus[q][n]
                                        \/ /\ estimateStatus[q][n] = "CONFIRMED"
                                           /\ estimateStatus'[q][n] = "COMPLETED"
  BY DEF ExpireRequestsWrite, TypeOK
<1> QED BY <1>1 DEF Holds, HoldersKept, ExpireRequestsWrite

-----------------------------------------------------------------------------
(* The number of moves a mover holds.                                      *)

Held(m) == {r \in Requests : Holds(r, m)}

LEMMA HeldIsFinite == \A S \in SUBSET Requests : IsFiniteSet(S) /\ Cardinality(S) \in Nat
BY ConstantsOK, FS_Subset, FS_CardinalityType

LEMMA CountFrame ==
  ASSUME ConfirmedCountIsExact, HoldersKept, confirmedCount' = confirmedCount,
         left \subseteq left'
  PROVE  ConfirmedCountIsExact'
<1> SUFFICES ASSUME NEW m \in Movers \ left'
             PROVE  confirmedCount'[m] = Cardinality(Held(m)')
  BY DEF ConfirmedCountIsExact, Held
<1>1. Held(m)' = Held(m)
  BY DEF Held, HoldersKept
<1> QED BY <1>1 DEF ConfirmedCountIsExact, Held

LEMMA ConfirmCount ==
  ASSUME TypeOK, AssignmentInv, ConfirmedCountIsExact, NEW r \in Requests, NEW m \in Movers,
         Confirm(r, m)
  PROVE  ConfirmedCountIsExact'
<1> SUFFICES ASSUME NEW n \in Movers \ left
             PROVE  confirmedCount'[n] = Cardinality(Held(n)')
  BY DEF ConfirmedCountIsExact, Held, Confirm
<1>1. confirmedCount[n] = Cardinality(Held(n))
  BY DEF ConfirmedCountIsExact, Held
<1>2. confirmedCount'[n] = IF n = m THEN confirmedCount[n] + 1 ELSE confirmedCount[n]
  BY DEF Confirm, TypeOK
<1>3. CASE n = m
  <2>1. Held(n)' = Held(n) \cup {r} /\ r \notin Held(n)
    BY <1>3, ConfirmHolds DEF Held
  <2>2. IsFiniteSet(Held(n))
    BY HeldIsFinite DEF Held
  <2>3. Cardinality(Held(n) \cup {r}) = Cardinality(Held(n)) + 1
    BY <2>1, <2>2, FS_AddElement
  <2> QED BY <1>1, <1>2, <1>3, <2>1, <2>3
<1>4. CASE n # m
  <2>1. Held(n)' = Held(n)
    BY <1>4, ConfirmHolds DEF Held
  <2> QED BY <1>1, <1>2, <1>4, <2>1
<1> QED BY <1>3, <1>4

LEMMA ExpireCount ==
  ASSUME TypeOK, AssignmentInv, ConfirmedCountIsExact, NEW r \in Requests, NEW m \in Movers,
         ExpireDeposits(r, m)
  PROVE  ConfirmedCountIsExact'
<1> SUFFICES ASSUME NEW n \in Movers \ left
             PROVE  confirmedCount'[n] = Cardinality(Held(n)')
  BY DEF ConfirmedCountIsExact, Held, ExpireDeposits
<1>1. confirmedCount[n] = Cardinality(Held(n))
  BY DEF ConfirmedCountIsExact, Held
<1>2. confirmedCount'[n] = IF n = m THEN confirmedCount[n] - 1 ELSE confirmedCount[n]
  BY DEF ExpireDeposits, TakenBack, TypeOK
<1>3. CASE n = m
  <2>1. Held(n)' = Held(n) \ {r} /\ r \in Held(n)
    BY <1>3, ExpireHolds DEF Held
  <2>2. IsFiniteSet(Held(n))
    BY HeldIsFinite DEF Held
  <2>3. Cardinality(Held(n) \ {r}) = Cardinality(Held(n)) - 1
    BY <2>1, <2>2, FS_RemoveElement
  <2> QED BY <1>1, <1>2, <1>3, <2>1, <2>3
<1>4. CASE n # m
  <2>1. Held(n)' = Held(n)
    BY <1>4, ExpireHolds DEF Held
  <2> QED BY <1>1, <1>2, <1>4, <2>1
<1> QED BY <1>3, <1>4

LEMMA NextCount ==
  TypeOK /\ AssignmentInv /\ ConfirmedCountIsExact /\ [Next]_vars => ConfirmedCountIsExact'
<1> SUFFICES ASSUME TypeOK, AssignmentInv, ConfirmedCountIsExact, [Next]_vars
             PROVE  ConfirmedCountIsExact'
  OBVIOUS
<1>1. CASE UNCHANGED <<estimateStatus, deposit, confirmedCount, left, erased>>
  BY <1>1, CountFrame DEF HoldersKept, Holds
<1>2. ASSUME NEW k \in Calls, Save(k) \/ Reject(k) PROVE ConfirmedCountIsExact'
  BY <1>2, SaveHolds, RejectHolds, CountFrame DEF Save, Reject
<1>3. ASSUME NEW r \in Requests,
             ExpireRequestsWrite(r) \/ \E m \in Movers : PayDeposit(r, m)
      PROVE  ConfirmedCountIsExact'
  BY <1>3, PayDepositHolds, WriteHolds, CountFrame DEF PayDeposit, ExpireRequestsWrite
<1>4. ASSUME NEW m \in Movers, DeleteMoverAccount(m) PROVE ConfirmedCountIsExact'
  <2>1. HoldersKept
    BY <1>4, DeleteHolds DEF HoldersKept
  <2> QED BY <1>4, <2>1, CountFrame DEF DeleteMoverAccount
<1> QED BY <1>1, <1>2, <1>3, <1>4, ConfirmCount, ExpireCount
        DEF Next, vars, CreateCheck, Create, CreateTargetedRequest, SaveCheck, SaveRefused,
            RejectCheck, ExpireRequestsRead, MovingDayArrives, MovingDayPasses,
            DepositHoursPass, CallFails, Restart

\* confirmed_count is the number of moves the mover holds, over every confirmation
\* and every cancellation.
THEOREM CountIsExact == Spec => []ConfirmedCountIsExact
<1>1. Init => ConfirmedCountIsExact
  <2> SUFFICES ASSUME Init, NEW m \in Movers
               PROVE  confirmedCount[m] = Cardinality({r \in Requests : Holds(r, m)})
    BY DEF ConfirmedCountIsExact
  <2>1. \A r \in Requests : Holds(r, m) <=> <<r, m>> \in Legacy
    BY DEF Init, Holds
  <2>2. {r \in Requests : Holds(r, m)} = {r \in Requests : <<r, m>> \in Legacy}
    BY <2>1
  <2> QED BY <2>2 DEF Init
<1> QED BY <1>1, InitTypeOK, NextTypeOK, InitAssignmentInv, NextAssignmentInv, NextCount, PTL
        DEF Spec

-----------------------------------------------------------------------------
(* MoveLifecycle implements MoveAssignment.                                *)

\* What the abstract specification sees of a state.
AbsPhase  == [r \in Requests |-> PhaseOf(requestStatus[r])]
AbsHolder == [r \in Requests |-> HolderOf(r)]
AbsPaid   == {r \in Requests : \E m \in Movers : PaidOnce(r, m)}

LEMMA HolderIs ==
  ASSUME NEW r \in Requests
  PROVE  /\ (\E m \in Movers : Holds(r, m)) => HolderOf(r) \in Movers /\ Holds(r, HolderOf(r))
         /\ ~(\E m \in Movers : Holds(r, m)) => HolderOf(r) = NoMover
<1>1. CASE \E m \in Movers : Holds(r, m)
  <2>1. HolderOf(r) = CHOOSE m \in Movers : Holds(r, m)
    BY <1>1 DEF HolderOf
  <2> QED BY <1>1, <2>1
<1>2. CASE ~(\E m \in Movers : Holds(r, m))
  BY <1>2 DEF HolderOf
<1> QED BY <1>1, <1>2

LEMMA HolderIsNext ==
  ASSUME NEW r \in Requests
  PROVE  /\ (\E m \in Movers : Holds(r, m)') =>
              \E m \in Movers : HolderOf(r)' = m /\ Holds(r, m)'
         /\ ~(\E m \in Movers : Holds(r, m)') => HolderOf(r)' = NoMover
<1>1. CASE \E m \in Movers : Holds(r, m)'
  <2>1. HolderOf(r)' = CHOOSE m \in Movers : Holds(r, m)'
    BY <1>1 DEF HolderOf
  <2> QED BY <1>1, <2>1
<1>2. CASE ~(\E m \in Movers : Holds(r, m)')
  BY <1>2 DEF HolderOf
<1> QED BY <1>1, <1>2

\* A request whose holders stay keeps its abstract holder.
LEMMA SameHolder ==
  ASSUME AtMostOneHolder, NEW r \in Requests, \A m \in Movers : Holds(r, m)' = Holds(r, m)
  PROVE  HolderOf(r)' = HolderOf(r)
BY HolderIs, HolderIsNext DEF AtMostOneHolder

\* A step that neither changes a status, a holder nor a paid deposit.
LEMMA Stutters ==
  ASSUME AtMostOneHolder, HoldersKept, UNCHANGED requestStatus, AbsPaid' = AbsPaid
  PROVE  UNCHANGED <<AbsPhase, AbsHolder, AbsPaid>>
<1>1. AbsHolder' = AbsHolder
  BY SameHolder DEF AbsHolder, HoldersKept
<1>2. AbsPhase' = AbsPhase
  BY DEF AbsPhase
<1> QED BY <1>1, <1>2

\* The phase of the request whose status changes.
LEMMA PhaseStep ==
  ASSUME TypeOK, NEW r \in Requests, NEW s \in RequestStatuses,
         requestStatus' = [requestStatus EXCEPT ![r] = s]
  PROVE  AbsPhase' = [AbsPhase EXCEPT ![r] = PhaseOf(s)]
BY DEF AbsPhase, TypeOK

LEMMA PhaseAt ==
  ASSUME TypeOK, NEW r \in Requests
  PROVE  /\ requestStatus[r] = "NONE" => AbsPhase[r] = "NONE"
         /\ requestStatus[r] = "PENDING" => AbsPhase[r] = "OPEN"
         /\ requestStatus[r] = "ASSIGNED" => AbsPhase[r] = "HELD"
         /\ requestStatus[r] = "COMPLETED" => AbsPhase[r] = "DONE"
         /\ requestStatus[r] = "EXPIRED" => AbsPhase[r] = "LAPSED"
BY DEF AbsPhase, PhaseOf

LEMMA PhaseValues ==
  /\ PhaseOf("PENDING") = "OPEN" /\ PhaseOf("ASSIGNED") = "HELD"
  /\ PhaseOf("COMPLETED") = "DONE" /\ PhaseOf("EXPIRED") = "LAPSED"
BY DEF PhaseOf

AbsStep == Assignment!Next \/ UNCHANGED <<AbsPhase, AbsHolder, AbsPaid>>

LEMMA CreateMaps ==
  ASSUME TypeOK, AssignmentInv, NEW k \in Calls, NEW r \in Requests, Create(k, r)
  PROVE  Assignment!Open(r)
<1>1. AbsPhase[r] = "NONE"
  BY PhaseAt DEF Create
<1>2. AbsPhase' = [AbsPhase EXCEPT ![r] = "OPEN"]
  BY PhaseStep, PhaseValues DEF Create, RequestStatuses
<1>3. AbsHolder' = AbsHolder
  BY SameHolder DEF AbsHolder, Holds, Create, AssignmentInv
<1>4. AbsPaid' = AbsPaid
  BY DEF AbsPaid, PaidOnce, Create
<1> QED BY <1>1, <1>2, <1>3, <1>4 DEF Assignment!Open, AbsPhase, AbsHolder, AbsPaid, PaidOnce

LEMMA ConfirmMaps ==
  ASSUME TypeOK, AssignmentInv, AssignmentInv', NEW r \in Requests, NEW m \in Movers,
         Confirm(r, m)
  PROVE  Assignment!Assign(r, m)
<1>1. AbsPhase[r] = "OPEN"
  BY PhaseAt DEF Confirm, ConfirmFindsBothRows
<1>2. AbsPhase' = [AbsPhase EXCEPT ![r] = "HELD"]
  BY PhaseStep, PhaseValues DEF Confirm, RequestStatuses
<1>3. HolderOf(r)' = m
  BY ConfirmHolds, HolderIsNext
<1>4. \A q \in Requests : q # r => HolderOf(q)' = HolderOf(q)
  <2> SUFFICES ASSUME NEW q \in Requests, q # r PROVE HolderOf(q)' = HolderOf(q)
    OBVIOUS
  <2>1. \A n \in Movers : Holds(q, n)' = Holds(q, n)
    BY ConfirmHolds DEF Holds
  <2> QED BY <2>1, SameHolder DEF AssignmentInv
<1>5. AbsHolder' = [AbsHolder EXCEPT ![r] = m]
  BY <1>3, <1>4 DEF AbsHolder
<1>6. AbsPaid' = AbsPaid
  <2>1. \A q \in Requests, n \in Movers : deposit'[q][n] = "PAID" <=> deposit[q][n] = "PAID"
    <3>1. deposit[r][m] # "PAID"
      BY ConfirmHolds DEF Holds
    <3> QED BY <3>1 DEF Confirm, TypeOK
  <2> QED BY <2>1 DEF AbsPaid, PaidOnce, Confirm
<1> QED BY <1>1, <1>2, <1>5, <1>6 DEF Assignment!Assign, AbsPhase, AbsHolder, AbsPaid, PaidOnce

\* An unpaid deposit is the only one of its request, which is ASSIGNED and is
\* none of those from before deposits.
LEMMA DueIsUnpaid ==
  ASSUME TypeOK, AssignmentInv, NEW r \in Requests, NEW m \in Movers, DepositDue(r, m)
  PROVE  /\ requestStatus[r] = "ASSIGNED"
         /\ \A n \in Movers : Holds(r, n) <=> n = m
         /\ r \notin AbsPaid
         /\ ~IsLegacy(r)
<1>1. requestStatus[r] = "ASSIGNED"
  BY DEF DepositDue, AssignmentInv, DepositMatchesStatus
<1>2. \A n \in Movers : Holds(r, n) <=> n = m
  BY DEF DepositDue, AssignmentInv, AtMostOneHolder, Holds
<1>3. \A n \in Movers : PaidOnce(r, n) => n = m
  BY <1>2 DEF Holds, PaidOnce
<1>4. deposit[r][m] = "DUE" /\ ~PaidOnce(r, m)
  BY DEF DepositDue, PaidOnce, AssignmentInv, ErasedForGood
<1>5. r \notin AbsPaid
  BY <1>3, <1>4 DEF AbsPaid, PaidOnce
<1>6. ~IsLegacy(r)
  <2> SUFFICES ASSUME NEW n \in Movers, <<r, n>> \in Legacy PROVE FALSE
    BY DEF IsLegacy
  <2>1. Holds(r, n) /\ deposit[r][n] = "NONE"
    BY DEF AssignmentInv, LegacyIsKept, Holds
  <2> QED BY <1>2, <1>4, <2>1
<1> QED BY <1>1, <1>2, <1>5, <1>6

LEMMA PayDepositMaps ==
  ASSUME TypeOK, AssignmentInv, NEW r \in Requests, NEW m \in Movers, PayDeposit(r, m)
  PROVE  Assignment!Pay(r)
<1>1. /\ requestStatus[r] = "ASSIGNED" /\ r \notin AbsPaid
      /\ r \notin {q \in Requests : IsLegacy(q)}
  BY DueIsUnpaid DEF PayDeposit
<1>2. AbsPhase[r] = "HELD"
  BY <1>1, PhaseAt
<1>3. AbsPhase' = AbsPhase
  BY DEF AbsPhase, PayDeposit
<1>4. AbsHolder' = AbsHolder
  BY PayDepositHolds, SameHolder DEF AbsHolder, HoldersKept, AssignmentInv
<1>5. AbsPaid' = AbsPaid \cup {r}
  <2>1. \A q \in Requests, n \in Movers :
          deposit'[q][n] = "PAID" <=> deposit[q][n] = "PAID" \/ (q = r /\ n = m)
    BY DEF PayDeposit, TypeOK
  <2> QED BY <2>1 DEF AbsPaid, PaidOnce, PayDeposit
<1> QED BY <1>1, <1>2, <1>3, <1>4, <1>5 DEF Assignment!Pay, AbsPhase, AbsHolder, AbsPaid, PaidOnce

LEMMA ExpireDepositsMaps ==
  ASSUME TypeOK, AssignmentInv, NEW r \in Requests, NEW m \in Movers, ExpireDeposits(r, m)
  PROVE  Assignment!Release(r)
<1>1. /\ requestStatus[r] = "ASSIGNED" /\ r \notin AbsPaid
      /\ r \notin {q \in Requests : IsLegacy(q)}
      /\ \A n \in Movers : Holds(r, n) <=> n = m
  BY DueIsUnpaid DEF ExpireDeposits, ExpireDepositsTarget
<1>2. AbsPhase[r] = "HELD"
  BY <1>1, PhaseAt
<1>3. AbsPhase' = [AbsPhase EXCEPT ![r] = "OPEN"]
  <2>1. requestStatus' = [requestStatus EXCEPT ![r] = "PENDING"]
    BY <1>1 DEF ExpireDeposits, TypeOK
  <2> QED BY <2>1, PhaseStep, PhaseValues DEF RequestStatuses
<1>4. HolderOf(r)' = NoMover
  BY <1>1, ExpireHolds, HolderIsNext
<1>5. \A q \in Requests : q # r => HolderOf(q)' = HolderOf(q)
  <2> SUFFICES ASSUME NEW q \in Requests, q # r PROVE HolderOf(q)' = HolderOf(q)
    OBVIOUS
  <2>1. \A n \in Movers : Holds(q, n)' = Holds(q, n)
    BY ExpireHolds DEF Holds
  <2> QED BY <2>1, SameHolder DEF AssignmentInv
<1>6. AbsHolder' = [AbsHolder EXCEPT ![r] = NoMover]
  BY <1>4, <1>5 DEF AbsHolder
<1>7. AbsPaid' = AbsPaid
  <2>1. \A q \in Requests, n \in Movers : deposit'[q][n] = "PAID" <=> deposit[q][n] = "PAID"
    BY DEF ExpireDeposits, ExpireDepositsTarget, DepositDue, TypeOK
  <2>2. erased' = erased
    BY DEF ExpireDeposits
  <2> QED BY <2>1, <2>2 DEF AbsPaid, PaidOnce
<1> QED BY <1>1, <1>2, <1>3, <1>6, <1>7 DEF Assignment!Release, AbsPhase, AbsHolder, AbsPaid, PaidOnce

\* The second half of expireRequests finishes what is settled, lets lapse what is
\* open, and else leaves the request as it is.
LEMMA WriteMaps ==
  ASSUME TypeOK, AssignmentInv, NEW r \in Requests, ExpireRequestsWrite(r)
  PROVE  AbsStep
<1> DEFINE f == job.found
           s == ExpireRequestsClosing(requestStatus[r], f)
<1>1. /\ job.request = r /\ f \in Movers \cup {NoMover}
      /\ deposit' = deposit /\ erased' = erased
      /\ requestStatus' = [requestStatus EXCEPT ![r] = s]
  BY DEF ExpireRequestsWrite, TypeOK
<1>2. AbsHolder' = AbsHolder /\ AbsPaid' = AbsPaid
  BY <1>1, WriteHolds, SameHolder DEF AbsHolder, AbsPaid, PaidOnce, HoldersKept, AssignmentInv
<1>3. CASE f \in Movers /\ requestStatus[r] = "ASSIGNED"
  <2>1. s = "COMPLETED"
    BY <1>3, ConstantsOK DEF ExpireRequestsClosing, Active
  <2>2. r \in AbsPaid \/ r \in {q \in Requests : IsLegacy(q)}
    BY <1>1, <1>3 DEF AssignmentInv, JobFoundSettled, AbsPaid, IsLegacy
  <2>3. AbsPhase[r] = "HELD" /\ AbsPhase' = [AbsPhase EXCEPT ![r] = "DONE"]
    BY <1>1, <1>3, <2>1, PhaseAt, PhaseStep, PhaseValues DEF RequestStatuses
  <2>4. Assignment!Finish(r)
    BY <1>2, <2>2, <2>3 DEF Assignment!Finish, AbsPhase, AbsHolder, AbsPaid, PaidOnce
  <2> QED BY <2>4 DEF AbsStep, Assignment!Next
<1>4. CASE f = NoMover /\ requestStatus[r] = "PENDING"
  <2>1. s = "EXPIRED"
    BY <1>4 DEF ExpireRequestsClosing
  <2>2. AbsPhase[r] = "OPEN" /\ AbsPhase' = [AbsPhase EXCEPT ![r] = "LAPSED"]
    BY <1>1, <1>4, <2>1, PhaseAt, PhaseStep, PhaseValues DEF RequestStatuses
  <2>3. Assignment!Lapse(r)
    BY <1>2, <2>2 DEF Assignment!Lapse, AbsPhase, AbsHolder, AbsPaid, PaidOnce
  <2> QED BY <2>3 DEF AbsStep, Assignment!Next
<1>5. CASE ~(f \in Movers /\ requestStatus[r] = "ASSIGNED")
           /\ ~(f = NoMover /\ requestStatus[r] = "PENDING")
  <2>1. f \in Movers => requestStatus[r] \in {"ASSIGNED", "COMPLETED"}
    BY <1>1 DEF AssignmentInv, JobFoundSettled, PaidMoveIsKept, LegacyIsKept,
                StatusMatchesHolder, Holds, PaidOnce
  <2>2. s = requestStatus[r]
    BY <1>1, <1>5, <2>1 DEF ExpireRequestsClosing, Active
  <2>3. requestStatus' = requestStatus
    BY <1>1, <2>2 DEF TypeOK
  <2> QED BY <1>2, <2>3 DEF AbsStep, AbsPhase
<1> QED BY <1>1, <1>3, <1>4, <1>5

LEMMA NextMaps == TypeOK /\ AssignmentInv /\ AssignmentInv' /\ [Next]_vars => AbsStep
<1> SUFFICES ASSUME TypeOK, AssignmentInv, AssignmentInv', [Next]_vars PROVE AbsStep
  OBVIOUS
<1>1. CASE UNCHANGED <<requestStatus, estimateStatus, deposit, erased>>
  <2>1. HoldersKept /\ AbsPaid' = AbsPaid
    BY <1>1 DEF HoldersKept, Holds, AbsPaid, PaidOnce
  <2> QED BY <1>1, <2>1, Stutters DEF AbsStep, AssignmentInv
<1>2. ASSUME NEW k \in Calls, Save(k) \/ Reject(k) PROVE AbsStep
  <2>1. HoldersKept
    BY <1>2, SaveHolds, RejectHolds
  <2>2. UNCHANGED requestStatus /\ AbsPaid' = AbsPaid
    BY <1>2 DEF Save, Reject, AbsPaid, PaidOnce
  <2> QED BY <2>1, <2>2, Stutters DEF AbsStep, AssignmentInv
<1>3. ASSUME NEW k \in Calls, NEW r \in Requests, Create(k, r) PROVE AbsStep
  BY <1>3, CreateMaps DEF AbsStep, Assignment!Next
<1>4. ASSUME NEW r \in Requests, NEW m \in Movers, Confirm(r, m) PROVE AbsStep
  BY <1>4, ConfirmMaps DEF AbsStep, Assignment!Next
<1>5. ASSUME NEW r \in Requests, NEW m \in Movers, PayDeposit(r, m) PROVE AbsStep
  BY <1>5, PayDepositMaps DEF AbsStep, Assignment!Next
<1>6. ASSUME NEW r \in Requests, NEW m \in Movers, ExpireDeposits(r, m) PROVE AbsStep
  BY <1>6, ExpireDepositsMaps DEF AbsStep, Assignment!Next
<1>7. ASSUME NEW m \in Movers, DeleteMoverAccount(m) PROVE AbsStep
  <2>1. HoldersKept /\ AbsPaid' = AbsPaid
    BY <1>7, DeleteHolds DEF HoldersKept, AbsPaid
  <2>2. UNCHANGED requestStatus
    BY <1>7 DEF DeleteMoverAccount
  <2> QED BY <2>1, <2>2, Stutters DEF AbsStep, AssignmentInv
<1> QED BY <1>1, <1>2, <1>3, <1>4, <1>5, <1>6, <1>7, WriteMaps
        DEF Next, vars, CreateCheck, CreateTargetedRequest, SaveCheck, SaveRefused,
            RejectCheck, ExpireRequestsRead, MovingDayArrives, MovingDayPasses,
            DepositHoursPass, CallFails, Restart

LEMMA InitMaps == Init => Assignment!Init
<1> SUFFICES ASSUME Init PROVE Assignment!Init
  OBVIOUS
<1>1. \A r \in Requests, m \in Movers : Holds(r, m) <=> <<r, m>> \in Legacy
  BY DEF Init, Holds
<1>2. AbsPhase = [r \in Requests |-> IF r \in {q \in Requests : IsLegacy(q)} THEN "HELD" ELSE "NONE"]
  BY DEF AbsPhase, Init, PhaseOf
<1>3. AbsPaid = {}
  BY DEF AbsPaid, PaidOnce, Init
<1>4. \A r \in Requests : /\ IsLegacy(r) => HolderOf(r) \in Movers
                          /\ ~IsLegacy(r) => HolderOf(r) = NoMover
  BY <1>1, HolderIs DEF IsLegacy
<1>5. AbsHolder \in [Requests -> Movers \cup {NoMover}]
  BY <1>4 DEF AbsHolder
<1>6. \A r \in Requests : r \in {q \in Requests : IsLegacy(q)} <=> AbsHolder[r] # NoMover
  BY <1>4, ConstantsOK DEF AbsHolder
<1> QED BY <1>2, <1>3, <1>5, <1>6 DEF Assignment!Init, AbsPhase, AbsHolder, AbsPaid, PaidOnce

\* The handlers and the jobs implement the promise of MoveAssignment: every step
\* of every interleaving is a step of it or changes nothing it speaks of.
THEOREM Implements == Spec => ImplementsAssignment
<1>1. TypeOK /\ AssignmentInv /\ AssignmentInv' /\ [Next]_vars => [Assignment!Next]_(Assignment!vars)
  BY NextMaps DEF AbsStep, Assignment!vars, AbsPhase, AbsHolder, AbsPaid
<1> QED BY <1>1, InitMaps, InitTypeOK, NextTypeOK, InitAssignmentInv, NextAssignmentInv, PTL
        DEF Spec, ImplementsAssignment, Assignment!Spec

-----------------------------------------------------------------------------
(* The life of each estimate's row.                                        *)

LifeStep(r, m) == Life(r, m)!Next \/ UNCHANGED <<estimateStatus[r][m], deposit[r][m]>>

LEMMA RowOfEstimate ==
  ASSUME TypeOK, NEW r \in Requests, NEW m \in Movers, NEW s
  PROVE  /\ [estimateStatus EXCEPT ![r][m] = s][r][m] = s
         /\ [deposit EXCEPT ![r][m] = s][r][m] = s
         /\ \A q \in Requests, n \in Movers : <<q, n>> # <<r, m>> =>
              /\ [estimateStatus EXCEPT ![r][m] = s][q][n] = estimateStatus[q][n]
              /\ [deposit EXCEPT ![r][m] = s][q][n] = deposit[q][n]
BY DEF TypeOK

\* The step of the estimate of m for r, the others keep their rows.
LEMMA LifeOfOne ==
  ASSUME NEW r \in Requests, NEW m \in Movers, Life(r, m)!Next,
         \A q \in Requests, n \in Movers : <<q, n>> # <<r, m>> =>
           estimateStatus'[q][n] = estimateStatus[q][n] /\ deposit'[q][n] = deposit[q][n]
  PROVE  \A q \in Requests, n \in Movers : LifeStep(q, n)
<1>1. ASSUME NEW q \in Requests, NEW n \in Movers PROVE LifeStep(q, n)
  <2>1. CASE q = r /\ n = m
    BY <2>1 DEF LifeStep
  <2>2. CASE <<q, n>> # <<r, m>>
    BY <2>2 DEF LifeStep
  <2> QED BY <2>1, <2>2
<1> QED BY <1>1

LEMMA SaveLife ==
  ASSUME TypeOK, NEW k \in Calls, Save(k)
  PROVE  \A q \in Requests, n \in Movers : LifeStep(q, n)
<1>1. PICK r \in Requests, m \in Movers : r = call[k].request /\ m = call[k].mover
  BY CallFields DEF Save
<1>2. /\ estimateStatus[r][m] = "NONE" /\ deposit' = deposit
      /\ estimateStatus' = [estimateStatus EXCEPT ![r][m] = "PENDING"]
  BY <1>1 DEF Save, SaveAllowed
<1>3. estimateStatus'[r][m] = "PENDING" /\ deposit'[r][m] = deposit[r][m]
  BY <1>2 DEF TypeOK
<1>4. Life(r, m)!Next
  BY <1>2, <1>3 DEF Life!Next, Life!Send, Life!Move
<1> QED BY <1>1, <1>2, <1>4, RowOfEstimate, LifeOfOne

LEMMA RejectLife ==
  ASSUME TypeOK, NEW k \in Calls, Reject(k)
  PROVE  \A q \in Requests, n \in Movers : LifeStep(q, n)
<1>1. PICK r \in Requests, m \in Movers : r = call[k].request /\ m = call[k].mover
  BY CallFields DEF Reject
<1>2. deposit' = deposit /\ estimateStatus' = [estimateStatus EXCEPT ![r][m] = "REJECTED"]
  BY <1>1 DEF Reject
<1>3. estimateStatus'[r][m] = "REJECTED" /\ deposit'[r][m] = deposit[r][m]
  BY <1>2 DEF TypeOK
<1>4. Life(r, m)!Next
  BY <1>2, <1>3 DEF Life!Next, Life!Reject
<1> QED BY <1>1, <1>2, <1>4, RowOfEstimate, LifeOfOne

LEMMA ConfirmLife ==
  ASSUME TypeOK, NEW r \in Requests, NEW m \in Movers, Confirm(r, m)
  PROVE  \A q \in Requests, n \in Movers : LifeStep(q, n)
<1>1. /\ estimateStatus[r][m] = "PENDING"
      /\ estimateStatus' = [estimateStatus EXCEPT ![r][m] = "CONFIRMED"]
      /\ deposit' = [deposit EXCEPT ![r][m] = "DUE"]
  BY DEF Confirm, ConfirmFindsBothRows
<1>2. estimateStatus'[r][m] = "CONFIRMED" /\ deposit'[r][m] = "DUE"
  BY <1>1 DEF TypeOK
<1>3. Life(r, m)!Next
  BY <1>1, <1>2 DEF Life!Next, Life!Confirm, Life!Move
<1> QED BY <1>1, <1>3, RowOfEstimate, LifeOfOne

LEMMA PayDepositLife ==
  ASSUME TypeOK, NEW r \in Requests, NEW m \in Movers, PayDeposit(r, m)
  PROVE  \A q \in Requests, n \in Movers : LifeStep(q, n)
<1>1. /\ estimateStatus[r][m] = "CONFIRMED" /\ deposit[r][m] = "DUE"
      /\ estimateStatus' = estimateStatus
      /\ deposit' = [deposit EXCEPT ![r][m] = "PAID"]
  BY DEF PayDeposit, DepositDue
<1>2. estimateStatus'[r][m] = estimateStatus[r][m] /\ deposit'[r][m] = "PAID"
  BY <1>1 DEF TypeOK
<1>3. Life(r, m)!Next
  BY <1>1, <1>2 DEF Life!Next, Life!PayDeposit
<1> QED BY <1>1, <1>3, RowOfEstimate, LifeOfOne

LEMMA ExpireDepositsLife ==
  ASSUME TypeOK, NEW r \in Requests, NEW m \in Movers, ExpireDeposits(r, m)
  PROVE  \A q \in Requests, n \in Movers : LifeStep(q, n)
<1>1. /\ estimateStatus[r][m] = "CONFIRMED" /\ deposit[r][m] = "DUE"
      /\ estimateStatus' = [estimateStatus EXCEPT ![r][m] = "PENDING"]
      /\ deposit' = [deposit EXCEPT ![r][m] = "NONE"]
  BY DEF ExpireDeposits, ExpireDepositsTarget, DepositDue
<1>2. estimateStatus'[r][m] = "PENDING" /\ deposit'[r][m] = "NONE"
  BY <1>1 DEF TypeOK
<1>3. Life(r, m)!Next
  BY <1>1, <1>2 DEF Life!Next, Life!Release, Life!Move
<1> QED BY <1>1, <1>3, RowOfEstimate, LifeOfOne

\* What the job found settled before its write still is.
LEMMA WriteLife ==
  ASSUME TypeOK, AssignmentInv, NEW r \in Requests, ExpireRequestsWrite(r)
  PROVE  \A q \in Requests, n \in Movers : LifeStep(q, n)
<1>1. CASE UNCHANGED <<estimateStatus, deposit>>
  BY <1>1 DEF LifeStep
<1>2. ASSUME NEW f \in Movers, f = job.found, Active(requestStatus[r]), estimateStatus[r][f] = "CONFIRMED"
      PROVE  \A q \in Requests, n \in Movers : LifeStep(q, n)
  <2>1. estimateStatus' = [estimateStatus EXCEPT ![r][f] = "COMPLETED"] /\ deposit' = deposit
        /\ job.request = r
    BY <1>2 DEF ExpireRequestsWrite
  <2>2. deposit[r][f] \in {"NONE", "PAID"}
    BY <1>2, <2>1 DEF AssignmentInv, JobFoundSettled, LegacyIsKept, PaidOnce, ErasedForGood
  <2>3. estimateStatus'[r][f] = "COMPLETED" /\ deposit'[r][f] = deposit[r][f]
    BY <2>1 DEF TypeOK
  <2>4. Life(r, f)!Next
    BY <1>2, <2>2, <2>3 DEF Life!Next, Life!Complete, Life!Move, Life!Settled
  <2> QED BY <1>2, <2>1, <2>4, RowOfEstimate, LifeOfOne
<1> QED BY <1>1, <1>2 DEF ExpireRequestsWrite

LEMMA DeleteLife ==
  ASSUME TypeOK, AssignmentInv, NEW m \in Movers, DeleteMoverAccount(m)
  PROVE  \A q \in Requests, n \in Movers : LifeStep(q, n)
<1>1. ASSUME NEW q \in Requests, NEW n \in Movers PROVE LifeStep(q, n)
  <2>1. CASE n = m /\ Erasable(q, n)
    <3>1. Life(q, n)!Erase
      BY <2>1, DeleteRows DEF Life!Erase, Erasable
    <3> QED BY <3>1 DEF LifeStep, Life!Next
  <2>2. CASE ~(n = m /\ Erasable(q, n))
    BY <2>2, DeleteRows DEF LifeStep
  <2> QED BY <2>1, <2>2
<1> QED BY <1>1

\* Whatever calls, jobs and restarts come in between, the row of every estimate
\* of every request is written as EstimateLife says.
THEOREM ImplementsEveryLife == Spec => ImplementsLives
<1> DEFINE P == \A r \in Requests, m \in Movers : LifeStep(r, m)
<1>1. Init => \A r \in Requests, m \in Movers : Life(r, m)!Init
  BY DEF Init, Life!Init
<1>2. TypeOK /\ AssignmentInv /\ [Next]_vars => [P]_vars
  <2> SUFFICES ASSUME TypeOK, AssignmentInv, Next PROVE P
    OBVIOUS
  <2>1. CASE UNCHANGED <<estimateStatus, deposit>>
    BY <2>1 DEF LifeStep
  <2> QED BY <2>1, SaveLife, RejectLife, ConfirmLife, PayDepositLife, ExpireDepositsLife, WriteLife,
            DeleteLife
          DEF Next, CreateCheck, Create, CreateTargetedRequest, SaveCheck, SaveRefused,
              RejectCheck, ExpireRequestsRead, MovingDayArrives, MovingDayPasses,
              DepositHoursPass, CallFails, Restart
<1> HIDE DEF P
<1>3. Spec => [][P]_vars
  BY <1>2, TypeCorrect, AssignmentCorrect, PTL DEF Spec
<1> QED BY <1>1, <1>3, PTL DEF P, LifeStep, Spec, ImplementsLives
=============================================================================
