---------------------------- MODULE EstimateLife ----------------------------
(***************************************************************************)
(* What every writer of an estimate's row keeps of its status and its      *)
(* deposit: a confirmation asks for a deposit, only an unpaid one is taken *)
(* back, only a settled one is completed, a rejection leaves the deposit,  *)
(* and only an estimate that is not confirmed is deleted.                  *)
(* MoveLifecycle implements this for each estimate of each request, with   *)
(* the calls and jobs that write the row; EstimatePayment implements it    *)
(* for its one estimate, with the same writers as its environment.         *)
(***************************************************************************)

VARIABLES
  status,    \* estimate.estimate_status, "NONE": no row
  deposit    \* "NONE": deposit_amount NULL, "DUE": unpaid, "PAID"

vars == <<status, deposit>>

\* An estimate yet to be sent, just sent, or confirmed before deposits existed.
Init == status \in {"NONE", "PENDING", "CONFIRMED"} /\ deposit = "NONE"

Settled == deposit \in {"NONE", "PAID"}

Move(from, to) == status = from /\ status' = to

Send == Move("NONE", "PENDING") /\ UNCHANGED deposit

Confirm == Move("PENDING", "CONFIRMED") /\ deposit' = "DUE"

PayDeposit ==
  /\ status = "CONFIRMED" /\ deposit = "DUE"
  /\ deposit' = "PAID"
  /\ UNCHANGED status

Release == Move("CONFIRMED", "PENDING") /\ deposit = "DUE" /\ deposit' = "NONE"

Complete == Move("CONFIRMED", "COMPLETED") /\ Settled /\ UNCHANGED deposit

\* Whatever it replaces, the deposit columns stay as they are.
Reject == status' = "REJECTED" /\ UNCHANGED deposit

\* The mover's account is deleted, and the estimate with its columns.
Erase ==
  /\ status \in {"PENDING", "REJECTED"}
  /\ status' = "NONE" /\ deposit' = "NONE"

Next == Send \/ Confirm \/ PayDeposit \/ Release \/ Complete \/ Reject \/ Erase

Spec == Init /\ [][Next]_vars
=============================================================================
