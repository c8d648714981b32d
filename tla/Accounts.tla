------------------------------ MODULE Accounts ------------------------------
(***************************************************************************)
(* One account, of a customer or a mover, from its sign-up to its deletion:*)
(* its session, its profile and services, and the moves it takes part in.  *)
(*                                                                         *)
(* A call passes its guards in steps of their own (requireAuth reads the   *)
(* user, requireProfile the profile) and acts later.  deleteAccount is the *)
(* only Serializable transaction here: it works on the rows of its first   *)
(* read and is rolled back when another transaction has committed a change *)
(* of one that it changes.  The others run Read Committed.                 *)
(***************************************************************************)
EXTENDS Integers, FiniteSets

CONSTANTS
  Roles,       \* subset of {"CUSTOMER", "MOVER"}
  Calls,       \* HTTP calls under way at once
  Moves,       \* requests of a customer, estimates of a mover
  Services,    \* kinds of moves
  MaxAttempts  \* 3 in the code: DELETE_ACCOUNT_MAX_RETRIES

ASSUME AccountConstantsOK ==
  /\ Roles \subseteq {"CUSTOMER", "MOVER"}
  /\ MaxAttempts \in Nat \ {0}
  /\ {"user", "profile"} \cap (Services \cup Moves) = {}
  /\ Services \cap Moves = {}

VARIABLES
  role,       \* of the account; never changes
  deleted,    \* deleted_at is set
  personal,   \* the row holds the person's phone number or password
  refresh,    \* refresh_token holds a hash
  verified,   \* the editing code was used less than 30 minutes ago
  profile,    \* the profile row exists
  services,   \* rows of customer_service or mover_service
  move,       \* what each of its requests or estimates has come to
  call        \* each call under way, with what it has read

vars == <<role, deleted, personal, refresh, verified, profile, services, move, call>>

\* OPEN pending, HELD confirmed, DUE completed with the balance unpaid, DONE paid
MoveStates == {"NONE", "OPEN", "HELD", "DUE", "DONE", "CLOSED"}
Guarded    == {"OPEN_MOVE", "CONFIRM", "REGISTER", "UPDATE", "DELETE"}
Rows       == {"user", "profile"} \cup Services \cup Moves

Idle == [op |-> "IDLE"]
CallStates ==
  {Idle} \cup [op : Guarded, at : {"PROFILE", "ACT"}]
         \cup [op : {"LOGIN", "LOGOUT", "CREATE"}]
         \cup [op : {"WRITE"}, account : BOOLEAN, fields : BOOLEAN, new : SUBSET Services]
         \cup [op : {"INSERT"}, account : BOOLEAN, fields : BOOLEAN,
               old : SUBSET Services, new : SUBSET Services]
         \cup [op : {"ATTEMPT"}, n : 1..MaxAttempts]
         \cup [op : {"ERASE"}, n : 1..MaxAttempts, rows : SUBSET Rows, fresh : BOOLEAN]

TypeOK ==
  /\ role \in Roles
  /\ {deleted, personal, refresh, verified, profile} \subseteq BOOLEAN
  /\ services \subseteq Services
  /\ move \in [Moves -> MoveStates]
  /\ call \in [Calls -> CallStates]

\* Just signed up: logged in, no profile yet.
Init ==
  /\ role \in Roles
  /\ deleted = FALSE
  /\ personal = TRUE
  /\ refresh = TRUE
  /\ verified = FALSE
  /\ profile = FALSE
  /\ services = {}
  /\ move = [m \in Moves |-> "NONE"]
  /\ call = [k \in Calls |-> Idle]

\* Open deletions whose rows a commit has changed can no longer commit.
Outdated(rows) ==
  [k \in Calls |-> IF call[k].op = "ERASE" /\ call[k].rows \cap rows # {}
                   THEN [call[k] EXCEPT !.fresh = FALSE] ELSE call[k]]

Becomes(k, state) == call' = [call EXCEPT ![k] = state]
Ends(k) == Becomes(k, Idle)

\* The call ends and has changed these rows.
EndsWriting(k, rows) == call' = [Outdated(rows) EXCEPT ![k] = Idle]

-----------------------------------------------------------------------------
(* Guards.                                                                 *)

\* requireAuth: an access token outlives the account, hence the look-up.
ActiveUser == ~deleted

RequireAuth(k, op) ==
  /\ call[k] = Idle
  /\ ActiveUser
  /\ op = "CONFIRM" => role = "CUSTOMER"
  /\ Becomes(k, [op |-> op, at |-> IF op \in {"REGISTER", "DELETE"} THEN "ACT" ELSE "PROFILE"])
  /\ UNCHANGED <<role, deleted, personal, refresh, verified, profile, services, move>>

RequireProfile(k) ==
  /\ call[k].op \in Guarded /\ call[k].at = "PROFILE"
  /\ profile
  /\ Becomes(k, [call[k] EXCEPT !.at = "ACT"])
  /\ UNCHANGED <<role, deleted, personal, refresh, verified, profile, services, move>>

Acting(k, op) == call[k].op = op /\ call[k].at = "ACT"

-----------------------------------------------------------------------------
(* Sessions.                                                               *)

\* login and oauthLogin look the account up (a deleted one has lost its email
\* and provider id), compare or hash, and store the new token.
LoginCheck(k) ==
  /\ call[k] = Idle
  /\ ~deleted
  /\ Becomes(k, [op |-> "LOGIN"])
  /\ UNCHANGED <<role, deleted, personal, refresh, verified, profile, services, move>>

StoreToken(k) ==
  /\ call[k].op = "LOGIN"
  /\ refresh' = TRUE
  /\ EndsWriting(k, {"user"})
  /\ UNCHANGED <<role, deleted, personal, verified, profile, services, move>>

LogoutCheck(k) ==
  /\ call[k] = Idle
  /\ refresh
  /\ Becomes(k, [op |-> "LOGOUT"])
  /\ UNCHANGED <<role, deleted, personal, refresh, verified, profile, services, move>>

Logout(k) ==
  /\ call[k].op = "LOGOUT"
  /\ refresh' = FALSE
  /\ EndsWriting(k, {"user"})
  /\ UNCHANGED <<role, deleted, personal, verified, profile, services, move>>

\* completePasswordReset: the code's row goes with the account, so it finds none
\* afterwards; it ends the session.
ResetPassword ==
  /\ ~deleted
  /\ refresh' = FALSE
  /\ call' = Outdated({"user"})
  /\ UNCHANGED <<role, deleted, personal, verified, profile, services, move>>

-----------------------------------------------------------------------------
(* Profile.                                                                *)

RegisterCheck(k) ==
  /\ Acting(k, "REGISTER")
  /\ IF profile THEN Ends(k) ELSE Becomes(k, [op |-> "CREATE"])
  /\ UNCHANGED <<role, deleted, personal, refresh, verified, profile, services, move>>

\* The unique key refuses a second profile; rows of services that are there
\* without a profile refuse the same services.
RegisterProfile(k, new) ==
  /\ call[k].op = "CREATE"
  /\ IF ~profile /\ services \cap new = {}
     THEN /\ profile' = TRUE
          /\ services' = services \cup new
          /\ EndsWriting(k, {"profile"})
     ELSE Ends(k) /\ UNCHANGED <<profile, services>>
  /\ UNCHANGED <<role, deleted, personal, refresh, verified, move>>

\* account: name, phone number or password, which need the email verification;
\* fields: of the profile row; new: the services, if they are sent.
UpdateCheck(k, account, fields, new) ==
  /\ Acting(k, "UPDATE")
  /\ IF account => verified
     THEN Becomes(k, [op |-> "WRITE", account |-> account, fields |-> fields, new |-> new])
     ELSE Ends(k)
  /\ UNCHANGED <<role, deleted, personal, refresh, verified, profile, services, move>>

\* The user and the profile row; a profile that is gone fails the transaction.
ColumnsWritten(k) ==
  (IF call[k].account THEN {"user"} ELSE {}) \cup (IF call[k].fields THEN {"profile"} ELSE {})

UpdateColumns(k) ==
  /\ call[k].op = "WRITE" /\ call[k].new = {}
  /\ IF call[k].fields => profile
     THEN /\ personal' = (personal \/ call[k].account)
          /\ EndsWriting(k, ColumnsWritten(k))
     ELSE Ends(k) /\ UNCHANGED personal
  /\ UNCHANGED <<role, deleted, refresh, verified, profile, services, move>>

\* A mutant: the rows are deleted in a transaction of their own.
DeletedAtOnce == {}

\* Until the commit nobody sees the deletion.
BeforeCommit == services

\* With services: deleteMany sees the rows of its moment ...
DeleteServices(k) ==
  /\ call[k].op = "WRITE" /\ call[k].new # {}
  /\ services' = BeforeCommit
  /\ Becomes(k, [op |-> "INSERT", account |-> call[k].account, fields |-> call[k].fields,
                 old |-> services, new |-> call[k].new])
  /\ UNCHANGED <<role, deleted, personal, refresh, verified, profile, move>>

\* ... and createMany is refused when another update has inserted one of the new.
\* (That the user's or the profile's row keeps some updates apart is left out.)
InsertServices(k) ==
  /\ call[k].op = "INSERT"
  /\ IF (call[k].fields => profile) /\ (services \ call[k].old) \cap call[k].new = {}
     THEN /\ personal' = (personal \/ call[k].account)
          /\ services' = (services \ call[k].old) \cup call[k].new
          /\ EndsWriting(k, ColumnsWritten(k) \cup (services \cap call[k].old))
     ELSE Ends(k) /\ UNCHANGED <<personal, services>>
  /\ UNCHANGED <<role, deleted, refresh, verified, profile, move>>

\* verifyProfileEmailVerificationCode, and 30 minutes later.
VerifyEmail ==
  /\ ~deleted /\ ~verified
  /\ verified' = TRUE
  /\ UNCHANGED <<role, deleted, personal, refresh, profile, services, move, call>>

VerificationEnds ==
  /\ verified
  /\ verified' = FALSE
  /\ UNCHANGED <<role, deleted, personal, refresh, profile, services, move, call>>

-----------------------------------------------------------------------------
(* Moves: the customer's requests, or the mover's estimates.               *)

\* create and save.
OpenMove(k, m) ==
  /\ Acting(k, "OPEN_MOVE")
  /\ move[m] \in {"NONE", "CLOSED"}
  /\ move' = [move EXCEPT ![m] = "OPEN"]
  /\ EndsWriting(k, {m})
  /\ UNCHANGED <<role, deleted, personal, refresh, verified, profile, services>>

\* A mutant: the mover's counter is not part of the confirmation.
ConfirmRowsMoveOnly(m) == {m}

\* A confirmation counts in the mover's profile and fails without it.
ConfirmRows(m) == IF role = "MOVER" THEN {m, "profile"} ELSE {m}
CanConfirm(m) == move[m] = "OPEN" /\ ("profile" \in ConfirmRows(m) => profile)

\* By the customer of this account ...
ConfirmOwn(k, m) ==
  /\ Acting(k, "CONFIRM")
  /\ CanConfirm(m)
  /\ move' = [move EXCEPT ![m] = "HELD"]
  /\ EndsWriting(k, ConfirmRows(m))
  /\ UNCHANGED <<role, deleted, personal, refresh, verified, profile, services>>

\* ... or by the customer of the mover's estimate.
ConfirmOther(m) ==
  /\ role = "MOVER"
  /\ CanConfirm(m)
  /\ move' = [move EXCEPT ![m] = "HELD"]
  /\ call' = Outdated(ConfirmRows(m))
  /\ UNCHANGED <<role, deleted, personal, refresh, verified, profile, services>>

\* expireDeposits, which counts back in the mover's profile.
DepositExpires(m) ==
  /\ move[m] = "HELD" /\ ("profile" \in ConfirmRows(m) => profile)
  /\ move' = [move EXCEPT ![m] = "OPEN"]
  /\ call' = Outdated(ConfirmRows(m))
  /\ UNCHANGED <<role, deleted, personal, refresh, verified, profile, services>>

\* The rest of a move's life: completed, paid, run out or rejected, which may reach
\* the mover's estimate late, when it is confirmed or completed.
MoveGoesOn(m) ==
  /\ \/ move[m] = "HELD" /\ move' = [move EXCEPT ![m] = "DUE"]
     \/ move[m] = "DUE"  /\ move' = [move EXCEPT ![m] = "DONE"]
     \/ /\ move[m] = "OPEN" \/ (role = "MOVER" /\ move[m] \notin {"NONE", "CLOSED"})
        /\ move' = [move EXCEPT ![m] = "CLOSED"]
  /\ call' = Outdated({m})
  /\ UNCHANGED <<role, deleted, personal, refresh, verified, profile, services>>

-----------------------------------------------------------------------------
(* Deletion.                                                               *)

\* Without a profile no verification is asked for.
DeleteCheck(k) ==
  /\ Acting(k, "DELETE")
  /\ IF ~deleted /\ (profile => verified)
     THEN Becomes(k, [op |-> "ATTEMPT", n |-> 1]) ELSE Ends(k)
  /\ UNCHANGED <<role, deleted, personal, refresh, verified, profile, services, move>>

Erased == {m \in Moves : move[m] \in {"OPEN", "CLOSED"}}

\* The rows a deletion changes: a customer's finished requests lose the address.
DeletionRows ==
  {"user"} \cup (IF profile THEN {"profile"} ELSE {}) \cup services
           \cup {m \in Moves : \/ m \in Erased
                               \/ role = "CUSTOMER" /\ move[m] = "DONE"}

\* CONFIRMED_MOVE_EXISTS, UNPAID_PAYMENT_EXISTS
Unfinished == \E m \in Moves : move[m] \in {"HELD", "DUE"}

DeleteBegin(k) ==
  /\ call[k].op = "ATTEMPT"
  /\ IF Unfinished THEN Ends(k)
     ELSE Becomes(k, [op |-> "ERASE", n |-> call[k].n, rows |-> DeletionRows, fresh |-> TRUE])
  /\ UNCHANGED <<role, deleted, personal, refresh, verified, profile, services, move>>

\* A mutant: Read Committed.
NeverInConflict(k) == TRUE

CanCommit(k) == call[k].fresh

\* A committed deletion erases the rows it saw, not those inserted since.
DeleteCommit(k) ==
  /\ call[k].op = "ERASE" /\ CanCommit(k)
  /\ deleted' = TRUE
  /\ personal' = FALSE
  /\ refresh' = FALSE
  /\ verified' = FALSE
  /\ profile' = (profile /\ "profile" \notin call[k].rows)
  /\ services' = services \ call[k].rows
  /\ move' = [m \in Moves |-> IF m \in call[k].rows /\ move[m] # "DONE" THEN "NONE" ELSE move[m]]
  /\ EndsWriting(k, call[k].rows)
  /\ UNCHANGED role

MayRetry(n) == n < MaxAttempts

\* P2034: again, up to three times, then CONCURRENT_REQUEST_CONFLICT.
DeleteRetry(k) ==
  /\ call[k].op = "ERASE" /\ ~CanCommit(k)
  /\ IF MayRetry(call[k].n) THEN Becomes(k, [op |-> "ATTEMPT", n |-> call[k].n + 1])
                                ELSE Ends(k)
  /\ UNCHANGED <<role, deleted, personal, refresh, verified, profile, services, move>>

\* A call is refused or fails.
CallFails(k) ==
  /\ call[k] # Idle
  /\ Ends(k)
  /\ UNCHANGED <<role, deleted, personal, refresh, verified, profile, services, move>>

\* The process restarts: what has not been committed is lost.
Restart ==
  /\ call' = [k \in Calls |-> Idle]
  /\ UNCHANGED <<role, deleted, personal, refresh, verified, profile, services, move>>

Next ==
  \/ \E k \in Calls :
       \/ \E op \in Guarded : RequireAuth(k, op)
       \/ RequireProfile(k)
       \/ LoginCheck(k) \/ StoreToken(k) \/ LogoutCheck(k) \/ Logout(k)
       \/ RegisterCheck(k)
       \/ \E new \in (SUBSET Services) \ {{}} : RegisterProfile(k, new)
       \/ \E account, fields \in BOOLEAN, new \in SUBSET Services :
            UpdateCheck(k, account, fields, new)
       \/ UpdateColumns(k) \/ DeleteServices(k) \/ InsertServices(k)
       \/ \E m \in Moves : OpenMove(k, m) \/ ConfirmOwn(k, m)
       \/ DeleteCheck(k) \/ DeleteBegin(k) \/ DeleteCommit(k) \/ DeleteRetry(k)
       \/ CallFails(k)
  \/ ResetPassword \/ VerifyEmail \/ VerificationEnds
  \/ \E m \in Moves : ConfirmOther(m) \/ DepositExpires(m) \/ MoveGoesOn(m)
  \/ Restart

Spec == Init /\ [][Next]_vars

-----------------------------------------------------------------------------
(* Safety.                                                                 *)

\* A deleted mover holds no confirmed move and waits for no balance
\* (auth.repository.ts, deleteMoverAccount), also not by an estimate that was
\* saved while the account was being deleted: its confirmation needs the
\* profile, and either changes the row the deletion deletes or misses it.
\* (A profile that a call under way registers after the deletion is excepted.)
DeletedHoldsNoMove ==
  role = "MOVER" /\ deleted /\ ~profile =>
    \A m \in Moves : move[m] \notin {"HELD", "DUE"}

\* A deletion never takes a confirmed or unpaid move with it ("if an estimate is
\* confirmed between the check and the deletion ... hence Serializable").
HeldMovesSurvive ==
  [][\A m \in Moves : move[m] \in {"HELD", "DUE"} => move'[m] # "NONE"]_vars

\* A profile has at least one service, whatever updates and deletions overlap.
ProfileHasServices == profile => services # {}

=============================================================================
