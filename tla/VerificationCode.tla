--------------------------- MODULE VerificationCode ---------------------------
(***************************************************************************)
(* The codes sent by mail that open a sign-up, a password reset or the     *)
(* editing of a profile: one email and role, and one row of the purpose's  *)
(* table.  The three flows share their steps (send, mail, read, count a    *)
(* wrong entry, accept the right one) and differ in what they check again  *)
(* when they accept and in what the accepted code allows.                  *)
(*                                                                         *)
(* A send deletes the row it sees and inserts a new one; of two sends that *)
(* saw the same row the unique key lets one through.  Reading a row,       *)
(* hashing and writing are steps of their own, so that other calls and the *)
(* clock come between them.  Two codes are never equal by chance.          *)
(***************************************************************************)
EXTENDS Integers, FiniteSets

CONSTANTS
  Purposes,    \* subset of {"SIGNUP", "RESET", "EDIT"}
  Calls,       \* HTTP calls under way at once
  MaxFailed,   \* 5 in the code: wrong entries until a code is void
  MaxCodes     \* bound of the model: codes sent

ASSUME CodeConstantsOK ==
  /\ Purposes \subseteq {"SIGNUP", "RESET", "EDIT"}
  /\ MaxFailed \in Nat \ {0} /\ MaxCodes \in Nat

VARIABLES
  purpose,    \* of the flow; never changes
  row,        \* the row of the purpose's table
  codes,      \* codes made so far, the newest has this number
  mailed,     \* codes that reached the mailbox
  tokens,     \* password reset tokens in cookies
  account,    \* the account exists
  acted,      \* by code: accounts created, passwords reset, edits opened
  call        \* each call under way, with what it has read

vars == <<purpose, row, codes, mailed, tokens, account, acted, call>>

Codes == 1..MaxCodes
NoRow == [id |-> 0]
Rows  == [id : Codes, code : Codes, expired : BOOLEAN, failed : Nat,
          done : {"NO", "FRESH", "STALE"}]   \* verified_at or used_at

Idle == [op |-> "IDLE"]
CallStates ==
  {Idle} \cup [op : {"SEND"}, found : {0} \cup Codes]
         \cup [op : {"MAIL"}, code : Codes]
         \cup [op : {"VERIFY"}, id : Codes, code : Codes, right : BOOLEAN]
         \cup [op : {"SIGNUP"}, fresh : {0} \cup Codes]
         \cup [op : {"RESET"}, id : Codes, code : Codes]

TypeOK ==
  /\ purpose \in Purposes
  /\ row \in {NoRow} \cup Rows
  /\ codes \in {0} \cup Codes
  /\ mailed \subseteq Codes
  /\ tokens \subseteq [id : Codes, code : Codes]
  /\ account \in BOOLEAN
  /\ acted \in [Codes -> Nat]
  /\ call \in [Calls -> CallStates]

\* Someone without an account signs up; someone with one resets or edits.
Init ==
  /\ purpose \in Purposes
  /\ row = NoRow
  /\ codes = 0
  /\ mailed = {}
  /\ tokens = {}
  /\ account = (purpose # "SIGNUP")
  /\ acted = [c \in Codes |-> 0]
  /\ call = [k \in Calls |-> Idle]

Finished(k) == [call EXCEPT ![k] = Idle]
Counted(c) == [acted EXCEPT ![c] = @ + 1]

-----------------------------------------------------------------------------
(* Sending a code.                                                         *)

\* existsByEmailAndRole, then the first statement of the transaction, which
\* deletes the row it sees.
SendCode(k) ==
  /\ call[k] = Idle
  /\ account <=> purpose # "SIGNUP"
  /\ call' = [call EXCEPT ![k] = [op |-> "SEND", found |-> row.id]]
  /\ UNCHANGED <<purpose, row, codes, mailed, tokens, account, acted>>

\* A mutant: an upsert keeps the id of the row it replaces.
IdKept == IF row = NoRow THEN codes + 1 ELSE row.id

NewId == codes + 1

NewRow == [id |-> NewId, code |-> codes + 1, expired |-> FALSE, failed |-> 0, done |-> "NO"]

ReplaceCode(k) ==
  /\ call[k].op = "SEND"
  /\ row.id \in {0, call[k].found}
  /\ codes < MaxCodes      \* bound of the model
  /\ codes' = codes + 1
  /\ row' = NewRow
  /\ call' = [call EXCEPT ![k] = [op |-> "MAIL", code |-> codes + 1]]
  /\ UNCHANGED <<purpose, mailed, tokens, account, acted>>

\* Another send has put its row there first: the unique key, no mail.
SendConflict(k) ==
  /\ call[k].op = "SEND"
  /\ row.id \notin {0, call[k].found}
  /\ call' = Finished(k)
  /\ UNCHANGED <<purpose, row, codes, mailed, tokens, account, acted>>

Mail(k) ==
  /\ call[k].op = "MAIL"
  /\ mailed' = mailed \cup {call[k].code}
  /\ call' = Finished(k)
  /\ UNCHANGED <<purpose, row, codes, tokens, account, acted>>

-----------------------------------------------------------------------------
(* Entering a code.                                                        *)

VerifyCode(k, right) ==
  /\ call[k] = Idle
  /\ row # NoRow
  /\ purpose # "SIGNUP" => row.done = "NO"
  /\ ~row.expired /\ row.failed < MaxFailed
  /\ right => row.code \in mailed
  /\ call' = [call EXCEPT ![k] = [op |-> "VERIFY", id |-> row.id, code |-> row.code,
                                  right |-> right]]
  /\ UNCHANGED <<purpose, row, codes, mailed, tokens, account, acted>>

\* A mutant: the failure is counted without looking at the limit again.
CountsAlways(k) == row.id = call[k].id

\* The row is still the one that was read, and its limit is not reached.
CountsFailure(k) == row.id = call[k].id /\ row.failed < MaxFailed

WrongCode(k) ==
  /\ call[k].op = "VERIFY" /\ ~call[k].right
  /\ row' = IF CountsFailure(k) THEN [row EXCEPT !.failed = @ + 1] ELSE row
  /\ call' = Finished(k)
  /\ UNCHANGED <<purpose, codes, mailed, tokens, account, acted>>

\* A mutant: a sign-up code is accepted as it was read.
MarksAsRead(k) == row.id = call[k].id

\* markSignupCodeVerified looks at expiry and failures once more.
MarksSignup(k) == row.id = call[k].id /\ ~row.expired /\ row.failed < MaxFailed

AcceptSignupCode(k) ==
  /\ purpose = "SIGNUP"
  /\ call[k].op = "VERIFY" /\ call[k].right
  /\ row' = IF MarksSignup(k) THEN [row EXCEPT !.done = "FRESH"] ELSE row
  /\ call' = Finished(k)
  /\ UNCHANGED <<purpose, codes, mailed, tokens, account, acted>>

\* The token names the row; nothing is written.
AcceptResetCode(k) ==
  /\ purpose = "RESET"
  /\ call[k].op = "VERIFY" /\ call[k].right
  /\ tokens' = tokens \cup {[id |-> call[k].id, code |-> call[k].code]}
  /\ call' = Finished(k)
  /\ UNCHANGED <<purpose, row, codes, mailed, account, acted>>

\* A mutant: whether the code was used is not part of the condition.
UsableById(id) == row.id = id

\* The condition of completePasswordReset and completeProfileEditVerification.
Usable(id) == row.id = id /\ row.done = "NO"

AcceptEditCode(k) ==
  /\ purpose = "EDIT"
  /\ call[k].op = "VERIFY" /\ call[k].right
  /\ IF Usable(call[k].id)
     THEN row' = [row EXCEPT !.done = "FRESH"] /\ acted' = Counted(call[k].code)
     ELSE UNCHANGED <<row, acted>>
  /\ call' = Finished(k)
  /\ UNCHANGED <<purpose, codes, mailed, tokens, account>>

-----------------------------------------------------------------------------
(* What a code is good for.                                                *)

\* signup: no such account; hashing; the moment 30 minutes ago is computed.
SignupCheck(k) ==
  /\ purpose = "SIGNUP" /\ call[k] = Idle
  /\ ~account
  /\ call' = [call EXCEPT ![k] =
       [op |-> "SIGNUP", fresh |-> IF row # NoRow /\ row.done = "FRESH" THEN row.id ELSE 0]]
  /\ UNCHANGED <<purpose, row, codes, mailed, tokens, account, acted>>

Verified(k) ==
  row # NoRow /\ (row.done = "FRESH" \/ (row.done = "STALE" /\ row.id = call[k].fresh))

\* A mutant: no unique key on (role, email).
EmailUnchecked == TRUE

\* The unique key of LOCAL accounts; it rolls the transaction back.
EmailFree == ~account

\* createVerifiedLocalUser: the verified row is deleted, the account inserted.
Signup(k) ==
  /\ call[k].op = "SIGNUP"
  /\ Verified(k) /\ EmailFree
  /\ row' = NoRow
  /\ account' = TRUE
  /\ acted' = Counted(row.code)
  /\ call' = Finished(k)
  /\ UNCHANGED <<purpose, codes, mailed, tokens>>

SignupRefused(k) ==
  /\ call[k].op = "SIGNUP"
  /\ ~(Verified(k) /\ EmailFree)
  /\ call' = Finished(k)
  /\ UNCHANGED <<purpose, row, codes, mailed, tokens, account, acted>>

\* resetPassword verifies the token and hashes the password ...
ResetCheck(k, t) ==
  /\ call[k] = Idle
  /\ t \in tokens
  /\ call' = [call EXCEPT ![k] = [op |-> "RESET", id |-> t.id, code |-> t.code]]
  /\ UNCHANGED <<purpose, row, codes, mailed, tokens, account, acted>>

\* ... and completePasswordReset marks the code used before it writes.
ResetPassword(k) ==
  /\ call[k].op = "RESET"
  /\ IF Usable(call[k].id)
     THEN row' = [row EXCEPT !.done = "FRESH"] /\ acted' = Counted(call[k].code)
     ELSE UNCHANGED <<row, acted>>
  /\ call' = Finished(k)
  /\ UNCHANGED <<purpose, codes, mailed, tokens, account>>

-----------------------------------------------------------------------------
(* Time and failures.                                                      *)

CodeExpires ==
  /\ row # NoRow /\ ~row.expired
  /\ row' = [row EXCEPT !.expired = TRUE]
  /\ UNCHANGED <<purpose, codes, mailed, tokens, account, acted, call>>

\* 30 minutes after the verification, hence after the 5 minutes of the code.
VerificationGoesStale ==
  /\ row # NoRow /\ row.done = "FRESH" /\ row.expired
  /\ row' = [row EXCEPT !.done = "STALE"]
  /\ UNCHANGED <<purpose, codes, mailed, tokens, account, acted, call>>

TokenExpires(t) ==
  /\ t \in tokens
  /\ tokens' = tokens \ {t}
  /\ UNCHANGED <<purpose, row, codes, mailed, account, acted, call>>

\* No commit, or no mail: the new row stays although nobody got its code.
CallFails(k) ==
  /\ call[k] # Idle
  /\ call' = Finished(k)
  /\ UNCHANGED <<purpose, row, codes, mailed, tokens, account, acted>>

Restart ==
  /\ call' = [k \in Calls |-> Idle]
  /\ UNCHANGED <<purpose, row, codes, mailed, tokens, account, acted>>

Next ==
  \/ \E k \in Calls :
       \/ SendCode(k) \/ ReplaceCode(k) \/ SendConflict(k) \/ Mail(k)
       \/ \E right \in BOOLEAN : VerifyCode(k, right)
       \/ WrongCode(k)
       \/ AcceptSignupCode(k) \/ AcceptResetCode(k) \/ AcceptEditCode(k)
       \/ SignupCheck(k) \/ Signup(k) \/ SignupRefused(k)
       \/ \E t \in tokens : ResetCheck(k, t)
       \/ ResetPassword(k)
       \/ CallFails(k)
  \/ CodeExpires \/ VerificationGoesStale
  \/ \E t \in tokens : TokenExpires(t)
  \/ Restart

Spec == Init /\ [][Next]_vars

-----------------------------------------------------------------------------
(* Safety.                                                                 *)

\* However many wrong entries run at once, no more than MaxFailed are counted
\* ("the condition and the increment in one query", auth.repository.ts).
FailuresWithinLimit == row # NoRow => row.failed <= MaxFailed

\* A code creates at most one account, resets one password and opens one
\* editing session, also when its calls run at once (auth.repository.ts, "one
\* of the concurrent requests with the same token passes").
UsedOnce == \A c \in Codes : acted[c] <= 1

\* An email and role get one account, whichever codes were verified for it:
\* the row is spent with the account, and the unique key covers the rest.
OneAccount ==
  purpose = "SIGNUP" => \A b, c \in Codes : acted[b] > 0 /\ acted[c] > 0 => b = c

\* The inductive invariant behind these properties.  The id of a row stands for
\* its code, wherever calls and tokens keep it: of the newest code in the row,
\* of no later one elsewhere.
IdsNameCodes ==
  /\ row # NoRow => row.id = codes /\ row.code = codes
  /\ \A t \in tokens : t.id = t.code /\ t.code <= codes
  /\ \A k \in Calls : call[k].op \in {"VERIFY", "RESET"} =>
       call[k].id = call[k].code /\ call[k].code <= codes

\* A code that has had its effect is marked so in the row or has left it.
EffectIsRecorded ==
  \A c \in Codes : acted[c] > 0 =>
    /\ c <= codes
    /\ purpose = "SIGNUP" => account
    /\ row # NoRow /\ row.code = c => purpose # "SIGNUP" /\ row.done # "NO"

FlowsAreSeparate ==
  /\ \A k \in Calls : call[k].op = "SIGNUP" => purpose = "SIGNUP"
  /\ tokens # {} \/ (\E k \in Calls : call[k].op = "RESET") => purpose = "RESET"

CodeInv ==
  /\ IdsNameCodes /\ EffectIsRecorded /\ FlowsAreSeparate
  /\ FailuresWithinLimit /\ UsedOnce /\ OneAccount

\* Only the newest code has any effect: a resend voids older codes and the
\* tokens already issued for them, wherever their calls are ("never upsert, a
\* kept id would revive old tokens", auth.repository.ts).
NewestCodeOnly ==
  [][\A c \in Codes : acted'[c] # acted[c] => c = codes]_vars

\* A sign-up code that expired or used up its failures stays unverified, also
\* for the right entry that was read before.
VoidStaysVoid ==
  [][purpose = "SIGNUP" /\ row # NoRow /\ row'.id = row.id
       /\ row.done = "NO" /\ (row.expired \/ row.failed = MaxFailed)
     => row'.done = "NO"]_vars

=============================================================================
