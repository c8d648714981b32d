----------------------- MODULE VerificationCode_proofs -----------------------
(***************************************************************************)
(* Theorems of VerificationCode for any number of calls, codes and wrong   *)
(* entries.                                                                *)
(***************************************************************************)
EXTENDS VerificationCode, TLAPS

-----------------------------------------------------------------------------
(* Type correctness.                                                       *)

LEMMA CallFields ==
  ASSUME TypeOK, NEW k \in Calls
  PROVE  /\ call[k].op = "SEND" => call[k].found \in {0} \cup Codes
         /\ call[k].op = "MAIL" => call[k].code \in Codes
         /\ call[k].op = "VERIFY" => call[k].id \in Codes /\ call[k].code \in Codes
         /\ call[k].op = "RESET" => call[k].id \in Codes /\ call[k].code \in Codes
BY DEF TypeOK, CallStates, Idle

LEMMA RowFields ==
  ASSUME TypeOK, row # NoRow
  PROVE  /\ row \in Rows
         /\ row.id \in Codes /\ row.code \in Codes /\ row.failed \in Nat
BY DEF TypeOK, Rows

LEMMA NextCode ==
  ASSUME TypeOK, codes < MaxCodes
  PROVE  codes + 1 \in Codes
BY CodeConstantsOK DEF TypeOK, Codes

LEMMA InitTypeOK == Init => TypeOK
BY CodeConstantsOK DEF Init, TypeOK, CallStates, Codes

LEMMA NextTypeOK == TypeOK /\ [Next]_vars => TypeOK'
<1> SUFFICES ASSUME TypeOK, [Next]_vars PROVE TypeOK'
  OBVIOUS
<1> USE DEF TypeOK, Finished
<1>1. ASSUME NEW k \in Calls, SendCode(k) PROVE TypeOK'
  <2>1. row.id \in {0} \cup Codes
    BY RowFields DEF NoRow
  <2> QED BY <1>1, <2>1 DEF SendCode, CallStates
<1>2. ASSUME NEW k \in Calls, ReplaceCode(k) PROVE TypeOK'
  <2>1. codes + 1 \in Codes
    BY <1>2, NextCode DEF ReplaceCode
  <2> QED BY <1>2, <2>1 DEF ReplaceCode, NewRow, NewId, Rows, CallStates
<1>3. ASSUME NEW k \in Calls, SendConflict(k) PROVE TypeOK'
  BY <1>3 DEF SendConflict, CallStates
<1>4. ASSUME NEW k \in Calls, Mail(k) PROVE TypeOK'
  BY <1>4, CallFields DEF Mail, CallStates
<1>5. ASSUME NEW k \in Calls, NEW right \in BOOLEAN, VerifyCode(k, right) PROVE TypeOK'
  BY <1>5, RowFields DEF VerifyCode, CallStates
<1>6. ASSUME NEW k \in Calls, WrongCode(k) PROVE TypeOK'
  <2>1. row' \in {NoRow} \cup Rows
    <3>1. CASE CountsFailure(k)
      <4>1. row # NoRow
        BY <1>6, <3>1, CallFields DEF WrongCode, CountsFailure, NoRow, Codes
      <4>2. row \in Rows /\ row.failed + 1 \in Nat
        BY <4>1, RowFields
      <4>3. row' = [row EXCEPT !.failed = row.failed + 1]
        BY <1>6, <3>1 DEF WrongCode
      <4> QED BY <4>2, <4>3 DEF Rows
    <3>2. CASE ~CountsFailure(k)
      BY <1>6, <3>2 DEF WrongCode
    <3> QED BY <3>1, <3>2
  <2> QED BY <1>6, <2>1 DEF WrongCode, CallStates
<1>7. ASSUME NEW k \in Calls, AcceptSignupCode(k) PROVE TypeOK'
  <2>1. row' \in {NoRow} \cup Rows
    BY <1>7, CallFields DEF AcceptSignupCode, MarksSignup, NoRow, Rows, Codes
  <2> QED BY <1>7, <2>1 DEF AcceptSignupCode, CallStates
<1>8. ASSUME NEW k \in Calls, AcceptResetCode(k) PROVE TypeOK'
  BY <1>8, CallFields DEF AcceptResetCode, CallStates
<1>9. ASSUME NEW k \in Calls, AcceptEditCode(k) PROVE TypeOK'
  <2>1. row' \in {NoRow} \cup Rows
    BY <1>9, CallFields DEF AcceptEditCode, Usable, NoRow, Rows, Codes
  <2>2. acted' \in [Codes -> Nat]
    BY <1>9, CallFields DEF AcceptEditCode, Counted
  <2> QED BY <1>9, <2>1, <2>2 DEF AcceptEditCode, CallStates
<1>10. ASSUME NEW k \in Calls, SignupCheck(k) PROVE TypeOK'
  BY <1>10, RowFields DEF SignupCheck, CallStates
<1>11. ASSUME NEW k \in Calls, Signup(k) PROVE TypeOK'
  <2>1. acted' \in [Codes -> Nat]
    BY <1>11, RowFields DEF Signup, Verified, Counted
  <2> QED BY <1>11, <2>1 DEF Signup, CallStates
<1>12. ASSUME NEW k \in Calls, SignupRefused(k) PROVE TypeOK'
  BY <1>12 DEF SignupRefused, CallStates
<1>13. ASSUME NEW k \in Calls, NEW t \in tokens, ResetCheck(k, t) PROVE TypeOK'
  BY <1>13 DEF ResetCheck, CallStates
<1>14. ASSUME NEW k \in Calls, ResetPassword(k) PROVE TypeOK'
  <2>1. row' \in {NoRow} \cup Rows
    BY <1>14, CallFields DEF ResetPassword, Usable, NoRow, Rows, Codes
  <2>2. acted' \in [Codes -> Nat]
    BY <1>14, CallFields DEF ResetPassword, Counted
  <2> QED BY <1>14, <2>1, <2>2 DEF ResetPassword, CallStates
<1>15. ASSUME NEW k \in Calls, CallFails(k) PROVE TypeOK'
  BY <1>15 DEF CallFails, CallStates
<1>16. CASE CodeExpires
  BY <1>16 DEF CodeExpires, Rows
<1>17. CASE VerificationGoesStale
  BY <1>17 DEF VerificationGoesStale, Rows
<1>18. ASSUME NEW t \in tokens, TokenExpires(t) PROVE TypeOK'
  BY <1>18 DEF TokenExpires
<1>19. CASE Restart
  BY <1>19 DEF Restart, CallStates
<1>20. CASE UNCHANGED vars
  BY <1>20 DEF vars
<1> QED BY <1>1, <1>2, <1>3, <1>4, <1>5, <1>6, <1>7, <1>8, <1>9, <1>10, <1>11, <1>12,
           <1>13, <1>14, <1>15, <1>16, <1>17, <1>18, <1>19, <1>20 DEF Next

\* Every reachable state has the types the rows and the calls have.
THEOREM CodeTypeCorrect == Spec => []TypeOK
BY InitTypeOK, NextTypeOK, PTL DEF Spec

-----------------------------------------------------------------------------
(* The rows, the tokens and the calls under way agree about the codes.     *)

LEMMA InitCodeInv == Init => CodeInv
BY CodeConstantsOK DEF Init, CodeInv, IdsNameCodes, EffectIsRecorded, FlowsAreSeparate,
   FailuresWithinLimit, UsedOnce, OneAccount, Idle

\* What a step that neither touches the row nor makes an effect must keep.
LEMMA RowAndEffectsKept ==
  ASSUME CodeInv, UNCHANGED <<purpose, row, codes, account, acted>>
  PROVE  /\ EffectIsRecorded' /\ FailuresWithinLimit' /\ UsedOnce' /\ OneAccount'
         /\ (row # NoRow => row.id = codes /\ row.code = codes)'
BY DEF CodeInv, IdsNameCodes, EffectIsRecorded, FailuresWithinLimit, UsedOnce, OneAccount

\* A call that ends, or that reads less than an id, names no code.
LEMMA CallLetGo ==
  ASSUME TypeOK, CodeInv, NEW k \in Calls, NEW c, c.op \notin {"VERIFY", "RESET"},
         c.op = "SIGNUP" => purpose = "SIGNUP",
         call' = [call EXCEPT ![k] = c],
         UNCHANGED <<purpose, codes, tokens>>,
         (row # NoRow => row.id = codes /\ row.code = codes)'
  PROVE  IdsNameCodes' /\ FlowsAreSeparate'
BY DEF TypeOK, CodeInv, IdsNameCodes, FlowsAreSeparate

\* A code is marked used in the row it is in: the call that names the row has
\* the row's code, and that code has had no effect before.
LEMMA MarkUsed ==
  ASSUME TypeOK, CodeInv, NEW k \in Calls, call[k].op \in {"VERIFY", "RESET"},
         purpose # "SIGNUP",
         Usable(call[k].id),
         row' = [row EXCEPT !.done = "FRESH"], acted' = Counted(call[k].code),
         call' = Finished(k),
         UNCHANGED <<purpose, codes, mailed, tokens, account>>
  PROVE  CodeInv'
<1>1. call[k].id \in Codes /\ call[k].code \in Codes
  BY CallFields
<1>2. row # NoRow
  BY <1>1 DEF Usable, NoRow, Codes
<1>3. row \in Rows /\ call[k].code = row.code /\ row.code = codes /\ row.id = codes
  BY <1>2, RowFields, CallFields DEF Usable, CodeInv, IdsNameCodes
<1>4. acted[row.code] = 0
  BY <1>1, <1>2, <1>3 DEF TypeOK, Usable, CodeInv, EffectIsRecorded
<1>5. /\ row'.id = row.id /\ row'.code = row.code /\ row'.failed = row.failed
      /\ row'.done = "FRESH"
  BY <1>3 DEF Rows
<1>6. acted' = [acted EXCEPT ![row.code] = 1]
  BY <1>3, <1>4 DEF Counted
<1>7. IdsNameCodes' /\ FlowsAreSeparate'
  BY <1>3, <1>5, CallLetGo DEF Finished, Idle
<1>8. EffectIsRecorded'
  <2>1. \A c \in Codes : acted'[c] > 0 => acted[c] > 0 \/ c = codes
    BY <1>1, <1>3, <1>6 DEF TypeOK
  <2> QED BY <1>3, <1>5, <2>1, CodeConstantsOK DEF TypeOK, Codes, CodeInv, EffectIsRecorded
<1>9. FailuresWithinLimit'
  BY <1>2, <1>5 DEF CodeInv, FailuresWithinLimit
<1>10. UsedOnce' /\ OneAccount'
  BY <1>1, <1>3, <1>6 DEF TypeOK, CodeInv, UsedOnce, OneAccount
<1> QED BY <1>7, <1>8, <1>9, <1>10 DEF CodeInv

LEMMA NextCodeInv == TypeOK /\ CodeInv /\ [Next]_vars => CodeInv'
<1> SUFFICES ASSUME TypeOK, CodeInv, [Next]_vars PROVE CodeInv'
  OBVIOUS
<1>1. ASSUME NEW k \in Calls, SendCode(k) PROVE CodeInv'
  BY <1>1, RowAndEffectsKept, CallLetGo DEF SendCode, CodeInv
<1>2. ASSUME NEW k \in Calls, ReplaceCode(k) PROVE CodeInv'
  <2>1. codes + 1 \in Codes /\ codes \in Nat
    BY <1>2, NextCode, CodeConstantsOK DEF ReplaceCode, TypeOK, Codes
  <2>2. /\ row' = NewRow /\ codes' = codes + 1
        /\ call' = [call EXCEPT ![k] = [op |-> "MAIL", code |-> codes + 1]]
        /\ UNCHANGED <<purpose, mailed, tokens, account, acted>>
    BY <1>2 DEF ReplaceCode
  <2>3. row'.id = codes + 1 /\ row'.code = codes + 1 /\ row'.failed = 0 /\ row'.done = "NO"
    BY <2>2 DEF NewRow, NewId
  <2>4. \A t \in tokens : t.code \in Nat
    BY DEF TypeOK, Codes
  <2>5. \A j \in Calls : call[j].op \in {"VERIFY", "RESET"} => call[j].code \in Nat
    BY CallFields DEF Codes
  <2>6. IdsNameCodes'
    BY <2>1, <2>2, <2>3, <2>4, <2>5 DEF TypeOK, CodeInv, IdsNameCodes
  <2>7. FlowsAreSeparate'
    BY <2>2 DEF TypeOK, CodeInv, FlowsAreSeparate
  <2>8. EffectIsRecorded'
    BY <2>1, <2>2, <2>3 DEF CodeInv, EffectIsRecorded, Codes
  <2>9. FailuresWithinLimit' /\ UsedOnce' /\ OneAccount'
    BY <2>2, <2>3, CodeConstantsOK
    DEF CodeInv, FailuresWithinLimit, UsedOnce, OneAccount
  <2> QED BY <2>6, <2>7, <2>8, <2>9 DEF CodeInv
<1>3. ASSUME NEW k \in Calls, SendConflict(k) PROVE CodeInv'
  BY <1>3, RowAndEffectsKept, CallLetGo DEF SendConflict, Finished, Idle, CodeInv
<1>4. ASSUME NEW k \in Calls, Mail(k) PROVE CodeInv'
  BY <1>4, RowAndEffectsKept, CallLetGo DEF Mail, Finished, Idle, CodeInv
<1>5. ASSUME NEW k \in Calls, NEW right \in BOOLEAN, VerifyCode(k, right) PROVE CodeInv'
  <2>1. row.id = codes /\ row.code = codes /\ codes \in Int
    BY <1>5, RowFields DEF VerifyCode, CodeInv, IdsNameCodes, Codes
  <2>2. IdsNameCodes' /\ FlowsAreSeparate'
    BY <1>5, <2>1 DEF VerifyCode, TypeOK, CodeInv, IdsNameCodes, FlowsAreSeparate
  <2> QED BY <1>5, <2>2, RowAndEffectsKept DEF VerifyCode, CodeInv
<1>6. ASSUME NEW k \in Calls, WrongCode(k) PROVE CodeInv'
  <2>1. CASE ~CountsFailure(k)
    BY <1>6, <2>1, RowAndEffectsKept, CallLetGo DEF WrongCode, Finished, Idle, CodeInv
  <2>2. CASE CountsFailure(k)
    <3>1. row # NoRow /\ row \in Rows /\ row.failed \in Nat
      BY <1>6, <2>2, CallFields, RowFields DEF WrongCode, CountsFailure, NoRow, Codes
    <3>2. row' = [row EXCEPT !.failed = row.failed + 1]
      BY <1>6, <2>2 DEF WrongCode
    <3>3. /\ row'.id = row.id /\ row'.code = row.code /\ row'.done = row.done
          /\ row'.failed = row.failed + 1
      BY <3>1, <3>2 DEF Rows
    <3>4. FailuresWithinLimit'
      BY <2>2, <3>1, <3>3, CodeConstantsOK DEF CountsFailure, FailuresWithinLimit
    <3>5. IdsNameCodes' /\ FlowsAreSeparate'
      BY <1>6, <3>1, <3>3, CallLetGo DEF WrongCode, Finished, Idle, CodeInv, IdsNameCodes
    <3>6. EffectIsRecorded' /\ UsedOnce' /\ OneAccount'
      BY <1>6, <3>1, <3>3 DEF WrongCode, CodeInv, EffectIsRecorded, UsedOnce, OneAccount
    <3> QED BY <3>4, <3>5, <3>6 DEF CodeInv
  <2> QED BY <2>1, <2>2
<1>7. ASSUME NEW k \in Calls, AcceptSignupCode(k) PROVE CodeInv'
  <2>1. CASE ~MarksSignup(k)
    BY <1>7, <2>1, RowAndEffectsKept, CallLetGo DEF AcceptSignupCode, Finished, Idle, CodeInv
  <2>2. CASE MarksSignup(k)
    <3>1. row # NoRow /\ row \in Rows
      BY <1>7, <2>2, CallFields, RowFields DEF AcceptSignupCode, MarksSignup, NoRow, Codes
    <3>2. row' = [row EXCEPT !.done = "FRESH"]
      BY <1>7, <2>2 DEF AcceptSignupCode
    <3>3. row'.id = row.id /\ row'.code = row.code /\ row'.failed = row.failed
      BY <3>1, <3>2 DEF Rows
    <3>4. IdsNameCodes' /\ FlowsAreSeparate'
      BY <1>7, <3>1, <3>3, CallLetGo DEF AcceptSignupCode, Finished, Idle, CodeInv, IdsNameCodes
    <3>5. \A c \in Codes : acted[c] > 0 => row.code # c
      BY <1>7, <3>1 DEF AcceptSignupCode, CodeInv, EffectIsRecorded
    <3>6. EffectIsRecorded' /\ UsedOnce' /\ OneAccount' /\ FailuresWithinLimit'
      BY <1>7, <3>1, <3>3, <3>5
      DEF AcceptSignupCode, CodeInv, EffectIsRecorded, UsedOnce, OneAccount, FailuresWithinLimit
    <3> QED BY <3>4, <3>6 DEF CodeInv
  <2> QED BY <2>1, <2>2
<1>8. ASSUME NEW k \in Calls, AcceptResetCode(k) PROVE CodeInv'
  <2>1. call[k].id = call[k].code /\ call[k].code <= codes
    BY <1>8 DEF AcceptResetCode, CodeInv, IdsNameCodes
  <2>2. IdsNameCodes' /\ FlowsAreSeparate'
    BY <1>8, <2>1
    DEF AcceptResetCode, TypeOK, CodeInv, IdsNameCodes, FlowsAreSeparate, Finished, Idle
  <2> QED BY <1>8, <2>2, RowAndEffectsKept DEF AcceptResetCode, CodeInv
<1>9. ASSUME NEW k \in Calls, AcceptEditCode(k) PROVE CodeInv'
  <2>1. CASE Usable(call[k].id)
    BY <1>9, <2>1, MarkUsed DEF AcceptEditCode
  <2>2. CASE ~Usable(call[k].id)
    BY <1>9, <2>2, RowAndEffectsKept, CallLetGo DEF AcceptEditCode, Finished, Idle, CodeInv
  <2> QED BY <2>1, <2>2
<1>10. ASSUME NEW k \in Calls, SignupCheck(k) PROVE CodeInv'
  <2> DEFINE c == [op |-> "SIGNUP",
                   fresh |-> IF row # NoRow /\ row.done = "FRESH" THEN row.id ELSE 0]
  <2>1. call' = [call EXCEPT ![k] = c] /\ purpose = "SIGNUP"
    BY <1>10 DEF SignupCheck
  <2>2. UNCHANGED <<purpose, row, codes, mailed, tokens, account, acted>>
    BY <1>10 DEF SignupCheck
  <2>3. c.op = "SIGNUP"
    OBVIOUS
  <2> HIDE DEF c
  <2>4. EffectIsRecorded' /\ FailuresWithinLimit' /\ UsedOnce' /\ OneAccount'
    BY <2>2, RowAndEffectsKept
  <2>5. IdsNameCodes' /\ FlowsAreSeparate'
    BY <2>1, <2>2, <2>3, RowAndEffectsKept, CallLetGo
  <2> QED BY <2>4, <2>5 DEF CodeInv
<1>11. ASSUME NEW k \in Calls, Signup(k) PROVE CodeInv'
  <2>1. row # NoRow /\ row.code \in Codes /\ row.code = codes /\ purpose = "SIGNUP"
    BY <1>11, RowFields DEF Signup, Verified, CodeInv, IdsNameCodes, FlowsAreSeparate
  <2>2. \A c \in Codes : acted[c] = 0
    BY <1>11, <2>1 DEF Signup, EmailFree, TypeOK, CodeInv, EffectIsRecorded
  <2>3. acted' = [acted EXCEPT ![row.code] = 1]
    <3>1. acted[row.code] = 0
      BY <2>1, <2>2
    <3>2. acted' = [acted EXCEPT ![row.code] = acted[row.code] + 1]
      BY <1>11 DEF Signup, Counted
    <3> QED BY <3>1, <3>2
  <2>4. IdsNameCodes' /\ FlowsAreSeparate'
    BY <1>11, CallLetGo DEF Signup, Finished, Idle
  <2>5. row' = NoRow /\ account' /\ codes' = codes
    BY <1>11 DEF Signup
  <2>6. \A c \in Codes : acted'[c] = IF c = row.code THEN 1 ELSE 0
    BY <2>1, <2>2, <2>3 DEF TypeOK
  <2>7. EffectIsRecorded'
    BY <2>1, <2>5, <2>6 DEF EffectIsRecorded, Codes
  <2>8. UsedOnce' /\ OneAccount' /\ FailuresWithinLimit'
    BY <2>5, <2>6 DEF UsedOnce, OneAccount, FailuresWithinLimit
  <2> QED BY <2>4, <2>7, <2>8 DEF CodeInv
<1>12. ASSUME NEW k \in Calls, SignupRefused(k) PROVE CodeInv'
  BY <1>12, RowAndEffectsKept, CallLetGo DEF SignupRefused, Finished, Idle, CodeInv
<1>13. ASSUME NEW k \in Calls, NEW t \in tokens, ResetCheck(k, t) PROVE CodeInv'
  <2>1. t.id = t.code /\ t.code <= codes /\ purpose = "RESET"
    BY DEF CodeInv, IdsNameCodes, FlowsAreSeparate
  <2>2. IdsNameCodes' /\ FlowsAreSeparate'
    BY <1>13, <2>1 DEF ResetCheck, TypeOK, CodeInv, IdsNameCodes, FlowsAreSeparate
  <2> QED BY <1>13, <2>2, RowAndEffectsKept DEF ResetCheck, CodeInv
<1>14. ASSUME NEW k \in Calls, ResetPassword(k) PROVE CodeInv'
  <2>1. CASE Usable(call[k].id)
    BY <1>14, <2>1, MarkUsed DEF ResetPassword, CodeInv, FlowsAreSeparate
  <2>2. CASE ~Usable(call[k].id)
    BY <1>14, <2>2, RowAndEffectsKept, CallLetGo DEF ResetPassword, Finished, Idle, CodeInv
  <2> QED BY <2>1, <2>2
<1>15. ASSUME NEW k \in Calls, CallFails(k) PROVE CodeInv'
  BY <1>15, RowAndEffectsKept, CallLetGo DEF CallFails, Finished, Idle, CodeInv
<1>16. CASE CodeExpires
  <2>1. row # NoRow /\ row \in Rows
    BY <1>16, RowFields DEF CodeExpires
  <2>2. /\ row'.id = row.id /\ row'.code = row.code /\ row'.failed = row.failed
        /\ row'.done = row.done
    BY <1>16, <2>1 DEF CodeExpires, Rows
  <2> QED BY <1>16, <2>1, <2>2
          DEF CodeExpires, CodeInv, IdsNameCodes, EffectIsRecorded, FlowsAreSeparate,
              FailuresWithinLimit, UsedOnce, OneAccount
<1>17. CASE VerificationGoesStale
  <2>1. row # NoRow /\ row \in Rows
    BY <1>17, RowFields DEF VerificationGoesStale
  <2>2. /\ row'.id = row.id /\ row'.code = row.code /\ row'.failed = row.failed
        /\ row'.done = "STALE"
    BY <1>17, <2>1 DEF VerificationGoesStale, Rows
  <2> QED BY <1>17, <2>1, <2>2
          DEF VerificationGoesStale, CodeInv, IdsNameCodes, EffectIsRecorded, FlowsAreSeparate,
              FailuresWithinLimit, UsedOnce, OneAccount
<1>18. ASSUME NEW t \in tokens, TokenExpires(t) PROVE CodeInv'
  <2>1. IdsNameCodes' /\ FlowsAreSeparate'
    BY <1>18 DEF TokenExpires, CodeInv, IdsNameCodes, FlowsAreSeparate
  <2> QED BY <1>18, <2>1, RowAndEffectsKept DEF TokenExpires, CodeInv
<1>19. CASE Restart
  <2>1. IdsNameCodes' /\ FlowsAreSeparate'
    BY <1>19 DEF Restart, Idle, CodeInv, IdsNameCodes, FlowsAreSeparate
  <2> QED BY <1>19, <2>1, RowAndEffectsKept DEF Restart, CodeInv
<1>20. CASE UNCHANGED vars
  BY <1>20 DEF vars, CodeInv, IdsNameCodes, EffectIsRecorded, FlowsAreSeparate,
               FailuresWithinLimit, UsedOnce, OneAccount
<1> QED BY <1>1, <1>2, <1>3, <1>4, <1>5, <1>6, <1>7, <1>8, <1>9, <1>10, <1>11, <1>12,
           <1>13, <1>14, <1>15, <1>16, <1>17, <1>18, <1>19, <1>20 DEF Next

\* The inductive invariant of the codes: the id of a row stands for its code in
\* every token and call, a code that had its effect is marked so or gone, and
\* with them the three properties below.
THEOREM CodeCorrect == Spec => []CodeInv
<1>1. Init => TypeOK /\ CodeInv
  BY InitTypeOK, InitCodeInv
<1>2. TypeOK /\ CodeInv /\ [Next]_vars => (TypeOK /\ CodeInv)'
  BY NextTypeOK, NextCodeInv
<1> QED BY <1>1, <1>2, PTL DEF Spec

\* No code has its effect twice, however many calls hold its token.
THEOREM CodeUsedOnce == Spec => []UsedOnce
<1>1. CodeInv => UsedOnce
  BY DEF CodeInv
<1> QED BY <1>1, CodeCorrect, PTL

\* Sign-ups of one email and role at once leave one account.
THEOREM CodeOneAccount == Spec => []OneAccount
<1>1. CodeInv => OneAccount
  BY DEF CodeInv
<1> QED BY <1>1, CodeCorrect, PTL

\* Wrong entries at once never count past the limit.
THEOREM CodeFailuresWithinLimit == Spec => []FailuresWithinLimit
<1>1. CodeInv => FailuresWithinLimit
  BY DEF CodeInv
<1> QED BY <1>1, CodeCorrect, PTL

-----------------------------------------------------------------------------
(* What a step may do to a code.                                           *)

\* The steps that leave the effects alone, and the three that do not.
LEMMA EffectOfNewest ==
  TypeOK /\ CodeInv /\ [Next]_vars => \A c \in Codes : acted'[c] # acted[c] => c = codes
<1> SUFFICES ASSUME TypeOK, CodeInv, [Next]_vars, NEW c \in Codes, acted'[c] # acted[c]
             PROVE  c = codes
  OBVIOUS
<1>1. CASE \E k \in Calls : AcceptEditCode(k) \/ ResetPassword(k)
  <2>1. PICK k \in Calls : AcceptEditCode(k) \/ ResetPassword(k)
    BY <1>1
  <2>2. /\ Usable(call[k].id) /\ acted' = Counted(call[k].code)
        /\ call[k].op \in {"VERIFY", "RESET"}
    BY <2>1 DEF AcceptEditCode, ResetPassword
  <2>3. row # NoRow
    BY <2>2, CallFields DEF Usable, NoRow, Codes
  <2>4. call[k].code = codes
    BY <2>2, <2>3 DEF Usable, CodeInv, IdsNameCodes
  <2> QED BY <2>2, <2>4 DEF Counted, TypeOK
<1>2. CASE \E k \in Calls : Signup(k)
  BY <1>2 DEF Signup, Verified, Counted, TypeOK, CodeInv, IdsNameCodes
<1>3. CASE UNCHANGED acted
  BY <1>3
<1> QED BY <1>1, <1>2, <1>3
        DEF Next, vars, SendCode, ReplaceCode, SendConflict, Mail, VerifyCode, WrongCode,
            AcceptSignupCode, AcceptResetCode, SignupCheck, SignupRefused, ResetCheck,
            CallFails, CodeExpires, VerificationGoesStale, TokenExpires, Restart

\* A resend voids every older code, and every token and call that holds one.
THEOREM CodeNewestOnly == Spec => NewestCodeOnly
<1>1. Init => TypeOK /\ CodeInv
  BY InitTypeOK, InitCodeInv
<1>2. TypeOK /\ CodeInv /\ [Next]_vars => (TypeOK /\ CodeInv)'
  BY NextTypeOK, NextCodeInv
<1> QED BY <1>1, <1>2, EffectOfNewest, PTL DEF Spec, NewestCodeOnly

\* A step that keeps the row of a void sign-up code does not verify it.
LEMMA VoidNotAccepted ==
  TypeOK /\ CodeInv /\ [Next]_vars =>
    (purpose = "SIGNUP" /\ row # NoRow /\ row'.id = row.id
       /\ row.done = "NO" /\ (row.expired \/ row.failed = MaxFailed)
     => row'.done = "NO")
<1> SUFFICES ASSUME TypeOK, CodeInv, [Next]_vars, purpose = "SIGNUP", row # NoRow,
                    row'.id = row.id, row.done = "NO",
                    row.expired \/ row.failed = MaxFailed
             PROVE  row'.done = "NO"
  OBVIOUS
<1>1. row \in Rows
  BY RowFields
<1>2. CASE \E k \in Calls : ReplaceCode(k)
  BY <1>2 DEF ReplaceCode, NewRow
<1>3. CASE \E k \in Calls : WrongCode(k)
  BY <1>1, <1>3 DEF WrongCode, Rows
<1>4. CASE \E k \in Calls : AcceptSignupCode(k)
  BY <1>4, CodeConstantsOK DEF AcceptSignupCode, MarksSignup
<1>5. CASE \E k \in Calls : AcceptEditCode(k) \/ ResetPassword(k)
  <2>1. ~\E k \in Calls : call[k].op = "RESET"
    BY DEF CodeInv, FlowsAreSeparate
  <2> QED BY <1>5, <2>1 DEF AcceptEditCode, ResetPassword
<1>6. CASE \E k \in Calls : Signup(k)
  BY <1>1, <1>6 DEF Signup, NoRow, Rows, Codes
<1>7. CASE CodeExpires \/ VerificationGoesStale
  BY <1>1, <1>7 DEF CodeExpires, VerificationGoesStale, Rows
<1>8. CASE UNCHANGED row
  BY <1>8
<1> QED BY <1>2, <1>3, <1>4, <1>5, <1>6, <1>7, <1>8
        DEF Next, vars, SendCode, SendConflict, Mail, VerifyCode, AcceptResetCode,
            SignupCheck, SignupRefused, ResetCheck, CallFails, TokenExpires, Restart

\* The limit and the expiry hold for a right entry that was read before them.
THEOREM CodeVoidStaysVoid == Spec => VoidStaysVoid
<1>1. Init => TypeOK /\ CodeInv
  BY InitTypeOK, InitCodeInv
<1>2. TypeOK /\ CodeInv /\ [Next]_vars => (TypeOK /\ CodeInv)'
  BY NextTypeOK, NextCodeInv
<1> QED BY <1>1, <1>2, VoidNotAccepted, PTL DEF Spec, VoidStaysVoid

=============================================================================
