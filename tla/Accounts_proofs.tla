-------------------------- MODULE Accounts_proofs ---------------------------
(***************************************************************************)
(* Proofs about Accounts, for any number of calls, moves, services and     *)
(* attempts.                                                               *)
(*                                                                         *)
(* The deletion decides on what it has read and commits later.  The        *)
(* argument says what a deletion that may still commit knows about the     *)
(* rows as they are now (Covers): whoever changes a row it relies on takes *)
(* the commit away from it (StillFresh), and every other change, such as a *)
(* profile or a service inserted since, is one the deletion leaves alone.  *)
(***************************************************************************)
EXTENDS Accounts, TLAPS

Held == {"HELD", "DUE"}

MayCommit(c) == c.op = "ERASE" /\ c.fresh

\* What a deletion that may commit relies on.
Covers(c) ==
  MayCommit(c) =>
    /\ "user" \in c.rows
    /\ c.rows \cap Services \subseteq services
    /\ profile /\ "profile" \notin c.rows => services \ c.rows # {}
    /\ \A m \in Moves \cap c.rows : move[m] \notin Held
    /\ role = "MOVER" /\ (profile => "profile" \in c.rows) =>
         \A m \in Moves : move[m] \notin Held

DeletionsCover == \A c \in Calls : Covers(call[c])

InsertsSomething == \A c \in Calls : call[c].op = "INSERT" => call[c].new # {}

\* The inductive strengthening.
AccountInv ==
  /\ TypeOK
  /\ DeletedHoldsNoMove
  /\ ProfileHasServices
  /\ DeletionsCover
  /\ InsertsSomething

\* A step that writes the rows R leaves no deletion that relies on one of them.
StillFresh(R) ==
  \A c \in Calls : MayCommit(call'[c]) =>
    MayCommit(call[c]) /\ call'[c].rows = call[c].rows /\ call[c].rows \cap R = {}

CallsKept(R) ==
  /\ call' \in [Calls -> CallStates]
  /\ StillFresh(R)
  /\ InsertsSomething'

-----------------------------------------------------------------------------
(* The table of calls.                                                     *)

LEMMA EraseState ==
  ASSUME NEW c \in CallStates, c.op = "ERASE"
  PROVE  /\ c \in [op : {"ERASE"}, n : 1..MaxAttempts, rows : SUBSET Rows, fresh : BOOLEAN]
         /\ [c EXCEPT !.fresh = FALSE] \in CallStates
         /\ [c EXCEPT !.fresh = FALSE].op = "ERASE"
         /\ ~[c EXCEPT !.fresh = FALSE].fresh
<1>1. c \in [op : {"ERASE"}, n : 1..MaxAttempts, rows : SUBSET Rows, fresh : BOOLEAN]
  BY DEF CallStates, Idle, Guarded
<1> DEFINE d == [c EXCEPT !.fresh = FALSE]
<1>2. d \in [op : {"ERASE"}, n : 1..MaxAttempts, rows : SUBSET Rows, fresh : BOOLEAN]
  BY <1>1
<1>3. ~d.fresh
  BY <1>1
<1> HIDE DEF d
<1>4. d \in CallStates /\ d.op = "ERASE"
  BY <1>2 DEF CallStates
<1> QED BY <1>1, <1>3, <1>4 DEF d

\* A commit of R takes the commit from the deletions that rely on R only.
LEMMA OutdatedCalls ==
  ASSUME TypeOK, InsertsSomething, NEW R
  PROVE  /\ Outdated(R) \in [Calls -> CallStates]
         /\ \A c \in Calls : MayCommit(Outdated(R)[c]) =>
              /\ MayCommit(call[c]) /\ Outdated(R)[c].rows = call[c].rows
              /\ call[c].rows \cap R = {}
         /\ \A c \in Calls : Outdated(R)[c].op = "INSERT" => Outdated(R)[c].new # {}
<1> DEFINE o == Outdated(R)
<1>1. \A c \in Calls : o[c] = IF call[c].op = "ERASE" /\ call[c].rows \cap R # {}
                               THEN [call[c] EXCEPT !.fresh = FALSE] ELSE call[c]
  BY DEF Outdated
<1>2. \A c \in Calls : call[c] \in CallStates
  BY DEF TypeOK
<1>3. ASSUME NEW c \in Calls
      PROVE  /\ o[c] \in CallStates
             /\ MayCommit(o[c]) => /\ MayCommit(call[c]) /\ o[c].rows = call[c].rows
                                   /\ call[c].rows \cap R = {}
             /\ o[c].op = "INSERT" => o[c].new # {}
  <2>1. CASE call[c].op = "ERASE" /\ call[c].rows \cap R # {}
    <3>1. o[c] = [call[c] EXCEPT !.fresh = FALSE]
      BY <1>1, <2>1
    <3> QED BY <1>2, <2>1, <3>1, EraseState DEF MayCommit
  <2>2. CASE ~(call[c].op = "ERASE" /\ call[c].rows \cap R # {})
    <3>1. o[c] = call[c]
      BY <1>1, <2>2
    <3> QED BY <1>2, <2>2, <3>1 DEF MayCommit, InsertsSomething
  <2> QED BY <2>1, <2>2
<1>4. o \in [Calls -> CallStates]
  BY <1>3 DEF Outdated
<1> QED BY <1>3, <1>4

LEMMA IdleState == Idle \in CallStates /\ Idle.op = "IDLE"
BY DEF CallStates, Idle

LEMMA OutdatedKept ==
  ASSUME TypeOK, InsertsSomething, NEW R, call' = Outdated(R)
  PROVE  CallsKept(R)
BY OutdatedCalls DEF CallsKept, StillFresh, InsertsSomething

LEMMA EndsWritingKept ==
  ASSUME TypeOK, InsertsSomething, NEW R, NEW k \in Calls, EndsWriting(k, R)
  PROVE  CallsKept(R)
<1> DEFINE o == Outdated(R)
<1>1. o \in [Calls -> CallStates] /\ call' = [o EXCEPT ![k] = Idle]
  BY OutdatedCalls DEF EndsWriting
<1>2. call'[k] = Idle /\ \A c \in Calls \ {k} : call'[c] = o[c]
  BY <1>1
<1>3. call' \in [Calls -> CallStates]
  BY <1>1, IdleState
<1> HIDE DEF o
<1> QED BY <1>2, <1>3, IdleState, OutdatedCalls DEF CallsKept, StillFresh, InsertsSomething, MayCommit, o

\* A call that goes on without deleting anything.
LEMMA BecomesKept ==
  ASSUME TypeOK, InsertsSomething, NEW k \in Calls, NEW s \in CallStates,
         s.op # "ERASE", s.op = "INSERT" => s.new # {}, Becomes(k, s)
  PROVE  CallsKept({})
<1>1. call \in [Calls -> CallStates] /\ call' = [call EXCEPT ![k] = s]
  BY DEF TypeOK, Becomes
<1>2. call'[k] = s /\ \A c \in Calls \ {k} : call'[c] = call[c]
  BY <1>1
<1>3. call' \in [Calls -> CallStates]
  BY <1>1
<1> QED BY <1>2, <1>3 DEF CallsKept, StillFresh, InsertsSomething, MayCommit

LEMMA EndsKept ==
  ASSUME TypeOK, InsertsSomething, NEW k \in Calls, Ends(k)
  PROVE  CallsKept({})
BY IdleState, BecomesKept DEF Ends

-----------------------------------------------------------------------------
(* What a step has to respect, by the part of the account it changes.      *)

\* Rows that deletions and the two properties do not read.
LEMMA RestStays ==
  ASSUME AccountInv, NEW R, CallsKept(R), TypeOK',
         UNCHANGED <<role, deleted, profile, services, move>>
  PROVE  AccountInv'
<1>1. DeletionsCover'
  <2> SUFFICES ASSUME NEW c \in Calls, MayCommit(call'[c]) PROVE Covers(call[c])'
    BY DEF DeletionsCover, Covers
  <2>1. Covers(call[c]) /\ MayCommit(call[c]) /\ call'[c].rows = call[c].rows
    BY DEF CallsKept, StillFresh, AccountInv, DeletionsCover
  <2> QED BY <2>1 DEF Covers, MayCommit
<1>2. DeletedHoldsNoMove' /\ ProfileHasServices'
  BY DEF AccountInv, DeletedHoldsNoMove, ProfileHasServices
<1> QED BY <1>1, <1>2 DEF AccountInv, CallsKept

\* Services are exchanged: deletions that saw one of the old are outdated.
LEMMA ServicesExchanged ==
  ASSUME AccountInv, NEW R, CallsKept(R), TypeOK', NEW new \in SUBSET Services, new # {},
         NEW old, services \cap old \subseteq R, (services \ old) \cap new = {},
         services' = (services \ old) \cup new,
         profile => profile', UNCHANGED <<role, deleted, move>>
  PROVE  AccountInv'
<1>1. DeletionsCover'
  <2> SUFFICES ASSUME NEW c \in Calls, MayCommit(call'[c]) PROVE Covers(call[c])'
    BY DEF DeletionsCover, Covers
  <2>1. Covers(call[c]) /\ MayCommit(call[c]) /\ call'[c].rows = call[c].rows
        /\ call[c].rows \cap R = {}
    BY DEF CallsKept, StillFresh, AccountInv, DeletionsCover
  <2> DEFINE rows == call[c].rows
  <2>2. "user" \in rows /\ rows \cap Services \subseteq services
    BY <2>1 DEF Covers
  <2>3. services \subseteq Services
    BY DEF AccountInv, TypeOK
  <2>4. rows \cap new = {} /\ rows \cap Services \subseteq services'
    BY <2>1, <2>2, <2>3
  <2>5. services' \ rows # {}
    BY <2>4
  <2>6. \A m \in Moves \cap rows : move'[m] \notin Held
    BY <2>1 DEF Covers
  <2>7. role = "MOVER" /\ (profile' => "profile" \in rows) =>
          \A m \in Moves : move'[m] \notin Held
    BY <2>1 DEF Covers
  <2> QED BY <2>1, <2>2, <2>4, <2>5, <2>6, <2>7 DEF Covers, MayCommit
<1>2. DeletedHoldsNoMove' /\ ProfileHasServices'
  BY DEF AccountInv, DeletedHoldsNoMove, ProfileHasServices
<1> QED BY <1>1, <1>2 DEF AccountInv, CallsKept

\* A move changes: it is held only from a profile, which outdates deletions.
LEMMA MoveChanges ==
  ASSUME AccountInv, NEW R, CallsKept(R), TypeOK', NEW m \in Moves, m \in R, NEW s,
         move' = [move EXCEPT ![m] = s],
         s \in Held => \/ move[m] \in Held
                       \/ role = "MOVER" => profile /\ "profile" \in R,
         UNCHANGED <<role, deleted, profile, services>>
  PROVE  AccountInv'
<1>0. move'[m] = s /\ \A x \in Moves \ {m} : move'[x] = move[x]
  BY DEF AccountInv, TypeOK
<1>1. DeletionsCover'
  <2> SUFFICES ASSUME NEW c \in Calls, MayCommit(call'[c]) PROVE Covers(call[c])'
    BY DEF DeletionsCover, Covers
  <2>1. Covers(call[c]) /\ MayCommit(call[c]) /\ call'[c].rows = call[c].rows
        /\ call[c].rows \cap R = {}
    BY DEF CallsKept, StillFresh, AccountInv, DeletionsCover
  <2> DEFINE rows == call[c].rows
  <2>2. \A x \in Moves \cap rows : move'[x] \notin Held
    BY <1>0, <2>1 DEF Covers
  <2>3. role = "MOVER" /\ (profile => "profile" \in rows) =>
          \A x \in Moves : move'[x] \notin Held
    BY <1>0, <2>1 DEF Covers
  <2> QED BY <2>1, <2>2, <2>3 DEF Covers, MayCommit
<1>2. DeletedHoldsNoMove'
  BY <1>0 DEF AccountInv, DeletedHoldsNoMove, Held
<1>3. ProfileHasServices'
  BY DEF AccountInv, ProfileHasServices
<1> QED BY <1>1, <1>2, <1>3 DEF AccountInv, CallsKept

-----------------------------------------------------------------------------
(* The steps.                                                              *)

Data == <<role, deleted, personal, refresh, verified, profile, services, move>>

\* A call that only reads.
LEMMA ReadingKeeps ==
  ASSUME AccountInv, CallsKept({}), UNCHANGED Data
  PROVE  AccountInv'
<1>1. TypeOK'
  BY DEF AccountInv, TypeOK, CallsKept, Data
<1> QED BY <1>1, RestStays DEF Data

LEMMA GuardsKeep ==
  ASSUME AccountInv, NEW k \in Calls,
         (\E op \in Guarded : RequireAuth(k, op)) \/ RequireProfile(k)
  PROVE  AccountInv'
<1>1. TypeOK /\ InsertsSomething /\ call[k] \in CallStates
  BY DEF AccountInv, TypeOK
<1>2. CASE \E op \in Guarded : RequireAuth(k, op)
  <2>1. PICK op \in Guarded : RequireAuth(k, op)
    BY <1>2
  <2> DEFINE s == [op |-> op, at |-> IF op \in {"REGISTER", "DELETE"} THEN "ACT" ELSE "PROFILE"]
  <2>2. s \in CallStates /\ s.op = op /\ op # "ERASE" /\ op # "INSERT"
    BY DEF CallStates, Guarded
  <2> HIDE DEF s
  <2>3. Becomes(k, s) /\ UNCHANGED Data
    BY <2>1 DEF RequireAuth, Data, s
  <2> QED BY <1>1, <2>2, <2>3, BecomesKept, ReadingKeeps
<1>3. CASE RequireProfile(k)
  <2> DEFINE s == [call[k] EXCEPT !.at = "ACT"]
  <2>1. call[k] \in [op : Guarded, at : {"PROFILE", "ACT"}]
    BY <1>1, <1>3 DEF RequireProfile, CallStates, Guarded, Idle
  <2>2. s \in [op : Guarded, at : {"PROFILE", "ACT"}]
    BY <2>1
  <2> HIDE DEF s
  <2>3. s \in CallStates /\ s.op # "ERASE" /\ s.op # "INSERT"
    BY <2>2 DEF CallStates, Guarded
  <2>4. Becomes(k, s) /\ UNCHANGED Data
    BY <1>3 DEF RequireProfile, Data, s
  <2> QED BY <1>1, <2>3, <2>4, BecomesKept, ReadingKeeps
<1> QED BY <1>2, <1>3

\* The checks of the handlers and every way a call ends without effect.
LEMMA ChecksKeep ==
  ASSUME AccountInv, NEW k \in Calls,
         \/ LoginCheck(k) \/ LogoutCheck(k) \/ RegisterCheck(k) \/ DeleteCheck(k)
         \/ DeleteRetry(k) \/ CallFails(k)
         \/ \E account, fields \in BOOLEAN, new \in SUBSET Services :
              UpdateCheck(k, account, fields, new)
  PROVE  AccountInv'
<1>1. TypeOK /\ InsertsSomething /\ call[k] \in CallStates
  BY DEF AccountInv, TypeOK
<1>2. UNCHANGED Data
  BY DEF LoginCheck, LogoutCheck, RegisterCheck, DeleteCheck, DeleteRetry, CallFails,
         UpdateCheck, Data
<1>3. CASE Ends(k)
  BY <1>1, <1>2, <1>3, EndsKept, ReadingKeeps
<1>4. CASE \E op \in {"LOGIN", "LOGOUT", "CREATE"} : Becomes(k, [op |-> op])
  <2>1. PICK op \in {"LOGIN", "LOGOUT", "CREATE"} : Becomes(k, [op |-> op])
    BY <1>4
  <2>2. [op |-> op] \in CallStates /\ [op |-> op].op = op
    BY DEF CallStates
  <2> QED BY <1>1, <1>2, <2>1, <2>2, BecomesKept, ReadingKeeps
<1>5. CASE \E account, fields \in BOOLEAN, new \in SUBSET Services :
             Becomes(k, [op |-> "WRITE", account |-> account, fields |-> fields, new |-> new])
  <2>1. PICK account, fields \in BOOLEAN, new \in SUBSET Services :
             Becomes(k, [op |-> "WRITE", account |-> account, fields |-> fields, new |-> new])
    BY <1>5
  <2> DEFINE s == [op |-> "WRITE", account |-> account, fields |-> fields, new |-> new]
  <2>2. s \in CallStates /\ s.op = "WRITE"
    BY DEF CallStates
  <2>3. Becomes(k, s)
    BY <2>1
  <2> HIDE DEF s
  <2> QED BY <1>1, <1>2, <2>2, <2>3, BecomesKept, ReadingKeeps
<1>6. CASE \E n \in 1..MaxAttempts : Becomes(k, [op |-> "ATTEMPT", n |-> n])
  <2>1. PICK n \in 1..MaxAttempts : Becomes(k, [op |-> "ATTEMPT", n |-> n])
    BY <1>6
  <2> DEFINE s == [op |-> "ATTEMPT", n |-> n]
  <2>2. s \in CallStates /\ s.op = "ATTEMPT"
    BY DEF CallStates
  <2>3. Becomes(k, s)
    BY <2>1
  <2> HIDE DEF s
  <2> QED BY <1>1, <1>2, <2>2, <2>3, BecomesKept, ReadingKeeps
<1>7. LoginCheck(k) \/ LogoutCheck(k) \/ RegisterCheck(k) => Ends(k) \/ \E op \in {"LOGIN", "LOGOUT", "CREATE"} : Becomes(k, [op |-> op])
  BY DEF LoginCheck, LogoutCheck, RegisterCheck
<1>8. DeleteCheck(k) => Ends(k) \/ Becomes(k, [op |-> "ATTEMPT", n |-> 1])
  BY DEF DeleteCheck
<1>9. ASSUME DeleteRetry(k)
      PROVE Ends(k) \/ \E n \in 1..MaxAttempts : Becomes(k, [op |-> "ATTEMPT", n |-> n])
  <2>1. call[k].n \in 1..MaxAttempts
    BY <1>1, <1>9, EraseState DEF DeleteRetry
  <2>2. call[k].n < MaxAttempts => call[k].n + 1 \in 1..MaxAttempts
    BY <2>1, AccountConstantsOK
  <2>3. Ends(k) \/ (call[k].n < MaxAttempts /\ Becomes(k, [op |-> "ATTEMPT", n |-> call[k].n + 1]))
    BY <1>9 DEF DeleteRetry, MayRetry
  <2> QED BY <2>2, <2>3
<1>10. 1 \in 1..MaxAttempts
  BY AccountConstantsOK
<1>11. CallFails(k) => Ends(k)
  BY DEF CallFails
<1>12. (\E account, fields \in BOOLEAN, new \in SUBSET Services :
          UpdateCheck(k, account, fields, new)) => Ends(k) \/
         \E account, fields \in BOOLEAN, new \in SUBSET Services :
             Becomes(k, [op |-> "WRITE", account |-> account, fields |-> fields, new |-> new])
  BY DEF UpdateCheck
<1> QED BY <1>3, <1>4, <1>5, <1>6, <1>7, <1>8, <1>9, <1>10, <1>11, <1>12

\* Tokens, passwords and the editing code: columns no deletion decides on.
LEMMA SessionsKeep ==
  ASSUME AccountInv,
         \/ \E k \in Calls : StoreToken(k) \/ Logout(k)
         \/ ResetPassword \/ VerifyEmail \/ VerificationEnds
  PROVE  AccountInv'
<1>1. TypeOK /\ InsertsSomething
  BY DEF AccountInv
<1>2. \E R : CallsKept(R)
  <2>1. ASSUME NEW k \in Calls, StoreToken(k) \/ Logout(k) PROVE CallsKept({"user"})
    BY <1>1, <2>1, EndsWritingKept DEF StoreToken, Logout
  <2>2. ResetPassword => CallsKept({"user"})
    BY <1>1, OutdatedKept DEF ResetPassword
  <2>3. call' = call => CallsKept({})
    BY <1>1 DEF CallsKept, StillFresh, InsertsSomething, TypeOK, MayCommit
  <2> QED BY <2>1, <2>2, <2>3 DEF VerifyEmail, VerificationEnds
<1>3. UNCHANGED <<role, deleted, profile, services, move>>
  BY DEF StoreToken, Logout, ResetPassword, VerifyEmail, VerificationEnds
<1>4. TypeOK'
  BY <1>1, <1>2 DEF TypeOK, CallsKept, StoreToken, Logout, ResetPassword, VerifyEmail,
     VerificationEnds
<1> QED BY <1>2, <1>3, <1>4, RestStays

LEMMA RegisterKeeps ==
  ASSUME AccountInv, NEW k \in Calls, NEW new \in (SUBSET Services) \ {{}},
         RegisterProfile(k, new)
  PROVE  AccountInv'
<1>1. TypeOK /\ InsertsSomething
  BY DEF AccountInv
<1>2. CASE Ends(k) /\ UNCHANGED <<profile, services>>
  <2>1. UNCHANGED Data
    BY <1>2 DEF RegisterProfile, Data
  <2> QED BY <1>1, <1>2, <2>1, EndsKept, ReadingKeeps
<1>3. CASE ~profile /\ services \cap new = {} /\ profile' = TRUE
           /\ services' = services \cup new /\ EndsWriting(k, {"profile"})
  <2>1. CallsKept({"profile"})
    BY <1>1, <1>3, EndsWritingKept
  <2>2. UNCHANGED <<role, deleted, personal, refresh, verified, move>>
    BY DEF RegisterProfile
  <2>3. TypeOK'
    BY <1>1, <1>3, <2>1, <2>2 DEF TypeOK, CallsKept
  <2>4. services' = (services \ {}) \cup new
    BY <1>3
  <2> QED BY <1>3, <2>1, <2>2, <2>3, <2>4, ServicesExchanged
<1> QED BY <1>2, <1>3 DEF RegisterProfile

LEMMA UpdateKeeps ==
  ASSUME AccountInv, NEW k \in Calls,
         UpdateColumns(k) \/ DeleteServices(k) \/ InsertServices(k)
  PROVE  AccountInv'
<1>1. TypeOK /\ InsertsSomething /\ call[k] \in CallStates /\ services \subseteq Services
  BY DEF AccountInv, TypeOK
<1>2. CASE Ends(k) /\ UNCHANGED Data
  BY <1>1, <1>2, EndsKept, ReadingKeeps
<1>3. CASE DeleteServices(k)
  <2> DEFINE s == [op |-> "INSERT", account |-> call[k].account, fields |-> call[k].fields,
                   old |-> services, new |-> call[k].new]
  <2>1. call[k] \in [op : {"WRITE"}, account : BOOLEAN, fields : BOOLEAN, new : SUBSET Services]
    BY <1>1, <1>3 DEF DeleteServices, CallStates, Guarded, Idle
  <2>2. s \in CallStates /\ s.op = "INSERT" /\ s.new # {}
    BY <1>1, <1>3, <2>1 DEF DeleteServices, CallStates
  <2>3. Becomes(k, s) /\ UNCHANGED Data
    BY <1>3 DEF DeleteServices, BeforeCommit, Data
  <2> HIDE DEF s
  <2> QED BY <1>1, <2>2, <2>3, BecomesKept, ReadingKeeps
<1>4. CASE UpdateColumns(k) /\ personal' = (personal \/ call[k].account)
           /\ EndsWriting(k, ColumnsWritten(k))
  <2>1. CallsKept(ColumnsWritten(k))
    BY <1>1, <1>4, EndsWritingKept
  <2>2. UNCHANGED <<role, deleted, refresh, verified, profile, services, move>>
    BY <1>4 DEF UpdateColumns
  <2>3. TypeOK'
    BY <1>1, <1>4, <2>1, <2>2 DEF TypeOK, CallsKept
  <2> QED BY <2>1, <2>2, <2>3, RestStays
<1>5. CASE /\ call[k].op = "INSERT" /\ (services \ call[k].old) \cap call[k].new = {}
           /\ personal' = (personal \/ call[k].account)
           /\ services' = (services \ call[k].old) \cup call[k].new
           /\ EndsWriting(k, ColumnsWritten(k) \cup (services \cap call[k].old))
           /\ UNCHANGED <<role, deleted, refresh, verified, profile, move>>
  <2> DEFINE R == ColumnsWritten(k) \cup (services \cap call[k].old)
             old == call[k].old
             new == call[k].new
  <2>1. CallsKept(R)
    BY <1>1, <1>5, EndsWritingKept
  <2>2. call[k] \in [op : {"INSERT"}, account : BOOLEAN, fields : BOOLEAN,
                     old : SUBSET Services, new : SUBSET Services]
    BY <1>1, <1>5 DEF CallStates, Guarded, Idle
  <2>3. new \in SUBSET Services /\ new # {}
    BY <1>1, <1>5, <2>2 DEF InsertsSomething
  <2>4. TypeOK'
    BY <1>1, <1>5, <2>1, <2>3 DEF TypeOK, CallsKept
  <2>5. services \cap old \subseteq R /\ (services \ old) \cap new = {}
        /\ services' = (services \ old) \cup new
    BY <1>5
  <2>6. (profile => profile') /\ UNCHANGED <<role, deleted, move>>
    BY <1>5
  <2> HIDE DEF R, old, new
  <2> QED BY <2>1, <2>3, <2>4, <2>5, <2>6, ServicesExchanged
<1>6. CASE UpdateColumns(k)
  BY <1>2, <1>4, <1>6 DEF UpdateColumns, Data
<1>7. CASE InsertServices(k)
  BY <1>2, <1>5, <1>7 DEF InsertServices, Data
<1> QED BY <1>3, <1>6, <1>7

\* A confirmation counts in the mover's profile: it needs it and writes it.
LEMMA MovesKeep ==
  ASSUME AccountInv, NEW m \in Moves,
         \/ \E k \in Calls : OpenMove(k, m) \/ ConfirmOwn(k, m)
         \/ ConfirmOther(m) \/ DepositExpires(m) \/ MoveGoesOn(m)
  PROVE  AccountInv'
<1>1. TypeOK /\ InsertsSomething /\ move \in [Moves -> MoveStates]
  BY DEF AccountInv, TypeOK
<1>2. UNCHANGED <<role, deleted, personal, refresh, verified, profile, services>>
  BY DEF OpenMove, ConfirmOwn, ConfirmOther, DepositExpires, MoveGoesOn
<1>3. ASSUME NEW R, CallsKept(R), m \in R, NEW s \in MoveStates,
             move' = [move EXCEPT ![m] = s],
             s \in Held => \/ move[m] \in Held
                           \/ role = "MOVER" => profile /\ "profile" \in R
      PROVE  AccountInv'
  <2>1. TypeOK'
    BY <1>1, <1>2, <1>3 DEF TypeOK, CallsKept
  <2> QED BY <1>2, <1>3, <2>1, MoveChanges
<1>4. ASSUME NEW k \in Calls, OpenMove(k, m) PROVE AccountInv'
  <2>1. CallsKept({m})
    BY <1>1, <1>4, EndsWritingKept DEF OpenMove
  <2>2. "OPEN" \in MoveStates /\ "OPEN" \notin Held /\ m \in {m}
        /\ move' = [move EXCEPT ![m] = "OPEN"]
    BY <1>4 DEF MoveStates, Held, OpenMove
  <2> QED BY <1>3, <2>1, <2>2
<1>5. m \in ConfirmRows(m) /\ (role = "MOVER" => "profile" \in ConfirmRows(m))
      /\ (CanConfirm(m) => (role = "MOVER" => profile))
  BY DEF ConfirmRows, CanConfirm
<1>6. ASSUME (\E k \in Calls : ConfirmOwn(k, m)) \/ ConfirmOther(m) PROVE AccountInv'
  <2>1. CallsKept(ConfirmRows(m))
    BY <1>1, <1>6, EndsWritingKept, OutdatedKept DEF ConfirmOwn, ConfirmOther
  <2>2. "HELD" \in MoveStates /\ CanConfirm(m) /\ move' = [move EXCEPT ![m] = "HELD"]
    BY <1>6 DEF MoveStates, ConfirmOwn, ConfirmOther
  <2> QED BY <1>3, <1>5, <2>1, <2>2
<1>7. ASSUME DepositExpires(m) PROVE AccountInv'
  <2>1. CallsKept(ConfirmRows(m))
    BY <1>1, <1>7, OutdatedKept DEF DepositExpires
  <2>2. "OPEN" \in MoveStates /\ "OPEN" \notin Held /\ move' = [move EXCEPT ![m] = "OPEN"]
    BY <1>7 DEF MoveStates, Held, DepositExpires
  <2> QED BY <1>3, <1>5, <2>1, <2>2
<1>8. ASSUME MoveGoesOn(m) PROVE AccountInv'
  <2>1. CallsKept({m})
    BY <1>1, <1>8, OutdatedKept DEF MoveGoesOn
  <2>2. PICK s \in {"DUE", "DONE", "CLOSED"} :
          move' = [move EXCEPT ![m] = s] /\ (s = "DUE" => move[m] = "HELD")
    BY <1>8 DEF MoveGoesOn
  <2>3. s \in MoveStates /\ (s \in Held => move[m] \in Held) /\ m \in {m}
    BY <2>2 DEF MoveStates, Held
  <2> QED BY <1>3, <2>1, <2>2, <2>3
<1> QED BY <1>4, <1>6, <1>7, <1>8

\* A deletion begins with what it has read, and that is what holds now.
LEMMA DeleteBeginKeeps ==
  ASSUME AccountInv, NEW k \in Calls, DeleteBegin(k)
  PROVE  AccountInv'
<1>1. TypeOK /\ InsertsSomething /\ call[k] \in CallStates /\ services \subseteq Services
      /\ call \in [Calls -> CallStates]
  BY DEF AccountInv, TypeOK
<1>2. UNCHANGED Data
  BY DEF DeleteBegin, Data
<1>3. CASE Ends(k)
  BY <1>1, <1>2, <1>3, EndsKept, ReadingKeeps
<1>4. CASE ~Unfinished /\ Becomes(k, [op |-> "ERASE", n |-> call[k].n, rows |-> DeletionRows,
                                      fresh |-> TRUE])
  <2> DEFINE s == [op |-> "ERASE", n |-> call[k].n, rows |-> DeletionRows, fresh |-> TRUE]
  <2>1. call[k] \in [op : {"ATTEMPT"}, n : 1..MaxAttempts]
    BY <1>1 DEF DeleteBegin, CallStates, Guarded, Idle
  <2>2. DeletionRows \subseteq Rows
    BY <1>1 DEF DeletionRows, Rows, Erased
  <2>3. s \in CallStates /\ s.op = "ERASE" /\ s.rows = DeletionRows
    BY <2>1, <2>2 DEF CallStates
  <2>4. call' = [call EXCEPT ![k] = s]
    BY <1>4 DEF Becomes
  <2> HIDE DEF s
  <2>5. call'[k] = s /\ (\A c \in Calls \ {k} : call'[c] = call[c])
        /\ call' \in [Calls -> CallStates]
    BY <1>1, <2>3, <2>4
  <2>6. \A m \in Moves : move[m] \notin Held
    BY <1>4 DEF Unfinished, Held
  <2>7. Covers(s)
    <3>1. DeletionRows \cap Services = services
      BY <1>1, AccountConstantsOK DEF DeletionRows, Erased
    <3>2. "user" \in DeletionRows /\ (profile => "profile" \in DeletionRows)
      BY DEF DeletionRows
    <3> QED BY <2>3, <2>6, <3>1, <3>2 DEF Covers
  <2>8. ASSUME NEW c \in Calls PROVE Covers(call[c])'
    <3>1. Covers(call'[c])
      BY <2>5, <2>7 DEF AccountInv, DeletionsCover
    <3> QED BY <1>2, <3>1 DEF Covers, Data, MayCommit
  <2>9. TypeOK' /\ InsertsSomething'
    BY <1>1, <1>2, <2>3, <2>5 DEF TypeOK, InsertsSomething, Data
  <2>10. DeletedHoldsNoMove' /\ ProfileHasServices'
    BY <1>2 DEF AccountInv, DeletedHoldsNoMove, ProfileHasServices, Data
  <2> QED BY <2>8, <2>9, <2>10 DEF AccountInv, DeletionsCover
<1> QED BY <1>3, <1>4 DEF DeleteBegin

\* It commits what it covers; every other deletion relied on the user's row.
LEMMA DeleteCommitKeeps ==
  ASSUME AccountInv, NEW k \in Calls, DeleteCommit(k)
  PROVE  AccountInv'
<1> DEFINE rows == call[k].rows
<1>1. TypeOK /\ InsertsSomething /\ move \in [Moves -> MoveStates] /\ services \subseteq Services
  BY DEF AccountInv, TypeOK
<1>2. MayCommit(call[k]) /\ Covers(call[k])
  BY DEF DeleteCommit, CanCommit, MayCommit, AccountInv, DeletionsCover
<1>3. CallsKept(rows)
  BY <1>1, EndsWritingKept DEF DeleteCommit
<1>4. "user" \in rows
  BY <1>2 DEF Covers
<1>5. \A m \in Moves : move'[m] \in {"NONE", move[m]}
  BY DEF DeleteCommit
<1>6. DeletionsCover'
  <2>1. ASSUME NEW c \in Calls, MayCommit(call'[c]) PROVE FALSE
    <3>1. MayCommit(call[c]) /\ call[c].rows \cap rows = {}
      BY <1>3, <2>1 DEF CallsKept, StillFresh
    <3>2. "user" \in call[c].rows
      BY <3>1 DEF AccountInv, DeletionsCover, Covers
    <3> QED BY <1>4, <3>1, <3>2
  <2> QED BY <2>1 DEF DeletionsCover, Covers, MayCommit
<1>7. TypeOK'
  <2>1. move' \in [Moves -> MoveStates]
    BY <1>1 DEF DeleteCommit, MoveStates
  <2>2. services' \subseteq Services
    BY <1>1 DEF DeleteCommit
  <2>3. profile' \in BOOLEAN
    BY DEF DeleteCommit
  <2> QED BY <1>1, <1>3, <2>1, <2>2, <2>3 DEF TypeOK, CallsKept, DeleteCommit
<1>8. DeletedHoldsNoMove'
  <2> SUFFICES ASSUME role' = "MOVER", ~profile', NEW m \in Moves
               PROVE  move'[m] \notin {"HELD", "DUE"}
    BY DEF DeletedHoldsNoMove
  <2>1. role = "MOVER" /\ (profile => "profile" \in rows)
    BY DEF DeleteCommit
  <2>2. move[m] \notin Held
    BY <1>2, <2>1 DEF Covers
  <2> QED BY <1>5, <2>2 DEF Held
<1>9. ProfileHasServices'
  <2> SUFFICES ASSUME profile' PROVE services' # {}
    BY DEF ProfileHasServices
  <2>1. profile /\ "profile" \notin rows /\ services' = services \ rows
    BY DEF DeleteCommit
  <2> QED BY <1>2, <2>1 DEF Covers
<1> QED BY <1>3, <1>6, <1>7, <1>8, <1>9 DEF AccountInv, CallsKept

LEMMA RestartKeeps ==
  ASSUME AccountInv, Restart
  PROVE  AccountInv'
<1>1. call' \in [Calls -> CallStates] /\ \A c \in Calls : call'[c] = Idle
  BY IdleState DEF Restart
<1>2. CallsKept({})
  BY <1>1, IdleState DEF CallsKept, StillFresh, InsertsSomething, MayCommit
<1>3. UNCHANGED Data
  BY DEF Restart, Data
<1> QED BY <1>2, <1>3, ReadingKeeps

LEMMA AccountStep ==
  ASSUME AccountInv, [Next]_vars
  PROVE  AccountInv'
<1>1. CASE UNCHANGED vars
  <2>1. CallsKept({}) /\ UNCHANGED Data
    BY <1>1 DEF vars, AccountInv, TypeOK, CallsKept, StillFresh, InsertsSomething, MayCommit, Data
  <2> QED BY <2>1, ReadingKeeps
<1>2. ASSUME NEW k \in Calls, NEW m \in Moves, OpenMove(k, m) \/ ConfirmOwn(k, m)
      PROVE AccountInv'
  BY <1>2, MovesKeep
<1>3. CASE Next
  BY <1>2, <1>3, GuardsKeep, ChecksKeep, SessionsKeep, RegisterKeeps, UpdateKeeps, MovesKeep,
     DeleteBeginKeeps, DeleteCommitKeeps, RestartKeeps DEF Next
<1> QED BY <1>1, <1>3

-----------------------------------------------------------------------------
(* Theorems.                                                               *)

\* What every committed state of an account satisfies (auth.repository.ts,
\* profile.repository.ts), with what the deletions under way rely on.
THEOREM AccountCorrect == Spec => []AccountInv
<1>1. Init => AccountInv
  <2> SUFFICES ASSUME Init PROVE AccountInv
    OBVIOUS
  <2>1. call \in [Calls -> CallStates] /\ \A c \in Calls : call[c] = Idle
    BY IdleState DEF Init
  <2>2. TypeOK
    BY <2>1 DEF Init, TypeOK, MoveStates
  <2> QED BY <2>1, <2>2, IdleState DEF Init, AccountInv, DeletedHoldsNoMove, ProfileHasServices,
       DeletionsCover, Covers, MayCommit, InsertsSomething
<1>2. AccountInv /\ [Next]_vars => AccountInv'
  BY AccountStep
<1> QED BY <1>1, <1>2, PTL DEF Spec

\* Every value stays of its type.
THEOREM AccountTypeCorrect == Spec => []TypeOK
<1>1. AccountInv => TypeOK
  BY DEF AccountInv
<1> QED BY <1>1, AccountCorrect, PTL

\* A deleted mover without a profile holds no confirmed or unpaid move
\* (deleteMoverAccount counts them before it deletes).
THEOREM DeletedMoverIsFree == Spec => []DeletedHoldsNoMove
<1>1. AccountInv => DeletedHoldsNoMove
  BY DEF AccountInv
<1> QED BY <1>1, AccountCorrect, PTL

\* A profile has a service: updateCustomerAccount and updateMoverAccount replace
\* the rows in one transaction, and no deletion erases rows inserted since.
THEOREM ServicesStay == Spec => []ProfileHasServices
<1>1. AccountInv => ProfileHasServices
  BY DEF AccountInv
<1> QED BY <1>1, AccountCorrect, PTL

\* A deletion never takes a confirmed or unpaid move with it: a confirmation
\* between its check and its commit makes it start again (deleteAccount).
THEOREM DeletionSparesHeldMoves == Spec => HeldMovesSurvive
<1> DEFINE Spares == \A m \in Moves : move[m] \in {"HELD", "DUE"} => move'[m] # "NONE"
<1>1. AccountInv /\ [Next]_vars => [Spares]_vars
  <2> SUFFICES ASSUME AccountInv, Next, NEW m \in Moves, move[m] \in {"HELD", "DUE"}
               PROVE  move'[m] # "NONE"
    BY DEF vars
  <2>1. move \in [Moves -> MoveStates]
    BY DEF AccountInv, TypeOK
  <2>2. ASSUME NEW k \in Calls, DeleteCommit(k) PROVE move'[m] = move[m]
    <3>1. MayCommit(call[k]) /\ Covers(call[k])
      BY <2>2 DEF DeleteCommit, CanCommit, MayCommit, AccountInv, DeletionsCover
    <3>2. m \notin call[k].rows
      BY <3>1 DEF Covers, Held
    <3> QED BY <2>2, <3>2 DEF DeleteCommit
  <2>3. ASSUME NEW x \in Moves,
               \/ \E k \in Calls : OpenMove(k, x) \/ ConfirmOwn(k, x)
               \/ ConfirmOther(x) \/ DepositExpires(x) \/ MoveGoesOn(x)
        PROVE  move'[m] # "NONE"
    BY <2>1, <2>3 DEF OpenMove, ConfirmOwn, ConfirmOther, DepositExpires, MoveGoesOn
  <2>4. UNCHANGED move \/ (\E k \in Calls : DeleteCommit(k))
        \/ \E x \in Moves : \/ \E k \in Calls : OpenMove(k, x) \/ ConfirmOwn(k, x)
                            \/ ConfirmOther(x) \/ DepositExpires(x) \/ MoveGoesOn(x)
    BY DEF Next, RequireAuth, RequireProfile, LoginCheck, StoreToken, LogoutCheck, Logout,
       RegisterCheck, RegisterProfile, UpdateCheck, UpdateColumns, DeleteServices,
       InsertServices, DeleteCheck, DeleteBegin, DeleteRetry, CallFails, ResetPassword,
       VerifyEmail, VerificationEnds, Restart
  <2> QED BY <2>2, <2>3, <2>4
<1> QED BY <1>1, AccountCorrect, PTL DEF Spec, HeldMovesSurvive
=============================================================================
