-------------------------- MODULE ChatRoom_proofs --------------------------
(***************************************************************************)
(* Proofs about ChatRoom: types, the events that reach every connection    *)
(* that works, the reminder that is sent once, and the notification that   *)
(* is unread only for a reason.                                            *)
(***************************************************************************)
EXTENDS ChatRoom, TLAPS

\* What the process writes to includes every connection that works.
SocketInv == \A c \in Connections : socket[c] \in {"OPEN", "FULL"} => c \in targets[Owner[c]]

\* An attempt of the job carries the events of its own insert.
AttemptInv == \A k \in Calls : call[k].op \in {"INSERT", "REMINDED"} => call[k].queue = 1

\* An open message belongs to one call.
OpenInv ==
  /\ \A k \in Calls : call[k].op = "INSERTED" =>
       message[call[k].id] = [from |-> call[k].user, status |-> "OPEN"]
  /\ \A j, k \in Calls :
       call[j].op = "INSERTED" /\ call[k].op = "INSERTED" /\ call[j].id = call[k].id => j = k

\* Marks, and what a read is about to mark, are messages that are committed.
MarkInv ==
  /\ \A u \in Users : mark[u] # 0 => mark[u] \in Committed
  /\ \A k \in Calls : call[k].op \in {"READ", "READ_CARD"} => call[k].latest \in Committed

\* The counterpart of u has a message after i, or one that was late.
HasLater(u, i) ==
  \/ \E j \in Committed : j > i /\ message[j].from = Counterpart(u)
  \/ \E j \in Ids : message[j].status = "LATE" /\ message[j].from = Counterpart(u)

\* An unread notification has a reason, and keeps one when a read that has been
\* past it moves the mark.
CardInv ==
  /\ \A u \in Users : card[u] => HasLater(u, mark[u])
  /\ \A k \in Calls : call[k].op = "READ_CARD" /\ card[call[k].user] =>
       HasLater(call[k].user, call[k].latest)

IInv ==
  /\ TypeOK /\ SocketInv /\ ConnectedIsTold
  /\ AttemptInv /\ RemindedOnce
  /\ OpenInv /\ MarkInv /\ CardInv

-----------------------------------------------------------------------------
LEMMA CounterpartIsUser ==
  /\ \A u \in Users : Counterpart(u) \in Users /\ Counterpart(u) # u
  /\ \A u, v \in Users : u # v => Counterpart(u) = v
<1>1. \A u \in Users : \E v \in Users : v # u
  BY ChatConstantsOK
<1> QED BY <1>1, ChatConstantsOK DEF Counterpart

\* What the type invariant says of a call at each of its steps.
LEMMA CallTypes ==
  ASSUME TypeOK, NEW k \in Calls
  PROVE  LET c == call[k] IN
         /\ c.op = "INSERTED" => c \in [op : {"INSERTED"}, user : Users, id : Ids]
         /\ c.op \in {"READ", "READ_CARD"} =>
              c \in [op : {"READ", "READ_CARD"}, user : Users, latest : Ids]
         /\ c.op = "MARKED" => c \in [op : {"MARKED"}, user : Users]
         /\ c.op = "INSERT" => c \in Attempts
         /\ c.op = "REMINDED" => c \in [op : {"REMINDED"}, to : SUBSET Users, queue : 0..2]
BY DEF TypeOK, CallStates, Attempts, Idle

LEMMA BecomesTyped ==
  ASSUME TypeOK, NEW k \in Calls, NEW state \in CallStates, Becomes(k, state)
  PROVE  /\ call' \in [Calls -> CallStates]
         /\ call'[k] = state
         /\ \A j \in Calls \ {k} : call'[j] = call[j]
BY DEF TypeOK, Becomes

LEMMA IdleIsState == Idle \in CallStates
BY DEF CallStates

\* A run that begins, or has to repeat, begins an attempt with one event or ends.
LEMMA RemindStep ==
  ASSUME TypeOK, NEW k \in Calls, RemindBegin(k) \/ RemindConflict(k)
  PROVE  /\ UNCHANGED <<chatVars, streamVars>>
         /\ call[k].op \in {"IDLE", "INSERT"}
         /\ \E state \in CallStates :
              /\ Becomes(k, state)
              /\ state.op \in {"IDLE", "INSERT"}
              /\ state.op = "INSERT" => state.queue = 1
<1> DEFINE Good(state) == /\ state \in CallStates
                          /\ state.op \in {"IDLE", "INSERT"}
                          /\ state.op = "INSERT" => state.queue = 1
<1>1. Good(Idle)
  BY IdleIsState DEF Idle
<1>2. ASSUME NEW n \in 1..MaxAttempts, NEW to \in Recipients, InsertReminders(k, n, to, 0)
      PROVE  \E state : Good(state) /\ Becomes(k, state)
  <2> DEFINE new == [op |-> "INSERT", n |-> n, to |-> to, existing |-> Reminded, queue |-> 1]
  <2>1. Good(new)
    <3>1. new \in Attempts
      BY DEF Attempts, Reminded
    <3> QED BY <3>1 DEF CallStates
  <2>2. Becomes(k, Idle) \/ Becomes(k, new)
    BY <1>2 DEF InsertReminders, Ends
  <2> QED BY <1>1, <2>1, <2>2
<1>3. \E state : Good(state) /\ Becomes(k, state)
  <2>1. CASE RemindBegin(k)
    BY <1>2, <2>1, ChatConstantsOK DEF RemindBegin
  <2>2. CASE RemindConflict(k) /\ MayRetry(call[k].n)
    <3>1. call[k].n \in 1..MaxAttempts /\ call[k].to \in Recipients
      BY <2>2, CallTypes DEF RemindConflict, Attempts
    <3>2. call[k].n + 1 \in 1..MaxAttempts
      BY <2>2, <3>1, ChatConstantsOK DEF MayRetry
    <3> QED BY <1>2, <2>2, <3>1, <3>2 DEF RemindConflict, QueueOfRetry
  <2>3. CASE RemindConflict(k) /\ ~MayRetry(call[k].n)
    BY <1>1, <2>3 DEF RemindConflict, Ends
  <2> QED BY <2>1, <2>2, <2>3
<1>4. UNCHANGED <<chatVars, streamVars>> /\ call[k].op \in {"IDLE", "INSERT"}
  BY DEF RemindBegin, RemindConflict, Idle
<1> QED BY <1>3, <1>4

-----------------------------------------------------------------------------
(* Types.                                                                  *)

\* What every step of the event stream keeps of the types.
LEMMA StreamTypes ==
  ASSUME StreamTypeOK,
         \/ StreamStep \/ StreamsEnd \/ UNCHANGED streamVars
         \/ \E users \in SUBSET Users : CommitFor(users) \/ Publish(users)
  PROVE  StreamTypeOK'
<1> USE OwnerOK
<1>1. ASSUME NEW c \in Connections,
             OpenStream(c) \/ Fetch(c) \/ SocketChanges(c) \/ ClientLeaves(c) \/ Close(c)
      PROVE  StreamTypeOK'
  <2>1. CASE OpenStream(c)
    BY <2>1 DEF StreamTypeOK, SocketStates, OpenStream
  <2>2. CASE Fetch(c)
    BY <2>2 DEF StreamTypeOK, Fetch
  <2>3. CASE SocketChanges(c)
    BY <2>3 DEF StreamTypeOK, SocketStates, SocketChanges
  <2>4. CASE ClientLeaves(c)
    BY <2>4 DEF StreamTypeOK, SocketStates, ClientLeaves
  <2>5. CASE Close(c)
    BY <2>5 DEF StreamTypeOK, SocketStates, Close, Stops
  <2> QED BY <1>1, <2>1, <2>2, <2>3, <2>4, <2>5
<1>2. ASSUME StreamsEnd \/ UNCHANGED streamVars
      PROVE  StreamTypeOK'
  BY <1>2 DEF StreamTypeOK, SocketStates, StreamsEnd, streamVars
<1>3. ASSUME NEW users \in SUBSET Users, CommitFor(users)
      PROVE  StreamTypeOK'
  BY <1>3 DEF StreamTypeOK, CommitFor
<1>4. ASSUME NEW users \in SUBSET Users, Publish(users)
      PROVE  StreamTypeOK'
  <2> DEFINE D == Dropped(users)
             R == Reached(users)
  <2>1. /\ told' = [c \in Connections |-> (told[c] \/ c \in R) /\ c \notin D]
        /\ current' = [c \in Connections |-> current[c] /\ c \notin D]
        /\ socket' = [c \in Connections |-> IF c \in D THEN "BROKEN" ELSE socket[c]]
        /\ targets' = [u \in Users |-> targets[u] \ D]
    BY <1>4 DEF Publish
  <2> HIDE DEF D, R
  <2>2. \A c \in Connections : /\ ((told[c] \/ c \in R) /\ c \notin D) \in BOOLEAN
                               /\ (current[c] /\ c \notin D) \in BOOLEAN
    OBVIOUS
  <2>3. told' \in [Connections -> BOOLEAN] /\ current' \in [Connections -> BOOLEAN]
    BY <2>1, <2>2
  <2>4. socket' \in [Connections -> SocketStates] /\ targets' \in [Users -> SUBSET Connections]
    BY <2>1 DEF StreamTypeOK, SocketStates
  <2> QED BY <2>3, <2>4 DEF StreamTypeOK
<1> QED BY <1>1, <1>2, <1>3, <1>4 DEF StreamStep

LEMMA InitInv == Init => IInv
<1> SUFFICES ASSUME Init PROVE IInv
  OBVIOUS
<1>1. TypeOK
  BY IdleIsState, ChatConstantsOK DEF Init, TypeOK, StreamInit, StreamTypeOK, SocketStates
<1>2. SocketInv /\ ConnectedIsTold
  BY DEF Init, StreamInit, SocketInv, ConnectedIsTold
<1>3. AttemptInv /\ RemindedOnce /\ OpenInv
  BY DEF Init, AttemptInv, RemindedOnce, OpenInv, Idle
<1>4. MarkInv /\ CardInv
  BY DEF Init, MarkInv, CardInv, Idle
<1> QED BY <1>1, <1>2, <1>3, <1>4 DEF IInv

LEMMA NextTypes ==
  ASSUME IInv, [Next]_vars
  PROVE  TypeOK'
<1> USE CounterpartIsUser, IdleIsState
<1>0. TypeOK /\ StreamTypeOK
  BY DEF IInv, TypeOK
<1>2. ASSUME NEW k \in Calls, NEW u \in Users, InsertMessage(k, u)
      PROVE  TypeOK'
  <2>1. PICK i \in NextIds :
          /\ message' = [message EXCEPT ![i] = [from |-> u, status |-> "OPEN"]]
          /\ Becomes(k, [op |-> "INSERTED", user |-> u, id |-> i])
    BY <1>2 DEF InsertMessage
  <2>2. [op |-> "INSERTED", user |-> u, id |-> i] \in CallStates
    BY DEF CallStates, NextIds
  <2>3. message' \in [Ids -> {NoMessage, Lost} \cup [from : Users, status : Statuses]]
    BY <1>0, <2>1 DEF TypeOK, Statuses
  <2> QED BY <1>0, <1>2, <2>1, <2>2, <2>3, BecomesTyped, StreamTypes DEF InsertMessage, TypeOK
<1>3. ASSUME NEW k \in Calls, CreateMessage(k)
      PROVE  TypeOK'
  <2>1. call[k].id \in Ids /\ call[k].user \in Users
    BY <1>0, <1>3, CallTypes DEF CreateMessage
  <2>2. message[call[k].id] \in [from : Users, status : Statuses]
    <3>1. message[call[k].id] = [from |-> call[k].user, status |-> "OPEN"]
      BY <1>3 DEF CreateMessage, IInv, OpenInv
    <3> QED BY <2>1, <3>1 DEF Statuses
  <2>3. message' \in [Ids -> {NoMessage, Lost} \cup [from : Users, status : Statuses]]
    BY <1>0, <1>3, <2>1, <2>2 DEF CreateMessage, TypeOK, Statuses
  <2>4. [op |-> "SENT"] \in CallStates
    BY DEF CallStates
  <2> QED BY <1>0, <1>3, <2>3, <2>4, BecomesTyped, StreamTypes DEF CreateMessage, TypeOK
<1>4. ASSUME NEW k \in Calls,
             PublishMessageSignals(k) \/ PublishRead(k) \/ PublishQueue(k)
      PROVE  TypeOK'
  <2>1. \E users \in SUBSET Users : Publish(users)
    <3>1. call[k].op = "MARKED" => Counterpart(call[k].user) \in Users
      BY <1>0, CallTypes
    <3>2. call[k].op = "REMINDED" => call[k].to \in SUBSET Users
      BY <1>0, CallTypes
    <3> QED BY <1>4, <3>1, <3>2 DEF PublishMessageSignals, PublishRead, PublishQueue
  <2>2. Ends(k) /\ UNCHANGED chatVars
    BY <1>4 DEF PublishMessageSignals, PublishRead, PublishQueue
  <2> QED BY <1>0, <2>1, <2>2, BecomesTyped, StreamTypes DEF Ends, chatVars, TypeOK
<1>5. ASSUME NEW k \in Calls, NEW u \in Users, MarkReadFind(k, u)
      PROVE  TypeOK'
  <2>1. PICK latest \in Committed : Becomes(k, [op |-> "READ", user |-> u, latest |-> latest])
    BY <1>5 DEF MarkReadFind
  <2>2. [op |-> "READ", user |-> u, latest |-> latest] \in CallStates
    BY DEF CallStates, Committed
  <2> QED BY <1>0, <1>5, <2>1, <2>2, BecomesTyped, StreamTypes DEF MarkReadFind, chatVars, TypeOK
<1>6. ASSUME NEW k \in Calls, MarkReadCard(k)
      PROVE  TypeOK'
  <2>1. call[k] \in [op : {"READ", "READ_CARD"}, user : Users, latest : Ids]
    BY <1>0, <1>6, CallTypes DEF MarkReadCard
  <2>2. [call[k] EXCEPT !.op = "READ_CARD"] \in CallStates
    BY <2>1 DEF CallStates
  <2>3. card' \in [Users -> BOOLEAN]
    BY <1>0, <1>6, <2>1 DEF MarkReadCard, ReadInCards, TypeOK
  <2> QED BY <1>0, <1>6, <2>2, <2>3, BecomesTyped, StreamTypes DEF MarkReadCard, TypeOK
<1>7. ASSUME NEW k \in Calls, MarkRead(k)
      PROVE  TypeOK'
  <2>1. call[k] \in [op : {"READ", "READ_CARD"}, user : Users, latest : Ids]
    BY <1>0, <1>7, CallTypes DEF MarkRead
  <2>2. [op |-> "MARKED", user |-> call[k].user] \in CallStates
    BY <2>1 DEF CallStates
  <2>3. mark' \in [Users -> 0..MaxMessages]
    BY <1>0, <1>7, <2>1, ChatConstantsOK DEF MarkRead, TypeOK, Ids
  <2>4. StreamTypeOK'
    <3>1. {Counterpart(call[k].user)} \in SUBSET Users
      BY <2>1
    <3> QED BY <1>0, <1>7, <3>1, StreamTypes DEF MarkRead
  <2>5. call' \in [Calls -> CallStates]
    BY <1>0, <1>7, <2>2, BecomesTyped DEF MarkRead, Ends
  <2> QED BY <1>0, <1>7, <2>3, <2>4, <2>5 DEF MarkRead, TypeOK
<1>8. ASSUME NEW u \in Users, RemoveCard(u)
      PROVE  TypeOK'
  BY <1>0, <1>8, StreamTypes DEF RemoveCard, TypeOK
<1>9. ASSUME NEW k \in Calls, RemindBegin(k) \/ RemindConflict(k)
      PROVE  TypeOK'
  <2>1. call' \in [Calls -> CallStates] /\ UNCHANGED <<chatVars, streamVars>>
    BY <1>0, <1>9, BecomesTyped, RemindStep
  <2> QED BY <1>0, <2>1, StreamTypes DEF chatVars, TypeOK
<1>11. ASSUME NEW k \in Calls, RemindCommit(k)
       PROVE  TypeOK'
  <2>1. Pending(k) \in SUBSET Users
    BY <1>0, <1>11, CallTypes, ChatConstantsOK DEF RemindCommit, Pending, Attempts, Recipients
  <2>2. [op |-> "REMINDED", to |-> Pending(k), queue |-> call[k].queue] \in CallStates
    BY <1>0, <1>11, <2>1, CallTypes DEF RemindCommit, CallStates, Attempts
  <2>3. reminders' \in [Users -> Nat]
    BY <1>0, <1>11 DEF RemindCommit, TypeOK
  <2> QED BY <1>0, <1>11, <2>1, <2>2, <2>3, BecomesTyped, StreamTypes DEF RemindCommit, TypeOK
<1>12. ASSUME NEW k \in Calls, CallFails(k)
       PROVE  TypeOK'
  <2>1. message' \in [Ids -> {NoMessage, Lost} \cup [from : Users, status : Statuses]]
    <3>1. CASE call[k].op = "INSERTED"
      BY <1>0, <1>12, <3>1 DEF CallFails, TypeOK
    <3>2. CASE call[k].op # "INSERTED"
      BY <1>0, <1>12, <3>2 DEF CallFails, TypeOK
    <3> QED BY <3>1, <3>2
  <2> QED BY <1>0, <1>12, <2>1, BecomesTyped, StreamTypes DEF CallFails, Ends, TypeOK
<1>13. ASSUME Restart
       PROVE  TypeOK'
  <2>1. message' \in [Ids -> {NoMessage, Lost} \cup [from : Users, status : Statuses]]
    BY <1>0, <1>13 DEF Restart, TypeOK
  <2> QED BY <1>0, <1>13, <2>1, StreamTypes DEF Restart, TypeOK
<1>14. ASSUME StreamStep, UNCHANGED <<chatVars, call>>
       PROVE  TypeOK'
  BY <1>0, <1>14, StreamTypes DEF chatVars, TypeOK
<1>15. CASE UNCHANGED vars
  BY <1>0, <1>15, StreamTypes DEF vars, chatVars, TypeOK
<1> QED BY <1>2, <1>3, <1>4, <1>5, <1>6, <1>7, <1>8, <1>9, <1>11, <1>12, <1>13, <1>14,
           <1>15 DEF Next

-----------------------------------------------------------------------------
(* Events.                                                                 *)

\* A commit of another user's, or of what this one does not see, changes nothing
\* for a connection; one for its user makes the call owe it an event.
LEMMA NextTold ==
  ASSUME IInv, [Next]_vars
  PROVE  SocketInv' /\ ConnectedIsTold'
<1> USE CounterpartIsUser
<1>0. /\ TypeOK /\ StreamTypeOK /\ SocketInv /\ ConnectedIsTold
      /\ \A c \in Connections : Owner[c] \in Users
  BY OwnerOK DEF IInv, TypeOK
<1>1. ASSUME NEW k \in Calls, NEW users \in SUBSET Users, Publish(users),
             \A u \in Users \ users : ToPublish(u) \subseteq ToPublish(u)'
      PROVE  SocketInv' /\ ConnectedIsTold'
  <2> SUFFICES ASSUME NEW c \in Connections, socket'[c] \in {"OPEN", "FULL"}
      PROVE  /\ c \in targets'[Owner[c]]
             /\ current'[c] \/ told'[c] \/ ToPublish(Owner[c])' # {}
    BY DEF SocketInv, ConnectedIsTold
  <2>1. c \notin Dropped(users) /\ socket[c] \in {"OPEN", "FULL"}
    BY <1>1 DEF Publish
  <2>2. c \in targets[Owner[c]]
    BY <1>0, <2>1 DEF SocketInv
  <2>3. c \in targets'[Owner[c]]
    BY <1>0, <1>1, <2>1, <2>2 DEF Publish
  <2>4. CASE Owner[c] \in users
    <3>1. c \in Reached(users)
      <4>1. c \in UNION {targets[u] : u \in users}
        BY <2>2, <2>4
      <4> QED BY <2>1, <4>1, Zenon DEF Dropped
    <3>2. told'[c]
      BY <1>1, <2>1, <3>1, Zenon DEF Publish
    <3> QED BY <2>3, <3>2
  <2>5. CASE Owner[c] \notin users
    <3>1. current[c] \/ told[c] \/ ToPublish(Owner[c]) # {}
      BY <1>0, <2>1, Zenon DEF ConnectedIsTold
    <3>2. (current[c] => current'[c]) /\ (told[c] => told'[c])
      BY <1>1, <2>1, Zenon DEF Publish
    <3>3. ToPublish(Owner[c]) \subseteq ToPublish(Owner[c])'
      BY <1>0, <1>1, <2>5
    <3> QED BY <2>3, <3>1, <3>2, <3>3
  <2> QED BY <2>4, <2>5
<1>2. ASSUME NEW users \in SUBSET Users, CommitFor(users),
             \A u \in users : ToPublish(u)' # {},
             \A u \in Users : ToPublish(u) \subseteq ToPublish(u)'
      PROVE  SocketInv' /\ ConnectedIsTold'
  <2> SUFFICES ASSUME NEW c \in Connections, socket'[c] \in {"OPEN", "FULL"}
      PROVE  /\ c \in targets'[Owner[c]]
             /\ current'[c] \/ told'[c] \/ ToPublish(Owner[c])' # {}
    BY DEF SocketInv, ConnectedIsTold
  <2>1. socket' = socket /\ targets' = targets /\ told' = told
    BY <1>2 DEF CommitFor
  <2>2. c \in targets'[Owner[c]]
    BY <1>0, <2>1 DEF SocketInv
  <2>3. current[c] \/ told[c] \/ ToPublish(Owner[c]) # {}
    BY <1>0, <2>1, Zenon DEF ConnectedIsTold
  <2>4. CASE Owner[c] \in users
    BY <1>2, <2>2, <2>4
  <2>5. CASE Owner[c] \notin users
    <3>1. current[c] => current'[c]
      BY <1>2, <2>5, Zenon DEF CommitFor
    <3>2. ToPublish(Owner[c]) \subseteq ToPublish(Owner[c])'
      BY <1>0, <1>2
    <3> QED BY <2>1, <2>2, <2>3, <3>1, <3>2
  <2> QED BY <2>4, <2>5
<1>3. ASSUME UNCHANGED streamVars, \A u \in Users : ToPublish(u) \subseteq ToPublish(u)'
      PROVE  SocketInv' /\ ConnectedIsTold'
  BY <1>0, <1>3 DEF streamVars, SocketInv, ConnectedIsTold
<1>4. ASSUME NEW k \in Calls, NEW state \in CallStates, Becomes(k, state),
             call[k].op \notin {"SENT", "REMINDED", "MARKED"}
      PROVE  \A u \in Users : ToPublish(u) \subseteq ToPublish(u)'
  BY <1>0, <1>4, BecomesTyped DEF ToPublish
\* A step of one connection concerns that one alone.
<1>5. ASSUME StreamStep, UNCHANGED <<chatVars, call>>
      PROVE  SocketInv' /\ ConnectedIsTold'
  <2> SUFFICES ASSUME NEW d \in Connections,
                      OpenStream(d) \/ Fetch(d) \/ SocketChanges(d) \/ ClientLeaves(d) \/ Close(d),
                      NEW c \in Connections, socket'[c] \in {"OPEN", "FULL"}
      PROVE  /\ c \in targets'[Owner[c]]
             /\ current'[c] \/ told'[c] \/ ToPublish(Owner[c])' # {}
    BY <1>5 DEF SocketInv, ConnectedIsTold, StreamStep
  <2>1. ToPublish(Owner[c])' = ToPublish(Owner[c])
    BY <1>5 DEF ToPublish
  <2>2. socket[c] \in {"OPEN", "FULL"} =>
          c \in targets[Owner[c]] /\ (current[c] \/ told[c] \/ ToPublish(Owner[c]) # {})
    BY <1>0, Zenon DEF SocketInv, ConnectedIsTold
  <2>3. CASE OpenStream(d)
    <3>1. /\ socket' = [socket EXCEPT ![d] = "OPEN"]
          /\ targets' = [targets EXCEPT ![Owner[d]] = @ \cup {d}]
      BY <2>3 DEF OpenStream
    <3>2. c \in targets'[Owner[c]] /\ (c # d => socket[c] \in {"OPEN", "FULL"})
      BY <1>0, <2>2, <3>1 DEF StreamTypeOK
    <3>3. c # d => (current[c] => current'[c]) /\ (told[c] => told'[c])
      BY <1>0, <2>3, Zenon DEF OpenStream, StreamTypeOK
    <3>4. c = d => told'[c]
      BY <1>0, <2>3, Zenon DEF OpenStream, StreamTypeOK
    <3> QED BY <2>1, <2>2, <3>2, <3>3, <3>4
  <2>4. CASE Fetch(d)
    <3>1. socket' = socket /\ targets' = targets
      BY <2>4 DEF Fetch
    <3>2. c # d => (current[c] => current'[c]) /\ (told[c] => told'[c])
      BY <1>0, <2>4, Zenon DEF Fetch, StreamTypeOK
    <3>3. c = d => current'[c]
      BY <1>0, <2>4, Zenon DEF Fetch, StreamTypeOK
    <3> QED BY <2>1, <2>2, <3>1, <3>2, <3>3
  <2>5. CASE SocketChanges(d)
    <3>1. /\ socket[c] \in {"OPEN", "FULL"}
          /\ targets' = targets /\ told' = told /\ current' = current
      BY <1>0, <2>5 DEF SocketChanges, StreamTypeOK
    <3> QED BY <2>1, <2>2, <3>1
  <2>6. CASE ClientLeaves(d)
    <3>1. c # d /\ socket[c] \in {"OPEN", "FULL"} /\ targets' = targets
      BY <1>0, <2>6 DEF ClientLeaves, StreamTypeOK
    <3>2. (current[c] => current'[c]) /\ (told[c] => told'[c])
      BY <1>0, <2>6, <3>1, Zenon DEF ClientLeaves, StreamTypeOK
    <3> QED BY <2>1, <2>2, <3>1, <3>2
  <2>7. CASE Close(d)
    <3>1. c # d /\ socket[c] \in {"OPEN", "FULL"}
      BY <1>0, <2>7 DEF Close, StreamTypeOK
    <3>2. c \in targets'[Owner[c]]
      BY <1>0, <2>2, <2>7, <3>1 DEF Close, Stops, StreamTypeOK
    <3>3. (current[c] => current'[c]) /\ (told[c] => told'[c])
      BY <1>0, <2>7, <3>1, Zenon DEF Close, StreamTypeOK
    <3> QED BY <2>1, <2>2, <3>1, <3>2, <3>3
  <2> QED BY <2>3, <2>4, <2>5, <2>6, <2>7
<1>6. ASSUME NEW k \in Calls, CreateMessage(k) \/ RemindCommit(k)
      PROVE  SocketInv' /\ ConnectedIsTold'
  <2>1. PICK users \in SUBSET Users, state \in CallStates :
          /\ CommitFor(users) /\ Becomes(k, state)
          /\ state.op = "SENT" \/ (state.op = "REMINDED" /\ state.to = users)
    <3>1. [op |-> "SENT"] \in CallStates
      BY DEF CallStates
    <3>2. CASE CreateMessage(k)
      BY <3>1, <3>2 DEF CreateMessage
    <3>3. CASE RemindCommit(k)
      <4>1. call[k] \in Attempts
        BY <1>0, <3>3, CallTypes DEF RemindCommit
      <4>2. Pending(k) \in SUBSET Users
        BY <4>1, ChatConstantsOK DEF Pending, Attempts, Recipients
      <4>3. [op |-> "REMINDED", to |-> Pending(k), queue |-> call[k].queue] \in CallStates
        BY <4>1, <4>2 DEF CallStates, Attempts
      <4> QED BY <3>3, <4>2, <4>3 DEF RemindCommit
    <3> QED BY <1>6, <3>2, <3>3
  <2>2. \A u \in users : k \in ToPublish(u)'
    BY <1>0, <2>1, BecomesTyped DEF ToPublish
  <2>3. \A u \in Users : ToPublish(u) \subseteq ToPublish(u)'
    BY <1>4, <1>6, <2>1 DEF CreateMessage, RemindCommit
  <2> QED BY <1>2, <2>1, <2>2, <2>3
<1>7. ASSUME NEW k \in Calls,
             PublishMessageSignals(k) \/ PublishRead(k) \/ PublishQueue(k)
      PROVE  SocketInv' /\ ConnectedIsTold'
  <2>1. Becomes(k, Idle)
    BY <1>7 DEF PublishMessageSignals, PublishRead, PublishQueue, Ends
  <2>2. CASE PublishMessageSignals(k)
    BY <1>1, <2>2 DEF PublishMessageSignals
  <2>3. CASE PublishRead(k)
    <3>1. /\ call[k].op = "MARKED" /\ Counterpart(call[k].user) \in Users
          /\ Publish({Counterpart(call[k].user)})
      BY <1>0, <2>3, CallTypes DEF PublishRead
    <3>2. \A u \in Users \ {Counterpart(call[k].user)} : ToPublish(u) \subseteq ToPublish(u)'
      BY <1>0, <2>1, <3>1, BecomesTyped, IdleIsState DEF ToPublish
    <3> QED BY <1>1, <3>1, <3>2
  <2>4. CASE PublishQueue(k)
    <3>1. call[k].op = "REMINDED" /\ call[k].to \in SUBSET Users /\ Publish(call[k].to)
      BY <1>0, <2>4, CallTypes DEF PublishQueue
    <3>2. \A u \in Users \ call[k].to : ToPublish(u) \subseteq ToPublish(u)'
      BY <1>0, <2>1, <3>1, BecomesTyped, IdleIsState DEF ToPublish
    <3> QED BY <1>1, <3>1, <3>2
  <2> QED BY <1>7, <2>2, <2>3, <2>4
<1>8. ASSUME NEW k \in Calls, MarkRead(k)
      PROVE  SocketInv' /\ ConnectedIsTold'
  <2>1. call[k] \in [op : {"READ", "READ_CARD"}, user : Users, latest : Ids]
    BY <1>0, <1>8, CallTypes DEF MarkRead
  <2>2. CASE MovesMark(call[k].user, call[k].latest)
    <3>1. PICK v \in Users : v = Counterpart(call[k].user)
      BY <2>1
    <3>2. Becomes(k, [op |-> "MARKED", user |-> call[k].user]) /\ CommitFor({v})
      BY <1>8, <2>2, <3>1 DEF MarkRead
    <3>3. [op |-> "MARKED", user |-> call[k].user] \in CallStates
      BY <2>1 DEF CallStates
    <3>4. call'[k] = [op |-> "MARKED", user |-> call[k].user]
      BY <1>0, <3>2, <3>3, BecomesTyped
    <3>5. k \in ToPublish(v)'
      BY <3>1, <3>4 DEF ToPublish
    <3>6. \A u \in Users : ToPublish(u) \subseteq ToPublish(u)'
      BY <1>4, <1>8, <3>2, <3>3 DEF MarkRead
    <3>7. {v} \in SUBSET Users /\ \A u \in {v} : ToPublish(u)' # {}
      BY <3>5
    <3> QED BY <1>2, <3>2, <3>6, <3>7
  <2>3. CASE ~MovesMark(call[k].user, call[k].latest)
    BY <1>3, <1>4, <1>8, <2>3, IdleIsState DEF MarkRead, Ends
  <2> QED BY <2>2, <2>3
<1>9. ASSUME NEW k \in Calls,
             \/ \E u \in Users : InsertMessage(k, u) \/ MarkReadFind(k, u)
             \/ RemindBegin(k) \/ RemindConflict(k)
             \/ MarkReadCard(k) \/ CallFails(k)
      PROVE  SocketInv' /\ ConnectedIsTold'
  <2>1. UNCHANGED streamVars /\ call[k].op \notin {"SENT", "REMINDED", "MARKED"}
    <3>1. CASE \E u \in Users : InsertMessage(k, u) \/ MarkReadFind(k, u)
      BY <3>1 DEF InsertMessage, MarkReadFind, Idle
    <3>2. CASE RemindBegin(k) \/ RemindConflict(k)
      BY <1>0, <3>2, RemindStep
    <3>3. CASE MarkReadCard(k) \/ CallFails(k)
      BY <3>3 DEF MarkReadCard, CallFails
    <3> QED BY <1>9, <3>1, <3>2, <3>3
  <2>2. \A j \in Calls \ {k} : call'[j] = call[j]
    <3>1. CASE RemindBegin(k) \/ RemindConflict(k)
      BY <1>0, <3>1, RemindStep, BecomesTyped
    <3>2. CASE ~(RemindBegin(k) \/ RemindConflict(k))
      BY <1>0, <1>9, <3>2 DEF InsertMessage, MarkReadFind, MarkReadCard, CallFails, Ends, Becomes,
                              TypeOK
    <3> QED BY <3>1, <3>2
  <2>3. \A u \in Users : ToPublish(u) \subseteq ToPublish(u)'
    BY <2>1, <2>2 DEF ToPublish
  <2> QED BY <1>3, <2>1, <2>3
<1>10. ASSUME NEW u \in Users, RemoveCard(u)
       PROVE  SocketInv' /\ ConnectedIsTold'
  BY <1>3, <1>10 DEF RemoveCard, ToPublish
<1>11. ASSUME Restart
       PROVE  SocketInv' /\ ConnectedIsTold'
  BY <1>11 DEF Restart, StreamsEnd, SocketInv, ConnectedIsTold
<1>12. CASE UNCHANGED vars
  BY <1>3, <1>12 DEF vars, ToPublish
<1> QED BY <1>5, <1>6, <1>7, <1>8, <1>9, <1>10, <1>11, <1>12 DEF Next

-----------------------------------------------------------------------------
(* Reminders.                                                              *)

LEMMA NextAttempt ==
  ASSUME IInv, [Next]_vars
  PROVE  AttemptInv' /\ RemindedOnce'
<1>0. TypeOK /\ AttemptInv /\ RemindedOnce
  BY DEF IInv
<1> DEFINE Right(c) == c.op \in {"INSERT", "REMINDED"} => c.queue = 1
<1>1. ASSUME NEW k \in Calls, NEW state \in CallStates, Becomes(k, state), Right(state),
             UNCHANGED reminders
      PROVE  AttemptInv' /\ RemindedOnce'
  BY <1>0, <1>1, BecomesTyped DEF AttemptInv, RemindedOnce
<1>2. Right(Idle) /\ Idle \in CallStates
  BY IdleIsState DEF Idle
<1>3. ASSUME UNCHANGED <<call, reminders>>
      PROVE  AttemptInv' /\ RemindedOnce'
  BY <1>0, <1>3 DEF AttemptInv, RemindedOnce
<1>4. ASSUME NEW k \in Calls, RemindBegin(k) \/ RemindConflict(k)
      PROVE  AttemptInv' /\ RemindedOnce'
  <2>1. PICK state \in CallStates : Becomes(k, state) /\ Right(state)
    BY <1>0, <1>4, RemindStep
  <2>2. UNCHANGED reminders
    BY <1>0, <1>4, RemindStep DEF chatVars
  <2> QED BY <1>1, <2>1, <2>2
\* Only who had none, and nothing has come since.
<1>6. ASSUME NEW k \in Calls, RemindCommit(k)
      PROVE  AttemptInv' /\ RemindedOnce'
  <2>1. call[k] \in Attempts /\ call[k].queue = 1 /\ call[k].existing = Reminded
    BY <1>0, <1>6, CallTypes DEF RemindCommit, AttemptInv, MayInsert
  <2>2. [op |-> "REMINDED", to |-> Pending(k), queue |-> call[k].queue] \in CallStates
    BY <2>1, ChatConstantsOK DEF CallStates, Attempts, Pending, Recipients
  <2>3. AttemptInv'
    BY <1>0, <1>6, <2>1, <2>2, BecomesTyped DEF RemindCommit, AttemptInv
  <2>4. \A u \in Pending(k) \cap Users : reminders[u] = 0
    BY <1>0, <2>1 DEF Pending, Reminded, TypeOK
  <2>5. RemindedOnce'
    BY <1>0, <1>6, <2>4 DEF RemindCommit, RemindedOnce, TypeOK
  <2> QED BY <2>3, <2>5
<1>7. ASSUME NEW k \in Calls, NEW u \in Users, InsertMessage(k, u) \/ MarkReadFind(k, u)
      PROVE  AttemptInv' /\ RemindedOnce'
  <2>1. \A i \in NextIds : [op |-> "INSERTED", user |-> u, id |-> i] \in CallStates
    BY DEF CallStates, NextIds
  <2>2. \A latest \in Committed : [op |-> "READ", user |-> u, latest |-> latest] \in CallStates
    BY DEF CallStates, Committed
  <2> QED BY <1>1, <1>7, <2>1, <2>2 DEF InsertMessage, MarkReadFind, chatVars
<1>9. ASSUME NEW k \in Calls, CreateMessage(k)
      PROVE  AttemptInv' /\ RemindedOnce'
  <2>1. [op |-> "SENT"] \in CallStates
    BY DEF CallStates
  <2> QED BY <1>1, <1>9, <2>1 DEF CreateMessage
<1>10. ASSUME NEW k \in Calls, MarkReadCard(k)
       PROVE  AttemptInv' /\ RemindedOnce'
  <2>1. call[k] \in [op : {"READ", "READ_CARD"}, user : Users, latest : Ids]
    BY <1>0, <1>10, CallTypes DEF MarkReadCard
  <2>2. /\ [call[k] EXCEPT !.op = "READ_CARD"] \in CallStates
        /\ Right([call[k] EXCEPT !.op = "READ_CARD"])
    BY <2>1 DEF CallStates
  <2> QED BY <1>1, <1>10, <2>2 DEF MarkReadCard
<1>11. ASSUME NEW k \in Calls, MarkRead(k)
       PROVE  AttemptInv' /\ RemindedOnce'
  <2>1. [op |-> "MARKED", user |-> call[k].user] \in CallStates
    BY <1>0, <1>11, CallTypes DEF MarkRead, CallStates
  <2> QED BY <1>1, <1>2, <1>11, <2>1 DEF MarkRead, Ends
<1>12. ASSUME NEW k \in Calls,
              PublishMessageSignals(k) \/ PublishRead(k) \/ PublishQueue(k) \/ CallFails(k)
       PROVE  AttemptInv' /\ RemindedOnce'
  BY <1>1, <1>2, <1>12
     DEF PublishMessageSignals, PublishRead, PublishQueue, CallFails, Ends, chatVars
<1>13. ASSUME Restart
       PROVE  AttemptInv' /\ RemindedOnce'
  BY <1>0, <1>2, <1>13 DEF Restart, AttemptInv, RemindedOnce
<1>14. CASE \/ \E u \in Users : RemoveCard(u)
            \/ StreamStep /\ UNCHANGED <<chatVars, call>>
            \/ UNCHANGED vars
  BY <1>3, <1>14 DEF RemoveCard, chatVars, vars
<1> QED BY <1>4, <1>6, <1>7, <1>9, <1>10, <1>11, <1>12, <1>13, <1>14 DEF Next

-----------------------------------------------------------------------------
(* Reads.                                                                  *)

\* The steps that leave messages, marks, notifications and reads alone.
Elsewhere(k) ==
  \/ RemindBegin(k) \/ RemindConflict(k) \/ RemindCommit(k)
  \/ PublishQueue(k) \/ PublishMessageSignals(k) \/ PublishRead(k)
  \/ CallFails(k) /\ call[k].op # "INSERTED"

LEMMA ElsewhereKeeps ==
  ASSUME TypeOK, NEW k \in Calls, Elsewhere(k)
  PROVE  /\ UNCHANGED <<message, mark, card>>
         /\ call'[k].op \notin {"INSERTED", "READ", "READ_CARD"}
         /\ \A j \in Calls \ {k} : call'[j] = call[j]
<1>2. CASE RemindBegin(k) \/ RemindConflict(k)
  BY <1>2, RemindStep, BecomesTyped DEF chatVars
<1>3. CASE RemindCommit(k)
  BY <1>3 DEF RemindCommit, Becomes, TypeOK
<1>4. CASE PublishQueue(k) \/ PublishMessageSignals(k) \/ PublishRead(k)
  BY <1>4 DEF PublishQueue, PublishMessageSignals, PublishRead, Ends, Becomes, TypeOK, chatVars, Idle
<1>5. CASE CallFails(k) /\ call[k].op # "INSERTED"
  BY <1>5 DEF CallFails, Ends, Becomes, TypeOK, Idle
<1> QED BY <1>2, <1>3, <1>4, <1>5 DEF Elsewhere

\* The step of a call that sends, reads or breaks off a message.
OnMessages(k) ==
  \/ CreateMessage(k) \/ MarkReadCard(k) \/ MarkRead(k)
  \/ \E u \in Users : InsertMessage(k, u) \/ MarkReadFind(k, u)
  \/ CallFails(k) /\ call[k].op = "INSERTED"

LEMMA Steps ==
  ASSUME [Next]_vars
  PROVE  \/ \E k \in Calls : Elsewhere(k) \/ OnMessages(k)
         \/ \E u \in Users : RemoveCard(u)
         \/ Restart
         \/ UNCHANGED <<chatVars, call>>
BY Zenon DEF Next, vars, Elsewhere, OnMessages

\* What a call that inserts, or ends with, a message knows of it.
LEMMA OpenMessage ==
  ASSUME TypeOK, OpenInv, NEW k \in Calls, call[k].op = "INSERTED"
  PROVE  /\ call[k].id \in Ids /\ call[k].user \in Users
         /\ message[call[k].id] = [from |-> call[k].user, status |-> "OPEN"]
         /\ message[call[k].id].status = "OPEN"
BY CallTypes DEF OpenInv

LEMMA NextOpen ==
  ASSUME IInv, [Next]_vars
  PROVE  OpenInv'
<1>0. TypeOK /\ OpenInv
  BY DEF IInv
<1>1. ASSUME NEW k \in Calls, Elsewhere(k)
      PROVE  OpenInv'
  BY <1>0, <1>1, ElsewhereKeeps DEF OpenInv
<1>2. ASSUME NEW k \in Calls, NEW u \in Users, InsertMessage(k, u)
      PROVE  OpenInv'
  <2>1. PICK i \in NextIds :
          /\ message' = [message EXCEPT ![i] = [from |-> u, status |-> "OPEN"]]
          /\ Becomes(k, [op |-> "INSERTED", user |-> u, id |-> i])
    BY <1>2 DEF InsertMessage
  <2>2. i \in Ids /\ message[i].status = "NONE"
    BY DEF NextIds, NoMessage
  <2>3. \A j \in Calls \ {k} : call[j].op = "INSERTED" => call[j].id \in Ids /\ call[j].id # i
    BY <1>0, <2>2, OpenMessage
  <2>4. /\ message'[i] = [from |-> u, status |-> "OPEN"]
        /\ \A j \in Ids \ {i} : message'[j] = message[j]
        /\ call'[k] = [op |-> "INSERTED", user |-> u, id |-> i]
        /\ \A j \in Calls \ {k} : call'[j] = call[j]
    BY <1>0, <2>1, <2>2 DEF TypeOK, Becomes
  <2> QED BY <1>0, <2>3, <2>4 DEF OpenInv
<1>3. ASSUME NEW k \in Calls,
             CreateMessage(k) \/ (CallFails(k) /\ call[k].op = "INSERTED")
      PROVE  OpenInv'
  <2>1. call[k].op = "INSERTED" /\ call[k].id \in Ids
    BY <1>0, <1>3, OpenMessage DEF CreateMessage
  <2>2. /\ \A i \in Ids \ {call[k].id} : message'[i] = message[i]
        /\ call'[k].op # "INSERTED"
        /\ \A j \in Calls \ {k} : call'[j] = call[j]
    BY <1>0, <1>3, <2>1 DEF CreateMessage, CallFails, Ends, Becomes, TypeOK, Idle
  <2>3. \A j \in Calls \ {k} : call[j].op = "INSERTED" =>
          call[j].id \in Ids /\ call[j].id # call[k].id
    BY <1>0, <2>1, OpenMessage DEF OpenInv
  <2> QED BY <1>0, <2>2, <2>3 DEF OpenInv
<1>4. ASSUME NEW k \in Calls, MarkReadCard(k) \/ MarkRead(k) \/ \E u \in Users : MarkReadFind(k, u)
      PROVE  OpenInv'
  <2>1. UNCHANGED message
    BY <1>4 DEF MarkReadCard, MarkRead, MarkReadFind, chatVars
  <2>2. \A j \in Calls \ {k} : call'[j] = call[j]
    BY <1>0, <1>4 DEF MarkReadCard, MarkRead, MarkReadFind, Ends, Becomes, TypeOK
  <2>3. call'[k].op # "INSERTED"
    <3>1. CASE MarkReadCard(k)
      <4>1. call[k] \in [op : {"READ", "READ_CARD"}, user : Users, latest : Ids]
        BY <1>0, <3>1, CallTypes DEF MarkReadCard
      <4> QED BY <1>0, <3>1, <4>1 DEF MarkReadCard, Becomes, TypeOK
    <3>2. CASE MarkRead(k)
      BY <1>0, <3>2 DEF MarkRead, Ends, Becomes, TypeOK, Idle
    <3>3. CASE \E u \in Users : MarkReadFind(k, u)
      BY <1>0, <3>3 DEF MarkReadFind, Becomes, TypeOK
    <3> QED BY <1>4, <3>1, <3>2, <3>3
  <2> QED BY <1>0, <2>1, <2>2, <2>3 DEF OpenInv
<1>5. ASSUME Restart
      PROVE  OpenInv'
  BY <1>5 DEF Restart, OpenInv, Idle
<1>6. CASE (\E u \in Users : RemoveCard(u)) \/ UNCHANGED <<chatVars, call>>
  BY <1>0, <1>6 DEF RemoveCard, chatVars, OpenInv
<1> QED BY <1>1, <1>2, <1>3, <1>4, <1>5, <1>6, Steps DEF OnMessages

\* A committed message stays as it is.
LEMMA CommittedStays ==
  ASSUME IInv, [Next]_vars, NEW i \in Committed
  PROVE  message'[i] = message[i] /\ i \in Committed'
<1>0. TypeOK /\ OpenInv /\ i \in Ids /\ message[i].status \in {"SENT", "LATE"}
  BY DEF IInv, Committed
<1> SUFFICES message'[i] = message[i]
  BY <1>0 DEF Committed
<1>1. ASSUME NEW k \in Calls, Elsewhere(k)
      PROVE  message'[i] = message[i]
  BY <1>0, <1>1, ElsewhereKeeps
<1>2. ASSUME NEW k \in Calls, NEW u \in Users, InsertMessage(k, u)
      PROVE  message'[i] = message[i]
  BY <1>0, <1>2 DEF InsertMessage, NextIds, NoMessage, TypeOK
<1>3. ASSUME NEW k \in Calls,
             CreateMessage(k) \/ (CallFails(k) /\ call[k].op = "INSERTED")
      PROVE  message'[i] = message[i]
  <2>1. call[k].id \in Ids /\ i # call[k].id
    BY <1>0, <1>3, OpenMessage DEF CreateMessage
  <2> QED BY <1>0, <1>3, <2>1 DEF CreateMessage, CallFails, TypeOK
<1>4. ASSUME NEW k \in Calls, MarkReadCard(k) \/ MarkRead(k) \/ \E u \in Users : MarkReadFind(k, u)
      PROVE  message'[i] = message[i]
  BY <1>4 DEF MarkReadCard, MarkRead, MarkReadFind, chatVars
<1>5. CASE Restart
  BY <1>0, <1>5 DEF Restart
<1>6. CASE (\E u \in Users : RemoveCard(u)) \/ UNCHANGED <<chatVars, call>>
  BY <1>6 DEF RemoveCard, chatVars
<1> QED BY <1>1, <1>2, <1>3, <1>4, <1>5, <1>6, Steps DEF OnMessages

LEMMA NextMark ==
  ASSUME IInv, [Next]_vars
  PROVE  MarkInv'
<1>0. TypeOK /\ MarkInv /\ \A i \in Committed : i \in Committed'
  BY CommittedStays DEF IInv
<1>1. ASSUME NEW k \in Calls, Elsewhere(k)
      PROVE  MarkInv'
  BY <1>0, <1>1, ElsewhereKeeps DEF MarkInv
<1>2. ASSUME NEW k \in Calls, NEW u \in Users, MarkReadFind(k, u)
      PROVE  MarkInv'
  <2>1. PICK latest \in Committed : Becomes(k, [op |-> "READ", user |-> u, latest |-> latest])
    BY <1>2 DEF MarkReadFind
  <2>2. UNCHANGED mark
    BY <1>2 DEF MarkReadFind, chatVars
  <2>3. /\ call'[k] = [op |-> "READ", user |-> u, latest |-> latest]
        /\ \A j \in Calls \ {k} : call'[j] = call[j]
    BY <1>0, <2>1 DEF Becomes, TypeOK
  <2> QED BY <1>0, <2>2, <2>3 DEF MarkInv
<1>3. ASSUME NEW k \in Calls, MarkReadCard(k)
      PROVE  MarkInv'
  <2>1. call[k] \in [op : {"READ", "READ_CARD"}, user : Users, latest : Ids]
    BY <1>0, <1>3, CallTypes DEF MarkReadCard
  <2>2. /\ call'[k].latest = call[k].latest
        /\ \A j \in Calls \ {k} : call'[j] = call[j]
    BY <1>0, <1>3, <2>1 DEF MarkReadCard, Becomes, TypeOK
  <2> QED BY <1>0, <1>3, <2>2 DEF MarkReadCard, MarkInv
<1>4. ASSUME NEW k \in Calls, MarkRead(k)
      PROVE  MarkInv'
  <2>1. call[k].latest \in Committed
    BY <1>0, <1>4 DEF MarkRead, MarkInv
  <2>2. \A u \in Users : mark'[u] = mark[u] \/ mark'[u] = call[k].latest
    BY <1>0, <1>4 DEF MarkRead, TypeOK
  <2>3. /\ call'[k].op \notin {"READ", "READ_CARD"}
        /\ \A j \in Calls \ {k} : call'[j] = call[j]
    BY <1>0, <1>4 DEF MarkRead, Ends, Becomes, TypeOK, Idle
  <2> QED BY <1>0, <2>1, <2>2, <2>3 DEF MarkInv
<1>5. ASSUME NEW k \in Calls,
             \/ \E u \in Users : InsertMessage(k, u)
             \/ CreateMessage(k) \/ (CallFails(k) /\ call[k].op = "INSERTED")
      PROVE  MarkInv'
  <2>1. /\ UNCHANGED mark
        /\ call'[k].op \notin {"READ", "READ_CARD"}
        /\ \A j \in Calls \ {k} : call'[j] = call[j]
    BY <1>0, <1>5 DEF InsertMessage, CreateMessage, CallFails, Ends, Becomes, TypeOK, Idle
  <2> QED BY <1>0, <2>1 DEF MarkInv
<1>6. ASSUME Restart
      PROVE  MarkInv'
  BY <1>0, <1>6 DEF Restart, MarkInv, Idle
<1>7. CASE (\E u \in Users : RemoveCard(u)) \/ UNCHANGED <<chatVars, call>>
  BY <1>0, <1>7 DEF RemoveCard, chatVars, MarkInv
<1> QED BY <1>1, <1>2, <1>3, <1>4, <1>5, <1>6, <1>7, Steps DEF OnMessages

\* A reason does not go away.
LEMMA LaterStays ==
  ASSUME IInv, [Next]_vars, NEW u \in Users, NEW i \in 0..MaxMessages, HasLater(u, i)
  PROVE  HasLater(u, i)'
<1>1. CASE \E j \in Committed : j > i /\ message[j].from = Counterpart(u)
  BY <1>1, CommittedStays DEF HasLater
<1>2. CASE \E j \in Ids : message[j].status = "LATE" /\ message[j].from = Counterpart(u)
  BY <1>2, CommittedStays DEF HasLater, Committed
<1> QED BY <1>1, <1>2 DEF HasLater

\* A new message is later than all that is committed, or it is late.
LEMMA NewIsLater ==
  ASSUME IInv, NEW k \in Calls, CreateMessage(k), NEW v \in Users,
         v = Counterpart(call[k].user), NEW i \in 0..MaxMessages, i # 0 => i \in Committed
  PROVE  HasLater(v, i)'
<1> DEFINE id == call[k].id
<1>0. TypeOK /\ OpenInv
  BY DEF IInv
<1>1. /\ id \in Ids /\ call[k].user \in Users
      /\ message[id] = [from |-> call[k].user, status |-> "OPEN"] /\ message[id].status = "OPEN"
  BY <1>0, OpenMessage DEF CreateMessage
<1>2. Counterpart(v) = call[k].user
  BY <1>1, CounterpartIsUser
<1>3. CASE \E j \in Committed : j > id
  <2>1. message'[id].status = "LATE" /\ message'[id].from = call[k].user
    BY <1>0, <1>1, <1>3 DEF CreateMessage, TypeOK
  <2> QED BY <1>1, <1>2, <2>1 DEF HasLater
<1>4. CASE ~\E j \in Committed : j > id
  <2>1. message'[id].status = "SENT" /\ message'[id].from = call[k].user
    BY <1>0, <1>1, <1>4 DEF CreateMessage, TypeOK
  <2>2. id > i
    <3>1. i # 0 => i # id
      BY <1>1 DEF Committed
    <3> QED BY <1>1, <1>4, <3>1, ChatConstantsOK DEF Ids
  <2>3. id \in Committed'
    BY <1>1, <2>1 DEF Committed
  <2> QED BY <1>2, <2>1, <2>2, <2>3 DEF HasLater
<1> QED BY <1>3, <1>4

LEMMA NextCard ==
  ASSUME IInv, [Next]_vars
  PROVE  CardInv'
<1>0. TypeOK /\ MarkInv /\ CardInv
  BY DEF IInv
<1>1. \A u \in Users : mark[u] \in 0..MaxMessages /\ (mark[u] # 0 => mark[u] \in Committed)
  BY <1>0 DEF TypeOK, MarkInv
<1>2. \A j \in Calls : call[j].op = "READ_CARD" =>
        /\ call[j].user \in Users /\ call[j].latest \in 0..MaxMessages
        /\ call[j].latest \in Committed
  BY <1>0, CallTypes DEF MarkInv, Ids
\* It is enough that the mark and the reads are past nothing that makes the
\* notification unread, and that what makes it unread now is past them all.
<1>3. ASSUME \A u \in Users : \A i \in 0..MaxMessages :
               card'[u] /\ (i # 0 => i \in Committed) /\ (card[u] => HasLater(u, i))
                 => HasLater(u, i)',
             \A u \in Users :
               /\ mark'[u] \in 0..MaxMessages /\ (mark'[u] # 0 => mark'[u] \in Committed)
               /\ card[u] => HasLater(u, mark'[u]),
             \A j \in Calls :
               call'[j].op = "READ_CARD" /\ card'[call'[j].user] => call'[j] = call[j]
      PROVE  CardInv'
  <2>1. ASSUME NEW u \in Users, card'[u]
        PROVE  HasLater(u, mark[u])'
    <3>1. PICK i \in 0..MaxMessages : i = mark'[u]
      BY <1>3
    <3>2. (i # 0 => i \in Committed) /\ (card[u] => HasLater(u, i))
      BY <1>3, <3>1, Zenon
    <3>3. HasLater(u, i)'
      BY <1>3, <2>1, <3>2, Zenon
    <3> QED BY <3>1, <3>3
  <2>2. ASSUME NEW j \in Calls, call'[j].op = "READ_CARD", card'[call'[j].user]
        PROVE  HasLater(call[j].user, call[j].latest)'
    <3>1. call'[j] = call[j] /\ call[j].op = "READ_CARD"
      BY <1>3, <2>2
    <3>2. PICK u \in Users, i \in 0..MaxMessages : u = call[j].user /\ i = call[j].latest
      BY <1>2, <3>1
    <3>3. card[u] => HasLater(u, i)
      BY <1>0, <3>1, <3>2, Zenon DEF CardInv
    <3>4. card'[u] /\ i \in Committed
      BY <1>2, <2>2, <3>1, <3>2, Zenon
    <3>5. HasLater(u, i)'
      BY <1>3, <3>3, <3>4, Zenon
    <3> QED BY <3>1, <3>2, <3>5
  <2> QED BY <2>1, <2>2 DEF CardInv
<1>4. ASSUME \A u \in Users : card'[u] => card[u]
      PROVE  \A u \in Users : \A i \in 0..MaxMessages :
               card'[u] /\ (i # 0 => i \in Committed) /\ (card[u] => HasLater(u, i))
                 => HasLater(u, i)'
  BY <1>4, LaterStays, Zenon
<1>5. ASSUME UNCHANGED mark
      PROVE  \A u \in Users :
               /\ mark'[u] \in 0..MaxMessages /\ (mark'[u] # 0 => mark'[u] \in Committed)
               /\ card[u] => HasLater(u, mark'[u])
  <2>1. \A u \in Users : card[u] => HasLater(u, mark[u])
    BY <1>0, Zenon DEF CardInv
  <2> QED BY <1>1, <1>5, <2>1, Zenon
<1>6. ASSUME NEW k \in Calls, Elsewhere(k)
      PROVE  CardInv'
  <2>1. \A u \in Users : card'[u] => card[u]
    BY <1>0, <1>6, ElsewhereKeeps, Zenon
  <2>2. UNCHANGED mark /\ \A j \in Calls : call'[j].op = "READ_CARD" => call'[j] = call[j]
    BY <1>0, <1>6, ElsewhereKeeps
  <2> QED BY <1>3, <1>4, <1>5, <2>1, <2>2, Zenon
<1>7. ASSUME NEW k \in Calls,
             \/ \E u \in Users : InsertMessage(k, u) \/ MarkReadFind(k, u)
             \/ CallFails(k) /\ call[k].op = "INSERTED"
      PROVE  CardInv'
  <2>1. UNCHANGED card /\ UNCHANGED mark
    BY <1>7 DEF InsertMessage, CallFails, MarkReadFind, chatVars
  <2>2. \A j \in Calls : call'[j].op = "READ_CARD" => call'[j] = call[j]
    BY <1>0, <1>7 DEF InsertMessage, CallFails, MarkReadFind, Ends, Becomes, TypeOK, Idle
  <2>3. \A u \in Users : card'[u] => card[u]
    BY <2>1, Zenon
  <2> QED BY <1>3, <1>4, <1>5, <2>1, <2>2, <2>3, Zenon
<1>8. CASE (\E u \in Users : RemoveCard(u)) \/ Restart \/ UNCHANGED <<chatVars, call>>
  <2>1. \A v \in Users : card'[v] => card[v]
    BY <1>0, <1>8, Zenon DEF RemoveCard, Restart, chatVars, TypeOK
  <2>2. UNCHANGED mark
    BY <1>8 DEF RemoveCard, Restart, chatVars
  <2>3. \A j \in Calls : call'[j].op = "READ_CARD" => call'[j] = call[j]
    BY <1>8 DEF RemoveCard, Restart, chatVars, Idle
  <2> QED BY <1>3, <1>4, <1>5, <2>1, <2>2, <2>3, Zenon
\* The read that goes past the notifications leaves none unread.
<1>9. ASSUME NEW k \in Calls, MarkReadCard(k)
      PROVE  CardInv'
  <2>1. call[k] \in [op : {"READ", "READ_CARD"}, user : Users, latest : Ids]
    BY <1>0, <1>9, CallTypes DEF MarkReadCard
  <2>2. /\ call'[k].user = call[k].user
        /\ \A j \in Calls \ {k} : call'[j] = call[j]
    BY <1>0, <1>9, <2>1 DEF MarkReadCard, Becomes, TypeOK
  <2>3. card' = [card EXCEPT ![call[k].user] = FALSE] /\ call[k].user \in Users
    BY <1>9, <2>1 DEF MarkReadCard, ReadInCards
  <2>4. ~card'[call'[k].user]
    <3>1. ~card'[call[k].user]
      BY <1>0, <2>3, Zenon DEF TypeOK
    <3> QED BY <2>2, <3>1, Zenon
  <2>5. \A v \in Users : card'[v] => card[v]
    BY <1>0, <2>3, Zenon DEF TypeOK
  <2>6. UNCHANGED mark
    BY <1>9 DEF MarkReadCard
  <2>7. \A j \in Calls :
          call'[j].op = "READ_CARD" /\ card'[call'[j].user] => call'[j] = call[j]
    BY <2>2, <2>4, Zenon
  <2> QED BY <1>3, <1>4, <1>5, <2>5, <2>6, <2>7, Zenon
\* The mark moves to what the read has been past.
<1>10. ASSUME NEW k \in Calls, MarkRead(k)
       PROVE  CardInv'
  <2>1. /\ call[k].op = "READ_CARD" /\ call[k].user \in Users
        /\ call[k].latest \in 0..MaxMessages /\ call[k].latest \in Committed
    BY <1>2, <1>10 DEF MarkRead
  <2>2. \A u \in Users : \/ mark'[u] = mark[u]
                         \/ u = call[k].user /\ mark'[u] = call[k].latest
    BY <1>0, <1>10, <2>1 DEF MarkRead, TypeOK
  <2>3. card[call[k].user] => HasLater(call[k].user, call[k].latest)
    BY <1>0, <2>1, Zenon DEF CardInv
  <2>4. \A u \in Users : card[u] => HasLater(u, mark[u])
    BY <1>0, Zenon DEF CardInv
  <2>5. \A u \in Users :
          /\ mark'[u] \in 0..MaxMessages /\ (mark'[u] # 0 => mark'[u] \in Committed)
          /\ card[u] => HasLater(u, mark'[u])
    BY <1>1, <2>1, <2>2, <2>3, <2>4, Zenon
  <2>6. UNCHANGED card
    BY <1>10 DEF MarkRead
  <2>7. \A v \in Users : card'[v] => card[v]
    BY <2>6, Zenon
  <2>8. \A j \in Calls : call'[j].op = "READ_CARD" => call'[j] = call[j]
    BY <1>0, <1>10 DEF MarkRead, Ends, Becomes, TypeOK, Idle
  <2> QED BY <1>3, <1>4, <2>5, <2>7, <2>8, Zenon
\* What makes it unread now is a new message.
<1>11. ASSUME NEW k \in Calls, CreateMessage(k)
       PROVE  CardInv'
  <2>1. call[k].user \in Users
    BY <1>0, <1>11, CallTypes DEF CreateMessage
  <2>2. PICK v \in Users : v = Counterpart(call[k].user)
    BY <2>1, CounterpartIsUser
  <2>3. \A u \in Users \ {v} : card'[u] => card[u]
    BY <1>0, <1>11, <2>2, Zenon DEF CreateMessage, TypeOK
  <2>4. \A u \in Users : \A i \in 0..MaxMessages :
          card'[u] /\ (i # 0 => i \in Committed) /\ (card[u] => HasLater(u, i))
            => HasLater(u, i)'
    <3> SUFFICES ASSUME NEW u \in Users, NEW i \in 0..MaxMessages, card'[u],
                        i # 0 => i \in Committed, card[u] => HasLater(u, i)
        PROVE  HasLater(u, i)'
      BY Zenon
    <3>1. CASE u = v
      BY <1>11, <2>2, <3>1, NewIsLater
    <3>2. CASE u # v
      <4>1. HasLater(u, i)
        BY <2>3, <3>2, Zenon
      <4> QED BY <4>1, LaterStays
    <3> QED BY <3>1, <3>2
  <2>5. UNCHANGED mark /\ \A j \in Calls : call'[j].op = "READ_CARD" => call'[j] = call[j]
    BY <1>0, <1>11 DEF CreateMessage, Becomes, TypeOK
  <2> QED BY <1>3, <1>5, <2>4, <2>5, Zenon
<1> QED BY <1>6, <1>7, <1>8, <1>9, <1>10, <1>11, Steps DEF OnMessages

-----------------------------------------------------------------------------
LEMMA Inductive == Init /\ [][Next]_vars => []IInv
<1>1. IInv /\ [Next]_vars => IInv'
  BY NextTypes, NextTold, NextAttempt, NextOpen, NextMark, NextCard DEF IInv
<1> QED BY InitInv, <1>1, PTL

\* The rows of a room, the calls and the connections keep their types, for any
\* number of calls, connections and messages.
THEOREM ChatTypeCorrect == Spec => []TypeOK
<1>1. IInv => TypeOK
  BY DEF IInv
<1> QED BY Inductive, <1>1, PTL DEF Spec

\* Nobody with a working connection is left without an event of what was
\* committed for them (notification.sse.ts: publishEvent).
THEOREM ChatConnectedIsTold == Spec => []ConnectedIsTold
<1>1. IInv => ConnectedIsTold
  BY DEF IInv
<1> QED BY Inductive, <1>1, PTL DEF Spec

\* The events of a retried attempt are those of the attempt that committed
\* (notification.publish.ts: runAfterCommitPublish).
THEOREM ChatAnnouncedIsRecorded == Spec => []AnnouncedIsRecorded
<1>1. IInv => AnnouncedIsRecorded
  BY DEF IInv, AttemptInv, AnnouncedIsRecorded
<1> QED BY Inductive, <1>1, PTL DEF Spec

\* However many runs of the job overlap and are repeated, one reminder is written
\* (movingDayNotify.job.ts: notifyMovingDay).
THEOREM ChatRemindedOnce == Spec => []RemindedOnce
<1>1. IInv => RemindedOnce
  BY DEF IInv
<1> QED BY Inductive, <1>1, PTL DEF Spec

\* No overlap of sends and reads leaves a notification unread without a message
\* that is (chat.repository.ts: markRead, createMessage).
THEOREM ChatUnreadHasReason == Spec => []UnreadCardHasReason
<1>1. IInv => UnreadCardHasReason
  BY DEF IInv, CardInv, HasLater, Unread, UnreadCardHasReason
<1> QED BY Inductive, <1>1, PTL DEF Spec

=============================================================================
