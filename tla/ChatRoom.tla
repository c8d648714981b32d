------------------------------ MODULE ChatRoom ------------------------------
(***************************************************************************)
(* One chat room of a customer and a mover, the notifications of both, of  *)
(* its messages and of the day of the move, and the events that tell their *)
(* browsers: modules chat and notification, movingDayNotify.job.ts.        *)
(*                                                                         *)
(* A message gets its id when it is inserted and is seen when its          *)
(* transaction commits; the room's row, updated in between, puts the       *)
(* commits in an order, which need not be that of the ids.                 *)
(***************************************************************************)
EXTENDS Integers, EventStream

CONSTANTS
  Calls,        \* HTTP calls under way at once
  MaxMessages,  \* bound of the model
  MaxAttempts   \* MAX_RETRIES of such a transaction

ASSUME ChatConstantsOK ==
  /\ Users = {"CUSTOMER", "MOVER"}
  /\ MaxMessages \in Nat
  /\ MaxAttempts \in Nat \ {0}

VARIABLES
  message,    \* by id: who sent it and what became of it
  mark,       \* customerLastReadId, moverLastReadId; 0 stands for NULL
  card,       \* there is an unread NEW_CHAT_MESSAGE notification
  reminders,  \* rows of one moving day type, for each user
  call

chatVars == <<message, mark, card, reminders>>
vars == <<chatVars, call, streamVars>>

Ids == 1..MaxMessages
NoMessage == [from |-> "NOBODY", status |-> "NONE"]
Lost      == [from |-> "NOBODY", status |-> "LOST"]   \* rolled back: the id is used up

\* LATE: committed after a message with a greater id.
Statuses == {"OPEN", "SENT", "LATE"}

Idle == [op |-> "IDLE"]

\* Who is reminded of a request: its customer, and the mover if one is confirmed.
Recipients == {{"CUSTOMER"}, Users}

Attempts == [op : {"INSERT"}, n : 1..MaxAttempts, to : Recipients, existing : SUBSET Users,
             queue : 0..2]

CallStates ==
  {Idle} \cup [op : {"SENT"}]
         \cup [op : {"INSERTED"}, user : Users, id : Ids]
         \cup [op : {"READ", "READ_CARD"}, user : Users, latest : Ids]
         \cup [op : {"MARKED"}, user : Users]
         \cup Attempts
         \cup [op : {"REMINDED"}, to : SUBSET Users, queue : 0..2]

TypeOK ==
  /\ StreamTypeOK
  /\ message \in [Ids -> {NoMessage, Lost} \cup [from : Users, status : Statuses]]
  /\ mark \in [Users -> 0..MaxMessages]
  /\ card \in [Users -> BOOLEAN]
  /\ reminders \in [Users -> Nat]
  /\ call \in [Calls -> CallStates]

Init ==
  /\ StreamInit
  /\ message = [i \in Ids |-> NoMessage]
  /\ mark = [u \in Users |-> 0]
  /\ card = [u \in Users |-> FALSE]
  /\ reminders = [u \in Users |-> 0]
  /\ call = [k \in Calls |-> Idle]

Becomes(k, state) == call' = [call EXCEPT ![k] = state]
Ends(k) == Becomes(k, Idle)

\* counterpartOf
Counterpart(u) == CHOOSE v \in Users : v # u

Committed == {i \in Ids : message[i].status \in {"SENT", "LATE"}}
NextIds   == {i \in Ids : message[i] = NoMessage /\ \A j \in Ids : j < i => message[j] # NoMessage}

-----------------------------------------------------------------------------
(* Sending.                                                                *)

\* requireRoom and assertOpen may refuse at any time: a room closes, and opens
\* again when the estimate is written.  A photo is uploaded before the insert.
InsertMessage(k, u) ==
  /\ call[k] = Idle
  /\ \E i \in NextIds :
       /\ message' = [message EXCEPT ![i] = [from |-> u, status |-> "OPEN"]]
       /\ Becomes(k, [op |-> "INSERTED", user |-> u, id |-> i])
  /\ UNCHANGED <<mark, card, reminders, streamVars>>

\* With the room's row in hand: the recipient's one notification of this room
\* becomes unread, or is made.
CreateMessage(k) ==
  LET to == Counterpart(call[k].user) IN
  /\ call[k].op = "INSERTED"
  /\ message' = [message EXCEPT ![call[k].id].status =
                   IF \E i \in Committed : i > call[k].id THEN "LATE" ELSE "SENT"]
  /\ card' = [card EXCEPT ![to] = TRUE]
  /\ Becomes(k, [op |-> "SENT"])
  /\ CommitFor(Users)
  /\ UNCHANGED <<mark, reminders>>

PublishMessageSignals(k) ==
  /\ call[k].op = "SENT"
  /\ Publish(Users)
  /\ Ends(k)
  /\ UNCHANGED chatVars

-----------------------------------------------------------------------------
(* Reading.                                                                *)

\* The newest message that is committed, whoever sent it.
MarkReadFind(k, u) ==
  /\ call[k] = Idle
  /\ \E latest \in Committed :
       /\ \A i \in Committed : i <= latest
       /\ Becomes(k, [op |-> "READ", user |-> u, latest |-> latest])
  /\ UNCHANGED <<chatVars, streamVars>>

\* A mutant: the notification stays as it is.
ReadInChatOnly(u) == card[u]

ReadInCards(u) == FALSE

MarkReadCard(k) ==
  /\ call[k].op = "READ"
  /\ card' = [card EXCEPT ![call[k].user] = ReadInCards(call[k].user)]
  /\ Becomes(k, [call[k] EXCEPT !.op = "READ_CARD"])
  /\ UNCHANGED <<message, mark, reminders, streamVars>>

\* Only upwards; an overlapping call may have moved it further.
MovesMark(u, latest) == mark[u] < latest

MarkRead(k) ==
  LET u == call[k].user IN
  /\ call[k].op = "READ_CARD"
  /\ IF MovesMark(u, call[k].latest)
     THEN /\ mark' = [mark EXCEPT ![u] = call[k].latest]
          /\ Becomes(k, [op |-> "MARKED", user |-> u])
          /\ CommitFor({Counterpart(u)})
     ELSE /\ Ends(k)
          /\ UNCHANGED <<mark, streamVars>>
  /\ UNCHANGED <<message, card, reminders>>

PublishRead(k) ==
  /\ call[k].op = "MARKED"
  /\ Publish({Counterpart(call[k].user)})
  /\ Ends(k)
  /\ UNCHANGED chatVars

\* read, readAll, remove and bulkRemove from the list of notifications.
RemoveCard(u) ==
  /\ card[u]
  /\ card' = [card EXCEPT ![u] = FALSE]
  /\ UNCHANGED <<message, mark, reminders, call, streamVars>>

-----------------------------------------------------------------------------
(* The reminder of the moving day, from runs of the job that may overlap.  *)

\* A mutant: one queue around the whole loop of attempts.
QueueKept(k) == call[k].queue

\* runAfterCommitPublish wraps one attempt, so its queue starts empty.
QueueOfRetry(k) == 0

\* Who has the reminder, and which of the recipients of a run had not.
Reminded   == {u \in Users : reminders[u] > 0}
Pending(k) == call[k].to \ call[k].existing

\* createManyNotifications and enqueueNotificationPublish, for who is left; for
\* nobody, there is nothing to write or to send.
InsertReminders(k, n, to, queue) ==
  IF to \subseteq Reminded
  THEN Ends(k)
  ELSE Becomes(k, [op |-> "INSERT", n |-> n, to |-> to, existing |-> Reminded,
                   queue |-> queue + 1])

\* The request is ASSIGNED and of today or tomorrow.  Runs may disagree on who is
\* to be told, as a confirmed estimate may be rejected between them.
RemindBegin(k) ==
  /\ call[k] = Idle
  /\ \E to \in Recipients : InsertReminders(k, 1, to, 0)
  /\ UNCHANGED <<chatVars, streamVars>>

MayRetry(n) == n < MaxAttempts

\* A serialization conflict (P2034) or a row that is there already (P2002).
RemindConflict(k) ==
  /\ call[k].op = "INSERT"
  /\ IF MayRetry(call[k].n)
     THEN InsertReminders(k, call[k].n + 1, call[k].to, QueueOfRetry(k))
     ELSE Ends(k)
  /\ UNCHANGED <<chatVars, streamVars>>

\* A mutant: neither the isolation level nor the unique index.
InsertsAnyway(k) == TRUE

\* Serializable, and notification_moving_user_request_type_key.
MayInsert(k) == call[k].existing = Reminded

RemindCommit(k) ==
  /\ call[k].op = "INSERT"
  /\ MayInsert(k)
  /\ reminders' = [u \in Users |-> reminders[u] + IF u \in Pending(k) THEN 1 ELSE 0]
  /\ Becomes(k, [op |-> "REMINDED", to |-> Pending(k), queue |-> call[k].queue])
  /\ CommitFor(Pending(k))
  /\ UNCHANGED <<message, mark, card>>

PublishQueue(k) ==
  /\ call[k].op = "REMINDED"
  /\ Publish(call[k].to)
  /\ Ends(k)
  /\ UNCHANGED chatVars

-----------------------------------------------------------------------------
(* Failures.                                                               *)

CallFails(k) ==
  /\ call[k].op \in {"INSERTED", "READ", "READ_CARD", "INSERT"}
  /\ Ends(k)
  /\ message' = IF call[k].op = "INSERTED"
                THEN [message EXCEPT ![call[k].id] = Lost] ELSE message
  /\ UNCHANGED <<mark, card, reminders, streamVars>>

\* A restart rolls back what is not committed; the clients connect again.
Restart ==
  /\ call' = [k \in Calls |-> Idle]
  /\ message' = [i \in Ids |-> IF message[i].status = "OPEN"
                               THEN Lost ELSE message[i]]
  /\ StreamsEnd
  /\ UNCHANGED <<mark, card, reminders>>

Next ==
  \/ \E k \in Calls :
       \/ \E u \in Users : InsertMessage(k, u) \/ MarkReadFind(k, u)
       \/ RemindBegin(k) \/ RemindConflict(k) \/ RemindCommit(k) \/ PublishQueue(k)
       \/ CreateMessage(k) \/ PublishMessageSignals(k)
       \/ MarkReadCard(k) \/ MarkRead(k) \/ PublishRead(k)
       \/ CallFails(k)
  \/ \E u \in Users : RemoveCard(u)
  \/ Restart
  \/ StreamStep /\ UNCHANGED <<chatVars, call>>

Spec == Init /\ [][Next]_vars

-----------------------------------------------------------------------------
(* Safety.                                                                 *)

\* Calls that have committed something and are about to send the event.
ToPublish(u) == {k \in Calls :
  \/ call[k].op = "SENT"
  \/ (call[k].op = "REMINDED" /\ u \in call[k].to)
  \/ (call[k].op = "MARKED" /\ Counterpart(call[k].user) = u)}

\* Whoever holds a connection that still works and has not fetched the last
\* commit of somebody else has an event on the way, or will be sent one, also
\* when another tab of the same user breaks, is too slow or is closed
\* (notification.sse.ts: publishEvent, stop; events after the commit only).
ConnectedIsTold ==
  \A c \in Connections :
    socket[c] \in {"OPEN", "FULL"} => current[c] \/ told[c] \/ ToPublish(Owner[c]) # {}

\* Each committed attempt sends the events of its own notifications and none of
\* an attempt that was rolled back (notification.publish.ts: runAfterCommitPublish).
AnnouncedIsRecorded ==
  \A k \in Calls : call[k].op = "REMINDED" => call[k].queue = 1

\* Each is reminded of the day once, also when two runs of the job overlap, do
\* not have the same recipients and repeat attempts (movingDayNotify.job.ts:
\* notifyMovingDay).
RemindedOnce == \A u \in Users : reminders[u] <= 1

\* A message from the counterpart that the mark has not reached.
Unread(u) == \E i \in Committed : i > mark[u] /\ message[i].from = Counterpart(u)

\* A notification is unread because a message is, or because of a message that
\* was there only after a later one; reads and writes that overlap never leave it
\* behind otherwise (chat.repository.ts: markRead, createMessage).
UnreadCardHasReason ==
  \A u \in Users : card[u] =>
    \/ Unread(u)
    \/ \E i \in Ids : message[i].status = "LATE" /\ message[i].from = Counterpart(u)

=============================================================================
