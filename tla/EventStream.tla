----------------------------- MODULE EventStream -----------------------------
(***************************************************************************)
(* The server-sent events of notification.sse.ts: which connections the    *)
(* process holds, and whether the client behind each of them has been told *)
(* to fetch again.  Events carry no contents, so a client is described by  *)
(* two bits: `current`, it has fetched everything committed for its user,  *)
(* and `told`, an event is on its way to it.                               *)
(***************************************************************************)
EXTENDS FiniteSets

CONSTANTS
  Users,
  Connections,  \* EventSource objects of the users' tabs
  Owner         \* whose tab each of them is

ASSUME OwnerOK == Owner \in [Connections -> Users]

VARIABLES
  socket,      \* its state
  targets,     \* the process's Map: the connections it writes to, by user
  told,        \* an event has been delivered and not yet acted on
  current      \* the client has seen all that is committed for its user

streamVars == <<socket, targets, told, current>>

\* FULL: the next write reports a full buffer.  BROKEN: destroyed or gone, the
\* process has yet to learn of it.
SocketStates == {"UNUSED", "OPEN", "FULL", "BROKEN"}

StreamTypeOK ==
  /\ socket \in [Connections -> SocketStates]
  /\ targets \in [Users -> SUBSET Connections]
  /\ told \in [Connections -> BOOLEAN]
  /\ current \in [Connections -> BOOLEAN]

StreamInit ==
  /\ socket = [c \in Connections |-> "UNUSED"]
  /\ targets = [u \in Users |-> {}]
  /\ told = [c \in Connections |-> FALSE]
  /\ current = [c \in Connections |-> FALSE]

\* A mutant: the user's entry goes with the first connection that stops.
StopsWholeUser(c) == [targets EXCEPT ![Owner[c]] = {}]

\* stop: this connection alone is taken out.
Stops(c) == [targets EXCEPT ![Owner[c]] = @ \ {c}]

\* openStream.  The client fetches once it is connected.
OpenStream(c) ==
  /\ socket[c] = "UNUSED"
  /\ socket' = [socket EXCEPT ![c] = "OPEN"]
  /\ targets' = [targets EXCEPT ![Owner[c]] = @ \cup {c}]
  /\ told' = [told EXCEPT ![c] = TRUE]
  /\ current' = [current EXCEPT ![c] = FALSE]

\* The client fetches what it has been told about.
Fetch(c) ==
  /\ told[c]
  /\ told' = [told EXCEPT ![c] = FALSE]
  /\ current' = [current EXCEPT ![c] = TRUE]
  /\ UNCHANGED <<socket, targets>>

\* The client reads too slowly, or catches up; or goes away.
SocketChanges(c) ==
  /\ \/ socket[c] = "OPEN" /\ socket' = [socket EXCEPT ![c] = "FULL"]
     \/ socket[c] = "FULL" /\ socket' = [socket EXCEPT ![c] = "OPEN"]
  /\ UNCHANGED <<targets, told, current>>

ClientLeaves(c) ==
  /\ socket[c] \in {"OPEN", "FULL"}
  /\ socket' = [socket EXCEPT ![c] = "BROKEN"]
  /\ told' = [told EXCEPT ![c] = FALSE]
  /\ current' = [current EXCEPT ![c] = FALSE]
  /\ UNCHANGED targets

\* The close or error event, or a heartbeat that cannot be written.  A client
\* whose connection has ended may open it again.
Close(c) ==
  /\ socket[c] = "BROKEN" \/ (socket[c] = "FULL" /\ c \in targets[Owner[c]])
  /\ targets' = Stops(c)
  /\ socket' = [socket EXCEPT ![c] = "UNUSED"]
  /\ told' = [told EXCEPT ![c] = FALSE]
  /\ current' = [current EXCEPT ![c] = FALSE]

\* publishEvent: writes to each connection of the users; one that cannot be
\* written to is destroyed and taken out, the others still get the event.
Reached(users) == {c \in UNION {targets[u] : u \in users} : socket[c] = "OPEN"}
Dropped(users) == (UNION {targets[u] : u \in users}) \ Reached(users)

Publish(users) ==
  /\ told' = [c \in Connections |-> (told[c] \/ c \in Reached(users)) /\ c \notin Dropped(users)]
  /\ current' = [c \in Connections |-> current[c] /\ c \notin Dropped(users)]
  /\ socket' = [c \in Connections |-> IF c \in Dropped(users) THEN "BROKEN" ELSE socket[c]]
  /\ targets' = [u \in Users |-> targets[u] \ Dropped(users)]

\* A commit changes what the users would fetch.
CommitFor(users) ==
  /\ current' = [c \in Connections |-> current[c] /\ Owner[c] \notin users]
  /\ UNCHANGED <<socket, targets, told>>

\* The connections die with the process.
StreamsEnd ==
  /\ socket' = [c \in Connections |-> "UNUSED"]
  /\ targets' = [u \in Users |-> {}]
  /\ told' = [c \in Connections |-> FALSE]
  /\ current' = [c \in Connections |-> FALSE]

StreamStep == \E c \in Connections :
  OpenStream(c) \/ Fetch(c) \/ SocketChanges(c) \/ ClientLeaves(c) \/ Close(c)

=============================================================================
