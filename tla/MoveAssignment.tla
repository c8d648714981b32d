--------------------------- MODULE MoveAssignment ---------------------------
(***************************************************************************)
(* What the service promises about a moving request, without estimates,    *)
(* calls, deadlines or jobs: a request is open, held by one mover, done or *)
(* lapsed; an unpaid hold may be released, a paid one may not; only a      *)
(* settled hold is finished.  MoveLifecycle implements this.               *)
(***************************************************************************)
CONSTANTS
  Requests, Movers, NoMover,
  Exempt      \* requests held since before deposits existed, nothing to pay

VARIABLES
  phase,      \* of each request
  holder,     \* the mover the request is, or was last, assigned to
  paid        \* requests whose holder's deposit is paid

vars == <<phase, holder, paid>>

Init ==
  /\ phase = [r \in Requests |-> IF r \in Exempt THEN "HELD" ELSE "NONE"]
  /\ \E h \in [Requests -> Movers \cup {NoMover}] :
       /\ \A r \in Requests : r \in Exempt <=> h[r] # NoMover
       /\ holder = h
  /\ paid = {}

Open(r) ==
  /\ phase[r] = "NONE"
  /\ phase' = [phase EXCEPT ![r] = "OPEN"]
  /\ UNCHANGED <<holder, paid>>

Assign(r, m) ==
  /\ phase[r] = "OPEN"
  /\ phase' = [phase EXCEPT ![r] = "HELD"]
  /\ holder' = [holder EXCEPT ![r] = m]
  /\ UNCHANGED paid

Release(r) ==
  /\ phase[r] = "HELD" /\ r \notin paid /\ r \notin Exempt
  /\ phase' = [phase EXCEPT ![r] = "OPEN"]
  /\ holder' = [holder EXCEPT ![r] = NoMover]
  /\ UNCHANGED paid

Pay(r) ==
  /\ phase[r] = "HELD" /\ r \notin paid /\ r \notin Exempt
  /\ paid' = paid \cup {r}
  /\ UNCHANGED <<phase, holder>>

Finish(r) ==
  /\ phase[r] = "HELD" /\ (r \in paid \/ r \in Exempt)
  /\ phase' = [phase EXCEPT ![r] = "DONE"]
  /\ UNCHANGED <<holder, paid>>

Lapse(r) ==
  /\ phase[r] = "OPEN"
  /\ phase' = [phase EXCEPT ![r] = "LAPSED"]
  /\ UNCHANGED <<holder, paid>>

Next ==
  \E r \in Requests :
    \/ Open(r) \/ Release(r) \/ Pay(r) \/ Finish(r) \/ Lapse(r)
    \/ \E m \in Movers : Assign(r, m)

Spec == Init /\ [][Next]_vars
=============================================================================
