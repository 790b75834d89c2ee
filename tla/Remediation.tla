---------------------------- MODULE Remediation ----------------------------
(***************************************************************************)
(* Remediation tasks under concurrent PATCH and close requests.            *)
(*                                                                         *)
(* remediation-task.service reads the task, checks its state machine on    *)
(* what it read, and then, in a transaction, runs an UPDATE that matches   *)
(* the version the client sent, followed by the outbox rows.  Whether an   *)
(* assignment is announced is decided on the assignee that was READ.  A    *)
(* client sends a version it has seen in an earlier response.              *)
(***************************************************************************)
EXTENDS Naturals

CONSTANTS
  Tasks,       \* ids of existing tasks
  Clients,     \* concurrent API callers, one request in flight each
  Users,       \* users a task may be assigned to
  MaxVersion,  \* bound on the versions explored
  Null         \* no user

VARIABLES
  status,           \* status column
  version,          \* version column
  assignedTo,       \* assigned_to column
  verifiedBy,       \* verified_by column (verified_at is written with it)
  closedAt,         \* tasks whose closed_at is set
  announcedTo,      \* assignee named by the last RemediationTaskAssigned row
  completedEvents,  \* RemediationCompleted rows of each task
  request           \* what each client's request is doing

rowVars == <<status, version, assignedTo, verifiedBy, closedAt>>
outboxVars == <<announcedTo, completedEvents>>
vars == <<rowVars, outboxVars, request>>

Statuses == {"PENDING", "IN_PROGRESS", "PENDING_VERIFICATION", "VERIFIED",
             "CLOSED", "CANCELLED"}

Terminal == {"CLOSED", "CANCELLED"}

Edges ==
  {<<"PENDING", "IN_PROGRESS">>,
   <<"IN_PROGRESS", "PENDING_VERIFICATION">>,
   <<"PENDING_VERIFICATION", "IN_PROGRESS">>,
   <<"PENDING_VERIFICATION", "VERIFIED">>,
   <<"VERIFIED", "CLOSED">>}
  \cup {<<s, "CANCELLED">> : s \in Statuses \ Terminal}

\* A field that the PATCH body does not contain.
NoChange == "no change"

Idle == [op |-> "idle"]

\* "read" is the assignee of the row the request read.
Sent ==
  [op : {"update"}, step : {"sent", "checked"}, t : Tasks,
   to : Statuses \cup {NoChange}, assign : Users \cup {Null, NoChange},
   expected : Nat \ {0}, read : Users \cup {Null}]
  \cup
  [op : {"close"}, step : {"sent", "checked"}, t : Tasks, expected : Nat \ {0}]

TypeOK ==
  /\ status \in [Tasks -> Statuses]
  /\ version \in [Tasks -> Nat \ {0}]
  /\ assignedTo \in [Tasks -> Users \cup {Null}]
  /\ verifiedBy \in [Tasks -> Clients \cup {Null}]
  /\ closedAt \subseteq Tasks
  /\ announcedTo \in [Tasks -> Users \cup {Null}]
  /\ completedEvents \in [Tasks -> Nat]
  /\ request \in [Clients -> Sent \cup {Idle}]

\* create(): a task assigned at creation is announced in the same transaction.
Init ==
  /\ status = [t \in Tasks |-> "PENDING"]
  /\ version = [t \in Tasks |-> 1]
  /\ assignedTo \in [Tasks -> Users \cup {Null}]
  /\ announcedTo = assignedTo
  /\ verifiedBy = [t \in Tasks |-> Null]
  /\ closedAt = {}
  /\ completedEvents = [t \in Tasks |-> 0]
  /\ request = [c \in Clients |-> Idle]

Reply(c) == request' = [request EXCEPT ![c] = Idle]

Waiting(c, op, step) == request[c].op = op /\ request[c].step = step

---------------------------------------------------------------------------
SendUpdate(c) ==
  /\ request[c] = Idle
  /\ \E t \in Tasks, to \in Statuses \cup {NoChange},
        assign \in Users \cup {Null, NoChange} :
       /\ version[t] < MaxVersion
       /\ \E expected \in 1 .. version[t] :
            request' = [request EXCEPT ![c] =
              [op |-> "update", step |-> "sent", t |-> t, to |-> to,
               assign |-> assign, expected |-> expected, read |-> Null]]
  /\ UNCHANGED <<rowVars, outboxVars>>

SendClose(c) ==
  /\ request[c] = Idle
  /\ \E t \in Tasks :
       /\ version[t] < MaxVersion
       /\ \E expected \in 1 .. version[t] :
            request' = [request EXCEPT ![c] =
              [op |-> "close", step |-> "sent", t |-> t, expected |-> expected]]
  /\ UNCHANGED <<rowVars, outboxVars>>

\* update(): findById, the terminal check and the state machine.
CheckUpdate(c) ==
  LET q    == request[c]
      from == status[q.t]
  IN
  /\ Waiting(c, "update", "sent")
  /\ IF from \notin Terminal /\ (q.to = NoChange \/ <<from, q.to>> \in Edges)
     THEN request' = [request EXCEPT ![c].step = "checked",
                                     ![c].read = assignedTo[q.t]]
     ELSE Reply(c)
  /\ UNCHANGED <<rowVars, outboxVars>>

\* close(): findById and the VERIFIED check.
CheckClose(c) ==
  /\ Waiting(c, "close", "sent")
  /\ IF status[request[c].t] = "VERIFIED"
     THEN request' = [request EXCEPT ![c].step = "checked"]
     ELSE Reply(c)
  /\ UNCHANGED <<rowVars, outboxVars>>

\* Seeded fault: the UPDATE matches the row by id alone.
Matches_AnyVersion(c) == TRUE

\* The repository's optimistic-lock UPDATE matches a row.
Matches(c) == version[request[c].t] = request[c].expected

Bump(t) == version' = [version EXCEPT ![t] = @ + 1]

\* Seeded fault: announce the assignee only when the status changes too.
Announce_OnlyWithStatus(q) ==
  announcedTo' =
    IF q.assign \notin {NoChange, Null, q.read} /\ q.to # NoChange
    THEN [announcedTo EXCEPT ![q.t] = q.assign]
    ELSE announcedTo

\* RemediationTaskAssigned is written when the assignee differs from the one
\* that was read and is a concrete user.
Announce(q) ==
  announcedTo' =
    IF q.assign \notin {NoChange, Null, q.read}
    THEN [announcedTo EXCEPT ![q.t] = q.assign]
    ELSE announcedTo

\* The columns a PATCH writes; entering VERIFIED stamps the verifier.
SetFields(c, q) ==
  /\ status' = [status EXCEPT ![q.t] = IF q.to = NoChange THEN @ ELSE q.to]
  /\ assignedTo' = [assignedTo EXCEPT ![q.t] = IF q.assign = NoChange THEN @ ELSE q.assign]
  /\ verifiedBy' = [verifiedBy EXCEPT ![q.t] = IF q.to = "VERIFIED" THEN c ELSE @]

\* update()'s transaction; 409 when no row matched.
CommitUpdate(c) ==
  LET q == request[c] IN
  /\ Waiting(c, "update", "checked")
  /\ IF Matches(c)
     THEN Bump(q.t) /\ SetFields(c, q) /\ Announce(q)
     ELSE UNCHANGED <<version, status, assignedTo, verifiedBy, announcedTo>>
  /\ Reply(c)
  /\ UNCHANGED <<closedAt, completedEvents>>

\* close()'s transaction: the row and its RemediationCompleted event.
CommitClose(c) ==
  LET t == request[c].t IN
  /\ Waiting(c, "close", "checked")
  /\ IF Matches(c)
     THEN /\ Bump(t)
          /\ status' = [status EXCEPT ![t] = "CLOSED"]
          /\ closedAt' = closedAt \cup {t}
          /\ completedEvents' = [completedEvents EXCEPT ![t] = @ + 1]
     ELSE UNCHANGED <<version, status, closedAt, completedEvents>>
  /\ Reply(c)
  /\ UNCHANGED <<assignedTo, verifiedBy, announcedTo>>

Next ==
  \E c \in Clients :
    \/ SendUpdate(c) \/ CheckUpdate(c) \/ CommitUpdate(c)
    \/ SendClose(c) \/ CheckClose(c) \/ CommitClose(c)

Spec == Init /\ [][Next]_vars

---------------------------------------------------------------------------
(* Properties *)

\* What a request checked and read still holds when its UPDATE matches.
CheckedStillHolds ==
  \A c \in Clients :
    LET q == request[c] IN
    q # Idle /\ q.step = "checked" /\ Matches(c) =>
      CASE q.op = "close"  -> status[q.t] = "VERIFIED"
        [] q.op = "update" ->
             /\ status[q.t] \notin Terminal
             /\ q.to # NoChange => <<status[q.t], q.to>> \in Edges
             /\ q.read = assignedTo[q.t]

\* The user a task is assigned to is the one the last assignment event
\* named: no reassignment is lost to a stale read of the previous assignee.
AssigneeWasAnnounced ==
  \A t \in Tasks : assignedTo[t] # Null => announcedTo[t] = assignedTo[t]

\* A task is reported completed at most once, closed_at is stamped with that
\* report, and only a task somebody verified is closed.
CompletedOnce ==
  \A t \in Tasks :
    /\ completedEvents[t] <= 1
    /\ (completedEvents[t] = 1) <=> (t \in closedAt)
    /\ t \in closedAt => status[t] = "CLOSED" /\ verifiedBy[t] # Null

\* "Verification stamp - applied once": of two reviewers who verify the same
\* task at the same time one is refused, and nobody replaces the stamp later.
VerifierIsFinal ==
  [][\A t \in Tasks : verifiedBy[t] # Null => verifiedBy'[t] = verifiedBy[t]]_vars

=============================================================================
