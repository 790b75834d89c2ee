----------------------------- MODULE Violation -----------------------------
(***************************************************************************)
(* Violation records under concurrent PATCH and close requests.            *)
(*                                                                         *)
(* violation.service reads the row, checks the state machine on what it    *)
(* read, and only then, in a transaction, runs an UPDATE that matches the  *)
(* version the CLIENT sent.  Requests interleave between the two.  How the *)
(* client may know that version is part of the model: it has seen it in an *)
(* earlier response, so it is at most the current one, except that Ahead   *)
(* lets a client that pipelines its requests count versions itself.        *)
(***************************************************************************)
EXTENDS Naturals

CONSTANTS
  Violations,  \* ids of existing violations
  Clients,     \* concurrent API callers, one request in flight each
  MaxVersion,  \* bound on the versions explored
  Ahead        \* how far a client's version may run ahead of the row

ASSUME ViolationAssumption == MaxVersion \in Nat /\ Ahead \in Nat

VARIABLES
  status,       \* status column
  version,      \* version column
  closedAt,     \* violations whose closed_at is set
  closeEvents,  \* ViolationClosed rows written to the outbox
  request       \* what each client's request is doing

vars == <<status, version, closedAt, closeEvents, request>>

Statuses == {"OPEN", "TRIAGE", "ASSIGNED", "IN_PROGRESS", "PENDING_EVIDENCE",
             "VALIDATED", "CLOSED", "ARCHIVED"}

Terminal == {"CLOSED", "ARCHIVED"}

Edges ==
  {<<"OPEN", "TRIAGE">>, <<"OPEN", "ASSIGNED">>,
   <<"TRIAGE", "ASSIGNED">>, <<"TRIAGE", "IN_PROGRESS">>,
   <<"ASSIGNED", "IN_PROGRESS">>,
   <<"IN_PROGRESS", "PENDING_EVIDENCE">>, <<"IN_PROGRESS", "VALIDATED">>,
   <<"PENDING_EVIDENCE", "IN_PROGRESS">>, <<"PENDING_EVIDENCE", "VALIDATED">>,
   <<"VALIDATED", "CLOSED">>}
  \cup {<<s, "ARCHIVED">> : s \in Statuses \ Terminal}

\* status of a PATCH that edits other fields only
NoChange == "no change"

Idle == [op |-> "idle"]

Sent ==
  [op : {"update"}, step : {"sent", "checked"}, v : Violations,
   to : Statuses \cup {NoChange}, expected : Nat \ {0}]
  \cup
  [op : {"close"}, step : {"sent", "checked"}, v : Violations,
   to : {"CLOSED"}, expected : Nat \ {0}]

TypeOK ==
  /\ status \in [Violations -> Statuses]
  /\ version \in [Violations -> Nat \ {0}]
  /\ closedAt \subseteq Violations
  /\ closeEvents \in [Violations -> Nat]
  /\ request \in [Clients -> Sent \cup {Idle}]

Init ==
  /\ status = [v \in Violations |-> "OPEN"]
  /\ version = [v \in Violations |-> 1]
  /\ closedAt = {}
  /\ closeEvents = [v \in Violations |-> 0]
  /\ request = [c \in Clients |-> Idle]

rowVars == <<status, version, closedAt, closeEvents>>

Reply(c) == request' = [request EXCEPT ![c] = Idle]

Waiting(c, op, step) == request[c].op = op /\ request[c].step = step

---------------------------------------------------------------------------
\* The client sends PATCH or close with a version it has seen (or counted).
Send(c) ==
  /\ request[c] = Idle
  /\ \E v \in Violations :
       /\ version[v] < MaxVersion
       /\ \E expected \in 1 .. version[v] + Ahead :
            \/ \E to \in Statuses \cup {NoChange} :
                 request' = [request EXCEPT ![c] =
                   [op |-> "update", step |-> "sent", v |-> v,
                    to |-> to, expected |-> expected]]
            \/ request' = [request EXCEPT ![c] =
                 [op |-> "close", step |-> "sent", v |-> v,
                  to |-> "CLOSED", expected |-> expected]]
  /\ UNCHANGED rowVars

Passes(c) == request' = [request EXCEPT ![c].step = "checked"]

\* update(): findById, then the two checks on what was read.
CheckUpdate(c) ==
  LET from == status[request[c].v]
      to   == request[c].to
  IN
  /\ Waiting(c, "update", "sent")
  /\ IF from \notin Terminal /\ (to = NoChange \/ <<from, to>> \in Edges)
     THEN Passes(c)
     ELSE Reply(c)
  /\ UNCHANGED rowVars

\* close(): findById, then the VALIDATED check on what was read.
CheckClose(c) ==
  /\ Waiting(c, "close", "sent")
  /\ IF status[request[c].v] = "VALIDATED" THEN Passes(c) ELSE Reply(c)
  /\ UNCHANGED rowVars

\* Seeded fault: the UPDATE matches the row by id alone.
Matches_AnyVersion(c) == TRUE

\* The repository's optimistic-lock UPDATE matches a row.
Matches(c) == version[request[c].v] = request[c].expected

Bump(v) == version' = [version EXCEPT ![v] = @ + 1]

\* Seeded fault: an update that changes the status forgets version + 1.
CommitUpdate_KeepsVersion(c) ==
  LET v  == request[c].v
      to == request[c].to
  IN
  /\ Waiting(c, "update", "checked")
  /\ IF Matches(c) /\ to # NoChange
     THEN status' = [status EXCEPT ![v] = to]
     ELSE UNCHANGED status
  /\ Reply(c)
  /\ UNCHANGED <<version, closedAt, closeEvents>>

\* Seeded fault: an absent status is written as it came.
CommitUpdate_WritesAbsentStatus(c) ==
  LET v == request[c].v IN
  /\ Waiting(c, "update", "checked")
  /\ IF Matches(c)
     THEN Bump(v) /\ status' = [status EXCEPT ![v] = request[c].to]
     ELSE UNCHANGED <<version, status>>
  /\ Reply(c)
  /\ UNCHANGED <<closedAt, closeEvents>>

\* update()'s transaction; "409 Concurrent update detected" when no row matched.
CommitUpdate(c) ==
  LET v  == request[c].v
      to == request[c].to
  IN
  /\ Waiting(c, "update", "checked")
  /\ IF Matches(c)
     THEN /\ Bump(v)
          /\ status' = IF to = NoChange THEN status ELSE [status EXCEPT ![v] = to]
     ELSE UNCHANGED <<version, status>>
  /\ Reply(c)
  /\ UNCHANGED <<closedAt, closeEvents>>

\* close()'s transaction: the row and its ViolationClosed event together.
CommitClose(c) ==
  LET v == request[c].v IN
  /\ Waiting(c, "close", "checked")
  /\ IF Matches(c)
     THEN /\ Bump(v)
          /\ status' = [status EXCEPT ![v] = "CLOSED"]
          /\ closedAt' = closedAt \cup {v}
          /\ closeEvents' = [closeEvents EXCEPT ![v] = @ + 1]
     ELSE UNCHANGED rowVars
  /\ Reply(c)

Next ==
  \E c \in Clients :
    \/ Send(c)
    \/ CheckUpdate(c) \/ CommitUpdate(c)
    \/ CheckClose(c) \/ CommitClose(c)

Spec == Init /\ [][Next]_vars

---------------------------------------------------------------------------
(* Properties *)

\* What a request checked still holds when its UPDATE matches: the version
\* stands for the row that was read.  (The fact the lifecycle rests on.)
CheckedStillHolds ==
  \A c \in Clients :
    LET q == request[c] IN
    q # Idle /\ q.step = "checked" /\ Matches(c) =>
      /\ status[q.v] \notin Terminal
      /\ q.to # NoChange => <<status[q.v], q.to>> \in Edges

\* A violation is announced closed at most once, closed_at is stamped with
\* exactly that announcement, and neither happens to a violation in another
\* status: two concurrent close requests never both succeed.
ClosedOnce ==
  \A v \in Violations :
    /\ closeEvents[v] <= 1
    /\ (closeEvents[v] = 1) <=> (v \in closedAt)
    /\ v \in closedAt => status[v] = "CLOSED"

\* "Terminal violations are immutable": not even a field edit lands on one.
TerminalIsImmutable ==
  [][\A v \in Violations : status[v] \in Terminal => version'[v] = version[v]]_vars

\* "closes go through close()": a CLOSED violation has its closed_at and its
\* ViolationClosed event.
ClosesGoThroughClose ==
  \A v \in Violations : status[v] = "CLOSED" => v \in closedAt

\* Concurrent requests move each violation along the state machine only.
Machine == INSTANCE Lifecycle WITH Rows <- Violations, InitialStatus <- "OPEN"

FollowsLifecycle == Machine!Spec
=============================================================================
