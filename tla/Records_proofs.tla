--------------------------- MODULE Records_proofs ---------------------------
(***************************************************************************)
(* Theorems about Violation alone and about MCRecords: violations,           *)
(* remediation tasks and data subject requests, for any number of records,  *)
(* clients, users, systems and vendors.                                     *)
(*                                                                          *)
(* The argument: a version number is reached once and never left and        *)
(* re-entered, and no request expects a version that lies in the future     *)
(* (VersionsSeen, for Ahead = 0).  So when the UPDATE matches, the row is    *)
(* the very row the request read and checked (CheckedStillHolds).  Without  *)
(* VersionsSeen the invariant is not inductive: another request could move  *)
(* the row onto the expected version after the check.  The hard erase       *)
(* writes without looking at the version, but it moves it on too, and it is *)
(* the only write that does not come from a check.                          *)
(***************************************************************************)
EXTENDS MCRecords, TLAPS

---------------------------------------------------------------------------
(* Violations                                                              *)

VersionsSeen ==
  \A c \in Clients : request[c] # Idle => request[c].expected <= version[request[c].v]

IInv ==
  /\ TypeOK
  /\ VersionsSeen
  /\ CheckedStillHolds
  /\ ClosedOnce

LEMMA RequestShape ==
  ASSUME TypeOK, NEW c \in Clients, request[c] # Idle
  PROVE  /\ request[c] \in Sent
         /\ request[c].v \in Violations
         /\ request[c].expected \in Nat
         /\ request[c].to \in Statuses \cup {NoChange}
         /\ request[c].op \in {"update", "close"}
         /\ request[c].op = "close" => request[c].to = "CLOSED"
BY DEF TypeOK, Sent, Statuses, NoChange

LEMMA InitIInv == Init => IInv
BY ViolationAssumption
   DEF Init, IInv, TypeOK, VersionsSeen, CheckedStillHolds, ClosedOnce, Statuses, Idle

LEMMA SendIInv ==
  ASSUME Ahead = 0, IInv, NEW c \in Clients, Send(c)
  PROVE  IInv'
<1> USE DEF rowVars
<1>1. PICK q \in Sent :
        /\ request' = [request EXCEPT ![c] = q]
        /\ q.expected <= version[q.v]
        /\ q.step = "sent"
  <2>1. PICK v \in Violations : \E expected \in 1 .. version[v] :
          \/ \E to \in Statuses \cup {NoChange} :
               request' = [request EXCEPT ![c] =
                 [op |-> "update", step |-> "sent", v |-> v,
                  to |-> to, expected |-> expected]]
          \/ request' = [request EXCEPT ![c] =
               [op |-> "close", step |-> "sent", v |-> v,
                to |-> "CLOSED", expected |-> expected]]
    BY DEF Send, IInv, TypeOK
  <2>0. PICK expected \in 1 .. version[v] :
          \/ \E to \in Statuses \cup {NoChange} :
               request' = [request EXCEPT ![c] =
                 [op |-> "update", step |-> "sent", v |-> v,
                  to |-> to, expected |-> expected]]
          \/ request' = [request EXCEPT ![c] =
               [op |-> "close", step |-> "sent", v |-> v,
                to |-> "CLOSED", expected |-> expected]]
    BY <2>1
  <2>2. version[v] \in Nat /\ expected \in Nat \ {0} /\ expected <= version[v]
    BY <2>0 DEF IInv, TypeOK
  <2>3. CASE \E to \in Statuses \cup {NoChange} :
               request' = [request EXCEPT ![c] =
                 [op |-> "update", step |-> "sent", v |-> v,
                  to |-> to, expected |-> expected]]
    <3>1. PICK to \in Statuses \cup {NoChange} :
            request' = [request EXCEPT ![c] =
              [op |-> "update", step |-> "sent", v |-> v,
               to |-> to, expected |-> expected]]
      BY <2>3
    <3> DEFINE q == [op |-> "update", step |-> "sent", v |-> v,
                     to |-> to, expected |-> expected]
    <3>2. q \in Sent /\ q.expected <= version[q.v] /\ q.step = "sent"
      BY <2>2 DEF Sent
    <3>3. request' = [request EXCEPT ![c] = q]
      BY <3>1
    <3> HIDE DEF q
    <3> QED
      BY <3>2, <3>3
  <2>4. CASE request' = [request EXCEPT ![c] =
               [op |-> "close", step |-> "sent", v |-> v,
                to |-> "CLOSED", expected |-> expected]]
    <3> DEFINE q == [op |-> "close", step |-> "sent", v |-> v,
                     to |-> "CLOSED", expected |-> expected]
    <3>2. q \in Sent /\ q.expected <= version[q.v] /\ q.step = "sent"
      BY <2>2 DEF Sent
    <3>3. request' = [request EXCEPT ![c] = q]
      BY <2>4
    <3> HIDE DEF q
    <3> QED
      BY <3>2, <3>3
  <2> QED
    BY <2>0, <2>3, <2>4
<1>2. UNCHANGED rowVars
  BY DEF Send
<1>3. TypeOK' /\ ClosedOnce'
  BY <1>1, <1>2 DEF IInv, TypeOK, ClosedOnce
<1>4. VersionsSeen'
  BY <1>1, <1>2 DEF IInv, TypeOK, VersionsSeen
<1>5. CheckedStillHolds'
  BY <1>1, <1>2 DEF IInv, TypeOK, CheckedStillHolds, Matches
<1> QED
  BY <1>3, <1>4, <1>5 DEF IInv

\* A check either answers the client or records that the checks passed on
\* the row as it is now.
LEMMA CheckIInv ==
  ASSUME IInv, NEW c \in Clients, CheckUpdate(c) \/ CheckClose(c)
  PROVE  IInv'
<1> USE DEF rowVars
<1>0. request[c] # Idle /\ UNCHANGED rowVars
  BY DEF CheckUpdate, CheckClose, Waiting, Idle
<1>1. CASE Reply(c)
  <2>1. TypeOK' /\ ClosedOnce' /\ VersionsSeen'
    BY <1>0, <1>1 DEF Reply, IInv, TypeOK, ClosedOnce, VersionsSeen
  <2>2. CheckedStillHolds'
    BY <1>0, <1>1 DEF Reply, IInv, TypeOK, CheckedStillHolds, Matches
  <2> QED
    BY <2>1, <2>2 DEF IInv
<1>2. CASE Passes(c) /\ ~ Reply(c)
  <2>1. [request[c] EXCEPT !.step = "checked"] \in Sent
    BY <1>0, RequestShape DEF IInv, Sent
  <2>2. TypeOK' /\ ClosedOnce'
    BY <1>0, <1>2, <2>1 DEF Passes, IInv, TypeOK, ClosedOnce
  <2>3. VersionsSeen'
    BY <1>0, <1>2, RequestShape DEF Passes, IInv, TypeOK, VersionsSeen, Sent
  <2>4. /\ status[request[c].v] \notin Terminal
        /\ request[c].to # NoChange => <<status[request[c].v], request[c].to>> \in Edges
    BY <1>0, <1>2, RequestShape
       DEF CheckUpdate, CheckClose, Waiting, IInv, Terminal, Edges
  <2>5. CheckedStillHolds'
    <3> SUFFICES ASSUME NEW d \in Clients, request'[d] # Idle,
                        request'[d].step = "checked", Matches(d)'
                 PROVE  /\ status[request'[d].v] \notin Terminal
                        /\ request'[d].to # NoChange =>
                             <<status[request'[d].v], request'[d].to>> \in Edges
      BY <1>0 DEF CheckedStillHolds
    <3>1. CASE d = c
      BY <3>1, <1>0, <1>2, <2>4, RequestShape DEF Passes, IInv, TypeOK, Sent
    <3>2. CASE d # c
      BY <3>2, <1>0, <1>2 DEF Passes, IInv, TypeOK, CheckedStillHolds, Matches
    <3> QED
      BY <3>1, <3>2
  <2> QED
    BY <2>2, <2>3, <2>5 DEF IInv
<1> QED
  BY <1>1, <1>2 DEF CheckUpdate, CheckClose

\* When a commit finds its row, the version moves on: no other request that
\* passed its checks on the old row can match any more.
LEMMA CommitIInv ==
  ASSUME IInv, NEW c \in Clients, CommitUpdate(c) \/ CommitClose(c)
  PROVE  IInv'
<1> DEFINE v == request[c].v
<1>0. /\ request[c] # Idle
      /\ v \in Violations
      /\ request' = [request EXCEPT ![c] = Idle]
      /\ version[v] \in Nat \ {0}
  BY RequestShape DEF CommitUpdate, CommitClose, Waiting, Reply, Idle, IInv, TypeOK
<1>1. CASE ~ Matches(c)
  <2>1. UNCHANGED rowVars
    BY <1>1 DEF CommitUpdate, CommitClose, rowVars
  <2> QED
    BY <1>0, <2>1 DEF rowVars, IInv, TypeOK, VersionsSeen, CheckedStillHolds,
       ClosedOnce, Matches
<1>2. CASE Matches(c)
  <2>1. version' = [version EXCEPT ![v] = @ + 1]
    BY <1>2 DEF CommitUpdate, CommitClose, Bump
  <2>2. \A w \in Violations \ {v} : status'[w] = status[w]
    BY <1>2 DEF CommitUpdate, CommitClose, IInv, TypeOK
  <2>3. /\ status[v] \notin Terminal
        /\ request[c].to # NoChange => <<status[v], request[c].to>> \in Edges
    BY <1>0, <1>2 DEF CommitUpdate, CommitClose, Waiting, IInv, CheckedStillHolds
  <2>4. TypeOK'
    <3>1. request' \in [Clients -> Sent \cup {Idle}]
      BY <1>0 DEF IInv, TypeOK
    <3>2. version' \in [Violations -> Nat \ {0}]
      BY <1>0, <2>1 DEF IInv, TypeOK
    <3>3. CASE CommitUpdate(c)
      <4>1. request[c].to # NoChange => request[c].to \in Statuses
        BY <1>0, RequestShape DEF IInv
      <4>2. status' \in [Violations -> Statuses]
        BY <1>0, <1>2, <3>3, <4>1 DEF CommitUpdate, IInv, TypeOK
      <4> QED
        BY <3>1, <3>2, <3>3, <4>2 DEF CommitUpdate, IInv, TypeOK
    <3>4. CASE CommitClose(c)
      <4>1. status' \in [Violations -> Statuses]
        BY <1>0, <1>2, <3>4 DEF CommitClose, IInv, TypeOK, Statuses
      <4>2. /\ closedAt' \subseteq Violations
            /\ closeEvents' \in [Violations -> Nat]
        BY <1>0, <1>2, <3>4 DEF CommitClose, IInv, TypeOK
      <4> QED
        BY <3>1, <3>2, <4>1, <4>2 DEF TypeOK
    <3> QED
      BY <3>3, <3>4
  <2>5. VersionsSeen'
    BY <1>0, <2>1, RequestShape DEF IInv, TypeOK, VersionsSeen
  <2>6. CheckedStillHolds'
    <3> SUFFICES ASSUME NEW d \in Clients, request'[d] # Idle,
                        request'[d].step = "checked", Matches(d)'
                 PROVE  /\ status'[request'[d].v] \notin Terminal
                        /\ request'[d].to # NoChange =>
                             <<status'[request'[d].v], request'[d].to>> \in Edges
      BY DEF CheckedStillHolds
    <3>1. d # c /\ request'[d] = request[d]
      BY <1>0 DEF IInv, TypeOK
    <3>2. request[d].v \in Violations /\ request[d].expected <= version[request[d].v]
      BY <3>1, RequestShape DEF IInv, VersionsSeen
    <3>3. request[d].v # v
      BY <3>1, <3>2, <2>1, <1>0, RequestShape DEF Matches, IInv, TypeOK
    <3>4. Matches(d)
      BY <3>1, <3>2, <3>3, <2>1, <1>0 DEF Matches, IInv, TypeOK
    <3> QED
      BY <3>1, <3>2, <3>3, <3>4, <2>2 DEF IInv, CheckedStillHolds
  <2>7. ClosedOnce'
    <3>1. v \notin closedAt /\ closeEvents[v] = 0
      BY <1>0, <2>3 DEF IInv, TypeOK, ClosedOnce, Terminal
    <3>2. CASE CommitUpdate(c)
      BY <3>1, <3>2, <2>2, <1>0 DEF CommitUpdate, IInv, TypeOK, ClosedOnce
    <3>3. CASE CommitClose(c)
      BY <3>1, <3>3, <1>0, <1>2 DEF CommitClose, IInv, TypeOK, ClosedOnce
    <3> QED
      BY <3>2, <3>3
  <2> QED
    BY <2>4, <2>5, <2>6, <2>7 DEF IInv
<1> QED
  BY <1>1, <1>2

LEMMA NextIInv == Ahead = 0 /\ IInv /\ [Next]_vars => IInv'
<1> SUFFICES ASSUME Ahead = 0, IInv, [Next]_vars PROVE IInv'
  OBVIOUS
<1>1. CASE UNCHANGED vars
  BY <1>1 DEF vars, IInv, TypeOK, VersionsSeen, CheckedStillHolds, ClosedOnce, Matches
<1> QED
  BY <1>1, SendIInv, CheckIInv, CommitIInv DEF Next

LEMMA Invariance == Ahead = 0 /\ Spec => []IInv
<1>1. CASE Ahead = 0
  BY <1>1, InitIInv, NextIInv, PTL DEF Spec
<1>2. CASE Ahead # 0
  BY <1>2
<1> QED
  BY <1>1, <1>2

\* Columns and requests stay in their types.
THEOREM TypeCorrect == Ahead = 0 /\ Spec => []TypeOK
BY Invariance, PTL DEF IInv

\* The checks made on the row that was read hold of the row that is written.
THEOREM CheckedStillHoldsAlways == Ahead = 0 /\ Spec => []CheckedStillHolds
BY Invariance, PTL DEF IInv

\* Of any number of concurrent close requests at most one succeeds.
THEOREM ClosedOnceAlways == Ahead = 0 /\ Spec => []ClosedOnce
BY Invariance, PTL DEF IInv

\* What a committed request does to a row, in terms of the row as it is.
LEMMA CommitEffect ==
  ASSUME IInv, NEW c \in Clients, CommitUpdate(c) \/ CommitClose(c), Matches(c)
  PROVE  /\ request[c].v \in Violations
         /\ status[request[c].v] \notin Terminal
         /\ version' = [version EXCEPT ![request[c].v] = @ + 1]
         /\ \/ status' = status
            \/ /\ <<status[request[c].v], request[c].to>> \in Edges
               /\ status' = [status EXCEPT ![request[c].v] = request[c].to]
<1> DEFINE v == request[c].v
<1>1. request[c] # Idle /\ v \in Violations
  BY RequestShape DEF CommitUpdate, CommitClose, Waiting, Idle, IInv
<1>2. /\ status[v] \notin Terminal
      /\ request[c].to # NoChange => <<status[v], request[c].to>> \in Edges
  BY <1>1 DEF CommitUpdate, CommitClose, Waiting, IInv, CheckedStillHolds
<1>3. version' = [version EXCEPT ![v] = @ + 1]
  BY DEF CommitUpdate, CommitClose, Bump
<1>4. CASE CommitUpdate(c)
  BY <1>1, <1>2, <1>3, <1>4 DEF CommitUpdate
<1>5. CASE CommitClose(c)
  <2>1. request[c].to = "CLOSED" /\ request[c].to # NoChange
    BY <1>1, <1>5, RequestShape DEF CommitClose, Waiting, IInv, NoChange
  <2> QED
    BY <1>1, <1>2, <1>3, <1>5, <2>1 DEF CommitClose
<1> QED
  BY <1>4, <1>5

LEMMA OtherStepsKeepRows ==
  ASSUME Next
  PROVE  \/ UNCHANGED <<status, version>>
         \/ \E c \in Clients : (CommitUpdate(c) \/ CommitClose(c)) /\ Matches(c)
BY DEF Next, Send, CheckUpdate, CheckClose, CommitUpdate, CommitClose, rowVars

LEMMA TerminalStep ==
  ASSUME IInv, Next
  PROVE  \A v \in Violations : status[v] \in Terminal => version'[v] = version[v]
<1>1. ASSUME NEW c \in Clients, CommitUpdate(c) \/ CommitClose(c), Matches(c)
      PROVE  \A v \in Violations : status[v] \in Terminal => version'[v] = version[v]
  BY <1>1, CommitEffect DEF IInv, TypeOK
<1> QED
  BY <1>1, OtherStepsKeepRows

LEMMA LifecycleStep ==
  ASSUME IInv, Next
  PROVE  [Machine!Next]_status
<1> USE DEF Machine!Next, Machine!Move
<1>1. ASSUME NEW c \in Clients, CommitUpdate(c) \/ CommitClose(c), Matches(c)
      PROVE  [Machine!Next]_status
  <2>1. CASE status' = status
    BY <2>1
  <2>2. CASE /\ <<status[request[c].v], request[c].to>> \in Edges
             /\ status' = [status EXCEPT ![request[c].v] = request[c].to]
    <3>1. request[c].v \in Violations
      BY <1>1, CommitEffect, Zenon
    <3>2. /\ <<status[request[c].v], request[c].to>>[1] = status[request[c].v]
          /\ <<status[request[c].v], request[c].to>>[2] = request[c].to
      OBVIOUS
    <3>3. Machine!Move(request[c].v)
      BY <2>2, <3>2, Zenon
    <3> QED
      BY <3>1, <3>3, Zenon
  <2> QED
    BY <1>1, <2>1, <2>2, CommitEffect
<1> QED
  BY <1>1, OtherStepsKeepRows

\* "Terminal violations are immutable", for clients that send versions they
\* have seen.
THEOREM TerminalIsImmutableAlways == Ahead = 0 /\ Spec => TerminalIsImmutable
<1> DEFINE Immutable ==
      \A v \in Violations : status[v] \in Terminal => version'[v] = version[v]
<1>1. IInv /\ [Next]_vars => [Immutable]_vars
  BY TerminalStep
<1> QED
  BY <1>1, Invariance, PTL DEF Spec, TerminalIsImmutable

\* Reading, checking and writing in separate steps implements the atomic
\* state machine: the matching UPDATE is the step that moves the record.
THEOREM ViolationFollowsLifecycle == Ahead = 0 /\ Spec => FollowsLifecycle
<1>1. Init => Machine!Init
  BY DEF Init, Machine!Init
<1>2. IInv /\ [Next]_vars => [Machine!Next]_status
  BY LifecycleStep DEF vars
<1> QED
  BY <1>1, <1>2, Invariance, PTL DEF Spec, FollowsLifecycle, Machine!Spec

---------------------------------------------------------------------------
(* Remediation tasks                                                       *)

TaskVersionsSeen ==
  \A c \in Clients : taskRequest[c] # Task!Idle =>
    taskRequest[c].expected <= taskVersion[taskRequest[c].t]

\* The verifier's stamp is there from VERIFIED on, and never before.
StampedWhenVerified ==
  \A t \in Tasks :
    /\ verifiedBy[t] # Null => taskStatus[t] \in {"VERIFIED"} \cup Task!Terminal
    /\ taskStatus[t] = "VERIFIED" => verifiedBy[t] # Null

TaskInv ==
  /\ Task!TypeOK
  /\ TaskVersionsSeen
  /\ Task!CheckedStillHolds
  /\ StampedWhenVerified
  /\ Task!CompletedOnce
  /\ Task!AssigneeWasAnnounced

LEMMA TaskInitInv == Task!Init => TaskInv
<1> SUFFICES ASSUME Task!Init PROVE TaskInv
  OBVIOUS
<1> USE DEF Task!Init
<1>1. Task!TypeOK
  BY DEF Task!TypeOK, Task!Statuses, Task!Idle
<1>2. TaskVersionsSeen /\ Task!CheckedStillHolds
  BY DEF TaskVersionsSeen, Task!CheckedStillHolds, Task!Idle
<1>3. StampedWhenVerified /\ Task!CompletedOnce /\ Task!AssigneeWasAnnounced
  BY DEF StampedWhenVerified, Task!CompletedOnce, Task!AssigneeWasAnnounced
<1> QED
  BY <1>1, <1>2, <1>3 DEF TaskInv

LEMMA TaskShape ==
  ASSUME Task!TypeOK, NEW c \in Clients, taskRequest[c] # Task!Idle
  PROVE  LET q == taskRequest[c] IN
         /\ q \in Task!Sent /\ q.t \in Tasks /\ q.expected \in Nat
         /\ q.op \in {"update", "close"} /\ q.step \in {"sent", "checked"}
         /\ q.op = "update" => /\ q.to \in Task!Statuses \cup {Task!NoChange}
                               /\ q.assign \in Users \cup {Null, Task!NoChange}
BY DEF Task!TypeOK, Task!Sent

\* What the checks of a request establish of the row as it is.
RowAllows(q) ==
  /\ q.op = "close" => taskStatus[q.t] = "VERIFIED"
  /\ q.op = "update" =>
       /\ taskStatus[q.t] \notin Task!Terminal
       /\ q.to # Task!NoChange => <<taskStatus[q.t], q.to>> \in Task!Edges
       /\ q.read = assignedTo[q.t]

\* A step that writes no column has to answer for one request only.
LEMMA TaskRequestMoves ==
  ASSUME TaskInv, UNCHANGED <<Task!rowVars, Task!outboxVars>>,
         NEW c \in Clients, NEW q \in Task!Sent \cup {Task!Idle},
         taskRequest' = [taskRequest EXCEPT ![c] = q],
         q # Task!Idle => q.expected <= taskVersion[q.t],
         q # Task!Idle /\ q.step = "checked" => RowAllows(q)
  PROVE  TaskInv'
<1> USE DEF Task!rowVars, Task!outboxVars
<1>1. Task!TypeOK'
  BY DEF TaskInv, Task!TypeOK
<1>2. TaskVersionsSeen'
  BY DEF TaskInv, Task!TypeOK, TaskVersionsSeen
<1>3. Task!CheckedStillHolds'
  <2> SUFFICES ASSUME NEW d \in Clients, taskRequest'[d] # Task!Idle,
                      taskRequest'[d].step = "checked", Task!Matches(d)'
               PROVE  LET r == taskRequest'[d] IN
                      CASE r.op = "close" -> taskStatus'[r.t] = "VERIFIED"
                        [] r.op = "update" ->
                             /\ taskStatus'[r.t] \notin Task!Terminal
                             /\ r.to # Task!NoChange => <<taskStatus'[r.t], r.to>> \in Task!Edges
                             /\ r.read = assignedTo'[r.t]
    BY DEF Task!CheckedStillHolds
  <2>0. UNCHANGED <<taskStatus, assignedTo, taskVersion>>
    OBVIOUS
  <2>1. CASE d = c
    <3>1. taskRequest'[d] = q
      BY <2>1 DEF TaskInv, Task!TypeOK
    <3>2. q \in Task!Sent /\ RowAllows(q)
      BY <3>1
    <3>3. q.op \in {"close", "update"}
      BY <3>2 DEF Task!Sent
    <3>4. CASE q.op = "close"
      BY <2>0, <3>1, <3>2, <3>4 DEF RowAllows
    <3>5. CASE q.op = "update"
      BY <2>0, <3>1, <3>2, <3>5 DEF RowAllows
    <3> QED
      BY <3>3, <3>4, <3>5
  <2>2. CASE d # c
    <3>1. taskRequest'[d] = taskRequest[d]
      BY <2>2 DEF TaskInv, Task!TypeOK
    <3>2. Task!Matches(d) /\ Task!CheckedStillHolds
      BY <2>0, <3>1 DEF Task!Matches, TaskInv
    <3> QED
      BY <2>0, <3>1, <3>2 DEF Task!CheckedStillHolds
  <2> QED
    BY <2>1, <2>2
<1>4. StampedWhenVerified' /\ Task!CompletedOnce' /\ Task!AssigneeWasAnnounced'
  BY DEF TaskInv, StampedWhenVerified, Task!CompletedOnce, Task!AssigneeWasAnnounced
<1> QED
  BY <1>1, <1>2, <1>3, <1>4 DEF TaskInv

LEMMA TaskReplyInv ==
  ASSUME TaskInv, UNCHANGED <<Task!rowVars, Task!outboxVars>>, NEW c \in Clients, Task!Reply(c)
  PROVE  TaskInv'
<1>1. taskRequest' = [taskRequest EXCEPT ![c] = Task!Idle]
  BY DEF Task!Reply
<1>2. Task!Idle \in Task!Sent \cup {Task!Idle}
  OBVIOUS
<1> QED
  BY <1>1, <1>2, TaskRequestMoves

LEMMA TaskSendInv ==
  ASSUME TaskInv, NEW c \in Clients, Task!SendUpdate(c) \/ Task!SendClose(c)
  PROVE  TaskInv'
<1>1. CASE Task!SendUpdate(c)
  <2>1. PICK t \in Tasks, to \in Task!Statuses \cup {Task!NoChange},
             assign \in Users \cup {Null, Task!NoChange} :
          \E expected \in 1 .. taskVersion[t] :
            taskRequest' = [taskRequest EXCEPT ![c] =
              [op |-> "update", step |-> "sent", t |-> t, to |-> to,
               assign |-> assign, expected |-> expected, read |-> Null]]
    BY <1>1 DEF Task!SendUpdate
  <2>2. PICK expected \in 1 .. taskVersion[t] :
          taskRequest' = [taskRequest EXCEPT ![c] =
            [op |-> "update", step |-> "sent", t |-> t, to |-> to,
             assign |-> assign, expected |-> expected, read |-> Null]]
    BY <2>1
  <2> DEFINE q == [op |-> "update", step |-> "sent", t |-> t, to |-> to,
                   assign |-> assign, expected |-> expected, read |-> Null]
  <2>3. expected \in Nat \ {0} /\ expected <= taskVersion[t]
    BY DEF TaskInv, Task!TypeOK
  <2>4. q \in Task!Sent /\ q.step = "sent" /\ q.expected <= taskVersion[q.t]
    BY <2>3 DEF Task!Sent
  <2>5. taskRequest' = [taskRequest EXCEPT ![c] = q]
    BY <2>2
  <2>6. UNCHANGED <<Task!rowVars, Task!outboxVars>>
    BY <1>1 DEF Task!SendUpdate
  <2> HIDE DEF q
  <2>7. q \in Task!Sent \cup {Task!Idle} /\ q.step # "checked" /\ q.expected <= taskVersion[q.t]
    BY <2>4
  <2> QED
    BY <2>5, <2>6, <2>7, TaskRequestMoves
<1>2. CASE Task!SendClose(c)
  <2>1. PICK t \in Tasks : \E expected \in 1 .. taskVersion[t] :
          taskRequest' = [taskRequest EXCEPT ![c] =
            [op |-> "close", step |-> "sent", t |-> t, expected |-> expected]]
    BY <1>2 DEF Task!SendClose
  <2>2. PICK expected \in 1 .. taskVersion[t] :
          taskRequest' = [taskRequest EXCEPT ![c] =
            [op |-> "close", step |-> "sent", t |-> t, expected |-> expected]]
    BY <2>1
  <2> DEFINE q == [op |-> "close", step |-> "sent", t |-> t, expected |-> expected]
  <2>3. expected \in Nat \ {0} /\ expected <= taskVersion[t]
    BY DEF TaskInv, Task!TypeOK
  <2>4. q \in Task!Sent /\ q.step = "sent" /\ q.expected <= taskVersion[q.t]
    BY <2>3 DEF Task!Sent
  <2>5. taskRequest' = [taskRequest EXCEPT ![c] = q]
    BY <2>2
  <2>6. UNCHANGED <<Task!rowVars, Task!outboxVars>>
    BY <1>2 DEF Task!SendClose
  <2> HIDE DEF q
  <2>7. q \in Task!Sent \cup {Task!Idle} /\ q.step # "checked" /\ q.expected <= taskVersion[q.t]
    BY <2>4
  <2> QED
    BY <2>5, <2>6, <2>7, TaskRequestMoves
<1> QED
  BY <1>1, <1>2

\* A check either answers the client or records what it read of the row.
LEMMA TaskCheckInv ==
  ASSUME TaskInv, NEW c \in Clients, Task!CheckUpdate(c) \/ Task!CheckClose(c)
  PROVE  TaskInv'
<1> DEFINE q == taskRequest[c]
<1>0. q # Task!Idle /\ UNCHANGED <<Task!rowVars, Task!outboxVars>>
  BY DEF Task!CheckUpdate, Task!CheckClose, Task!Waiting, Task!Idle
<1>1. CASE Task!Reply(c)
  BY <1>0, <1>1, TaskReplyInv
<1>2. CASE Task!CheckUpdate(c) /\ ~ Task!Reply(c)
  <2> DEFINE next == [q EXCEPT !.step = "checked", !.read = assignedTo[q.t]]
  <2>1. /\ taskStatus[q.t] \notin Task!Terminal
        /\ q.to = Task!NoChange \/ <<taskStatus[q.t], q.to>> \in Task!Edges
        /\ q.op = "update"
        /\ taskRequest' = [taskRequest EXCEPT ![c].step = "checked",
                                              ![c].read = assignedTo[q.t]]
    BY <1>2 DEF Task!CheckUpdate, Task!Waiting
  <2>2. taskRequest' = [taskRequest EXCEPT ![c] = next]
    BY <2>1 DEF TaskInv, Task!TypeOK
  <2>3. /\ next \in Task!Sent /\ next.step = "checked" /\ next.op = "update"
        /\ next.t = q.t /\ next.to = q.to /\ next.expected = q.expected
        /\ next.read = assignedTo[q.t]
    <3>1. q \in Task!Sent /\ q.t \in Tasks /\ assignedTo[q.t] \in Users \cup {Null}
      BY <1>0, TaskShape DEF TaskInv, Task!TypeOK
    <3> HIDE DEF q
    <3> QED
      BY <2>1, <3>1 DEF Task!Sent
  <2>4. q.expected <= taskVersion[q.t]
    BY <1>0 DEF TaskInv, TaskVersionsSeen
  <2> HIDE DEF next, q
  <2>5. next.expected <= taskVersion[next.t] /\ RowAllows(next)
    BY <2>1, <2>3, <2>4 DEF RowAllows
  <2>6. UNCHANGED <<Task!rowVars, Task!outboxVars>> /\ next \in Task!Sent \cup {Task!Idle}
    BY <1>0, <2>3
  <2> QED
    BY <2>2, <2>5, <2>6, TaskRequestMoves
<1>3. CASE Task!CheckClose(c) /\ ~ Task!Reply(c)
  <2> DEFINE next == [q EXCEPT !.step = "checked"]
  <2>1. /\ taskStatus[q.t] = "VERIFIED" /\ q.op = "close"
        /\ taskRequest' = [taskRequest EXCEPT ![c].step = "checked"]
    BY <1>3 DEF Task!CheckClose, Task!Waiting
  <2>2. taskRequest' = [taskRequest EXCEPT ![c] = next]
    BY <2>1 DEF TaskInv, Task!TypeOK
  <2>3. /\ next \in Task!Sent /\ next.step = "checked" /\ next.op = "close"
        /\ next.t = q.t /\ next.expected = q.expected
    BY <1>0, <2>1, TaskShape DEF TaskInv, Task!Sent
  <2>4. q.expected <= taskVersion[q.t]
    BY <1>0 DEF TaskInv, TaskVersionsSeen
  <2> HIDE DEF next, q
  <2>5. next.expected <= taskVersion[next.t] /\ RowAllows(next)
    BY <2>1, <2>3, <2>4 DEF RowAllows
  <2>6. UNCHANGED <<Task!rowVars, Task!outboxVars>> /\ next \in Task!Sent \cup {Task!Idle}
    BY <1>0, <2>3
  <2> QED
    BY <2>2, <2>5, <2>6, TaskRequestMoves
<1> QED
  BY <1>1, <1>2, <1>3

\* When a commit finds its row, no other request that passed its checks on
\* the old row can match any more.
LEMMA TaskCommitOthers ==
  ASSUME TaskInv, NEW c \in Clients, NEW t \in Tasks, Task!Reply(c), Task!Bump(t),
         \A w \in Tasks \ {t} : taskStatus'[w] = taskStatus[w] /\ assignedTo'[w] = assignedTo[w]
  PROVE  /\ taskVersion' \in [Tasks -> Nat \ {0}]
         /\ taskRequest' \in [Clients -> Task!Sent \cup {Task!Idle}]
         /\ TaskVersionsSeen' /\ Task!CheckedStillHolds'
<1>0. /\ taskRequest' = [taskRequest EXCEPT ![c] = Task!Idle]
      /\ taskVersion' = [taskVersion EXCEPT ![t] = taskVersion[t] + 1]
      /\ taskVersion[t] \in Nat \ {0}
  BY DEF Task!Reply, Task!Bump, TaskInv, Task!TypeOK
<1>1. taskVersion' \in [Tasks -> Nat \ {0}]
  BY <1>0 DEF TaskInv, Task!TypeOK
<1>2. taskRequest' \in [Clients -> Task!Sent \cup {Task!Idle}]
  BY <1>0 DEF TaskInv, Task!TypeOK
<1>3. TaskVersionsSeen'
  BY <1>0, TaskShape DEF TaskInv, Task!TypeOK, TaskVersionsSeen
<1>4. ASSUME NEW d \in Clients, taskRequest'[d] # Task!Idle, Task!Matches(d)'
      PROVE  /\ taskRequest'[d] = taskRequest[d] /\ taskRequest[d].t \in Tasks \ {t}
             /\ Task!Matches(d)
  <2>1. d # c /\ taskRequest'[d] = taskRequest[d]
    BY <1>0, <1>4 DEF TaskInv, Task!TypeOK
  <2>2. taskRequest[d].t \in Tasks /\ taskRequest[d].expected <= taskVersion[taskRequest[d].t]
    BY <1>4, <2>1, TaskShape DEF TaskInv, TaskVersionsSeen
  <2>3. taskRequest[d].t # t
    BY <1>0, <1>4, <2>1, <2>2, TaskShape DEF Task!Matches, TaskInv, Task!TypeOK
  <2> QED
    BY <1>0, <1>4, <2>1, <2>2, <2>3 DEF Task!Matches, TaskInv, Task!TypeOK
<1>5. Task!CheckedStillHolds'
  <2> SUFFICES ASSUME NEW d \in Clients, taskRequest'[d] # Task!Idle,
                      taskRequest'[d].step = "checked", Task!Matches(d)'
               PROVE  LET q == taskRequest'[d] IN
                      CASE q.op = "close" -> taskStatus'[q.t] = "VERIFIED"
                        [] q.op = "update" ->
                             /\ taskStatus'[q.t] \notin Task!Terminal
                             /\ q.to # Task!NoChange => <<taskStatus'[q.t], q.to>> \in Task!Edges
                             /\ q.read = assignedTo'[q.t]
    BY DEF Task!CheckedStillHolds
  <2>1. /\ taskRequest'[d] = taskRequest[d] /\ taskRequest[d].t \in Tasks \ {t}
        /\ Task!Matches(d)
    BY <1>4
  <2>2. taskRequest[d].op \in {"update", "close"}
    BY <2>1, TaskShape DEF TaskInv
  <2>3. CASE taskRequest[d].op = "close"
    BY <2>1, <2>3 DEF TaskInv, Task!CheckedStillHolds
  <2>4. CASE taskRequest[d].op = "update"
    <3>1. /\ taskStatus[taskRequest[d].t] \notin Task!Terminal
          /\ taskRequest[d].to # Task!NoChange =>
               <<taskStatus[taskRequest[d].t], taskRequest[d].to>> \in Task!Edges
          /\ taskRequest[d].read = assignedTo[taskRequest[d].t]
      BY <2>1, <2>4 DEF TaskInv, Task!CheckedStillHolds
    <3>2. taskStatus'[taskRequest[d].t] = taskStatus[taskRequest[d].t]
          /\ assignedTo'[taskRequest[d].t] = assignedTo[taskRequest[d].t]
      BY <2>1
    <3> QED
      BY <2>1, <2>4, <3>1, <3>2
  <2> QED
    BY <2>2, <2>3, <2>4
<1> QED
  BY <1>1, <1>2, <1>3, <1>5

LEMMA TaskMissesInv ==
  ASSUME TaskInv, NEW c \in Clients, Task!CommitUpdate(c) \/ Task!CommitClose(c), ~ Task!Matches(c)
  PROVE  TaskInv'
<1>1. Task!Reply(c)
  BY DEF Task!CommitUpdate, Task!CommitClose
<1>2. CASE Task!CommitUpdate(c)
  <2>1. UNCHANGED <<Task!rowVars, Task!outboxVars>>
    BY <1>2 DEF Task!CommitUpdate, Task!rowVars, Task!outboxVars
  <2> QED
    BY <1>1, <2>1, TaskReplyInv, Zenon
<1>3. CASE Task!CommitClose(c)
  <2>1. UNCHANGED <<taskVersion, taskStatus, taskClosedAt, completedEvents>>
    BY <1>3 DEF Task!CommitClose
  <2>2. UNCHANGED <<assignedTo, verifiedBy, announcedTo>>
    BY <1>3 DEF Task!CommitClose
  <2>3. UNCHANGED <<Task!rowVars, Task!outboxVars>>
    BY <2>1, <2>2 DEF Task!rowVars, Task!outboxVars
  <2> QED
    BY <1>1, <2>3, TaskReplyInv, Zenon
<1> QED
  BY <1>2, <1>3

\* What a PATCH that finds its row writes, in terms of the row as it is.
LEMMA TaskUpdateEffect ==
  ASSUME TaskInv, NEW c \in Clients, Task!CommitUpdate(c), Task!Matches(c)
  PROVE  LET q == taskRequest[c]
             t == q.t
         IN
         /\ t \in Tasks /\ taskStatus[t] \notin Task!Terminal
         /\ Task!Bump(t) /\ Task!Reply(c)
         /\ \/ taskStatus'[t] = taskStatus[t] /\ verifiedBy'[t] = verifiedBy[t]
            \/ /\ <<taskStatus[t], taskStatus'[t]>> \in Task!Edges
               /\ taskStatus'[t] \in Task!Statuses
               /\ verifiedBy'[t] = IF taskStatus'[t] = "VERIFIED" THEN c ELSE verifiedBy[t]
         /\ assignedTo'[t] \in Users \cup {Null}
         /\ announcedTo'[t] \in Users \cup {Null}
         /\ \/ assignedTo'[t] = assignedTo[t] /\ announcedTo'[t] = announcedTo[t]
            \/ assignedTo'[t] \in {Null, announcedTo'[t]}
         /\ taskStatus' \in [Tasks -> Task!Statuses]
         /\ assignedTo' \in [Tasks -> Users \cup {Null}]
         /\ verifiedBy' \in [Tasks -> Clients \cup {Null}]
         /\ announcedTo' \in [Tasks -> Users \cup {Null}]
         /\ \A w \in Tasks \ {t} :
              /\ taskStatus'[w] = taskStatus[w] /\ assignedTo'[w] = assignedTo[w]
              /\ verifiedBy'[w] = verifiedBy[w] /\ announcedTo'[w] = announcedTo[w]
<1> DEFINE q == taskRequest[c]
           t == q.t
<1>0. q # Task!Idle /\ q.op = "update" /\ q.step = "checked"
  BY DEF Task!CommitUpdate, Task!Waiting, Task!Idle
<1>1. /\ t \in Tasks
      /\ q.to \in Task!Statuses \cup {Task!NoChange}
      /\ q.assign \in Users \cup {Null, Task!NoChange}
  BY <1>0, TaskShape DEF TaskInv
<1>2. /\ taskStatus[t] \notin Task!Terminal
      /\ q.to # Task!NoChange => <<taskStatus[t], q.to>> \in Task!Edges
      /\ q.read = assignedTo[t]
  BY <1>0 DEF TaskInv, Task!CheckedStillHolds
<1>3. /\ taskStatus' = [taskStatus EXCEPT ![t] = IF q.to = Task!NoChange THEN @ ELSE q.to]
      /\ assignedTo' = [assignedTo EXCEPT ![t] = IF q.assign = Task!NoChange THEN @ ELSE q.assign]
      /\ verifiedBy' = [verifiedBy EXCEPT ![t] = IF q.to = "VERIFIED" THEN c ELSE @]
      /\ announcedTo' = IF q.assign \notin {Task!NoChange, Null, q.read}
                        THEN [announcedTo EXCEPT ![t] = q.assign] ELSE announcedTo
      /\ Task!Bump(t) /\ Task!Reply(c)
  BY DEF Task!CommitUpdate, Task!SetFields, Task!Announce
<1> HIDE DEF q, t
<1>4. /\ taskStatus'[t] = IF q.to = Task!NoChange THEN taskStatus[t] ELSE q.to
      /\ verifiedBy'[t] = IF q.to = "VERIFIED" THEN c ELSE verifiedBy[t]
      /\ Task!NoChange # "VERIFIED"
  BY <1>1, <1>3 DEF TaskInv, Task!TypeOK, Task!NoChange
<1>5. /\ assignedTo'[t] = IF q.assign = Task!NoChange THEN assignedTo[t] ELSE q.assign
      /\ announcedTo'[t] = IF q.assign \notin {Task!NoChange, Null, q.read}
                           THEN q.assign ELSE announcedTo[t]
  BY <1>1, <1>3 DEF TaskInv, Task!TypeOK
<1>6. /\ taskStatus' \in [Tasks -> Task!Statuses]
      /\ assignedTo' \in [Tasks -> Users \cup {Null}]
      /\ verifiedBy' \in [Tasks -> Clients \cup {Null}]
      /\ announcedTo' \in [Tasks -> Users \cup {Null}]
  BY <1>1, <1>3 DEF TaskInv, Task!TypeOK
<1>7. \A w \in Tasks \ {t} :
        /\ taskStatus'[w] = taskStatus[w] /\ assignedTo'[w] = assignedTo[w]
        /\ verifiedBy'[w] = verifiedBy[w] /\ announcedTo'[w] = announcedTo[w]
  BY <1>1, <1>3 DEF TaskInv, Task!TypeOK
<1>8. \/ taskStatus'[t] = taskStatus[t] /\ verifiedBy'[t] = verifiedBy[t]
      \/ /\ <<taskStatus[t], taskStatus'[t]>> \in Task!Edges
         /\ taskStatus'[t] \in Task!Statuses
         /\ verifiedBy'[t] = IF taskStatus'[t] = "VERIFIED" THEN c ELSE verifiedBy[t]
  BY <1>1, <1>2, <1>4
<1>9. \/ assignedTo'[t] = assignedTo[t] /\ announcedTo'[t] = announcedTo[t]
      \/ assignedTo'[t] \in {Null, announcedTo'[t]}
  BY <1>2, <1>5
<1>10. assignedTo'[t] \in Users \cup {Null} /\ announcedTo'[t] \in Users \cup {Null}
  BY <1>1, <1>6
<1> QED
  BY <1>1, <1>2, <1>3, <1>6, <1>7, <1>8, <1>9, <1>10 DEF q, t

LEMMA TaskUpdateInv ==
  ASSUME TaskInv, NEW c \in Clients, Task!CommitUpdate(c), Task!Matches(c)
  PROVE  TaskInv'
<1> DEFINE t == taskRequest[c].t
<1>0. UNCHANGED <<taskClosedAt, completedEvents>>
  BY DEF Task!CommitUpdate
<1>1. /\ t \in Tasks /\ taskStatus[t] \notin Task!Terminal
      /\ Task!Bump(t) /\ Task!Reply(c)
      /\ \/ taskStatus'[t] = taskStatus[t] /\ verifiedBy'[t] = verifiedBy[t]
         \/ /\ <<taskStatus[t], taskStatus'[t]>> \in Task!Edges
            /\ verifiedBy'[t] = IF taskStatus'[t] = "VERIFIED" THEN c ELSE verifiedBy[t]
      /\ \/ assignedTo'[t] = assignedTo[t] /\ announcedTo'[t] = announcedTo[t]
         \/ assignedTo'[t] \in {Null, announcedTo'[t]}
      /\ taskStatus' \in [Tasks -> Task!Statuses]
      /\ assignedTo' \in [Tasks -> Users \cup {Null}]
      /\ verifiedBy' \in [Tasks -> Clients \cup {Null}]
      /\ announcedTo' \in [Tasks -> Users \cup {Null}]
      /\ \A w \in Tasks \ {t} :
           /\ taskStatus'[w] = taskStatus[w] /\ assignedTo'[w] = assignedTo[w]
           /\ verifiedBy'[w] = verifiedBy[w] /\ announcedTo'[w] = announcedTo[w]
  BY TaskUpdateEffect
<1> HIDE DEF t
<1>2. /\ taskVersion' \in [Tasks -> Nat \ {0}]
      /\ taskRequest' \in [Clients -> Task!Sent \cup {Task!Idle}]
      /\ TaskVersionsSeen' /\ Task!CheckedStillHolds'
  BY <1>1, TaskCommitOthers
<1>3. Task!TypeOK'
  BY <1>0, <1>1, <1>2 DEF TaskInv, Task!TypeOK
<1>4. t \notin taskClosedAt
  BY <1>1 DEF TaskInv, Task!CompletedOnce, Task!Terminal
<1>5. StampedWhenVerified'
  <2>1. /\ verifiedBy'[t] # Null => taskStatus'[t] \in {"VERIFIED"} \cup Task!Terminal
        /\ taskStatus'[t] = "VERIFIED" => verifiedBy'[t] # Null
    BY <1>1, RecordsAssumption
       DEF TaskInv, StampedWhenVerified, Task!Edges, Task!Terminal, Task!Statuses
  <2> QED
    BY <1>1, <2>1 DEF TaskInv, StampedWhenVerified
<1>6. Task!CompletedOnce'
  BY <1>0, <1>1, <1>4 DEF TaskInv, Task!CompletedOnce
<1>7. Task!AssigneeWasAnnounced'
  BY <1>1 DEF TaskInv, Task!AssigneeWasAnnounced
<1> QED
  BY <1>2, <1>3, <1>5, <1>6, <1>7 DEF TaskInv

LEMMA TaskCloseEffect ==
  ASSUME TaskInv, NEW c \in Clients, Task!CommitClose(c), Task!Matches(c)
  PROVE  LET t == taskRequest[c].t IN
         /\ t \in Tasks /\ taskStatus[t] = "VERIFIED"
         /\ Task!Bump(t) /\ Task!Reply(c)
         /\ taskStatus' = [taskStatus EXCEPT ![t] = "CLOSED"]
         /\ taskClosedAt' = taskClosedAt \cup {t}
         /\ completedEvents' = [completedEvents EXCEPT ![t] = completedEvents[t] + 1]
         /\ UNCHANGED <<assignedTo, verifiedBy, announcedTo>>
<1>1. taskRequest[c] # Task!Idle /\ taskRequest[c].op = "close" /\ taskRequest[c].step = "checked"
  BY DEF Task!CommitClose, Task!Waiting, Task!Idle
<1>2. taskRequest[c].t \in Tasks
  BY <1>1, TaskShape DEF TaskInv
<1>3. taskStatus[taskRequest[c].t] = "VERIFIED"
  BY <1>1 DEF TaskInv, Task!CheckedStillHolds
<1> QED
  BY <1>2, <1>3 DEF Task!CommitClose

LEMMA TaskCloseInv ==
  ASSUME TaskInv, NEW c \in Clients, Task!CommitClose(c), Task!Matches(c)
  PROVE  TaskInv'
<1> DEFINE t == taskRequest[c].t
<1>1. /\ t \in Tasks /\ taskStatus[t] = "VERIFIED"
      /\ Task!Bump(t) /\ Task!Reply(c)
      /\ taskStatus' = [taskStatus EXCEPT ![t] = "CLOSED"]
      /\ taskClosedAt' = taskClosedAt \cup {t}
      /\ completedEvents' = [completedEvents EXCEPT ![t] = completedEvents[t] + 1]
      /\ UNCHANGED <<assignedTo, verifiedBy, announcedTo>>
  BY TaskCloseEffect
<1> HIDE DEF t
<1>2. /\ taskVersion' \in [Tasks -> Nat \ {0}]
      /\ taskRequest' \in [Clients -> Task!Sent \cup {Task!Idle}]
      /\ TaskVersionsSeen' /\ Task!CheckedStillHolds'
  BY <1>1, TaskCommitOthers DEF TaskInv, Task!TypeOK
<1>3. Task!TypeOK'
  <2>1. taskStatus' \in [Tasks -> Task!Statuses] /\ taskClosedAt' \subseteq Tasks
    BY <1>1 DEF TaskInv, Task!TypeOK, Task!Statuses
  <2>2. completedEvents' \in [Tasks -> Nat]
    BY <1>1 DEF TaskInv, Task!TypeOK
  <2> QED
    BY <1>1, <1>2, <2>1, <2>2 DEF TaskInv, Task!TypeOK
<1>4. t \notin taskClosedAt /\ completedEvents[t] = 0 /\ verifiedBy[t] # Null
  BY <1>1 DEF TaskInv, Task!TypeOK, Task!CompletedOnce, StampedWhenVerified
<1>5. StampedWhenVerified'
  BY <1>1 DEF TaskInv, Task!TypeOK, StampedWhenVerified, Task!Terminal
<1>6. Task!CompletedOnce'
  BY <1>1, <1>4 DEF TaskInv, Task!TypeOK, Task!CompletedOnce
<1>7. Task!AssigneeWasAnnounced'
  BY <1>1 DEF TaskInv, Task!AssigneeWasAnnounced
<1> QED
  BY <1>2, <1>3, <1>5, <1>6, <1>7 DEF TaskInv

LEMMA TaskNextInv == TaskInv /\ Task!Next => TaskInv'
<1> SUFFICES ASSUME TaskInv, NEW c \in Clients,
                    \/ Task!SendUpdate(c) \/ Task!CheckUpdate(c) \/ Task!CommitUpdate(c)
                    \/ Task!SendClose(c) \/ Task!CheckClose(c) \/ Task!CommitClose(c)
             PROVE  TaskInv'
  BY DEF Task!Next
<1>1. CASE Task!CommitUpdate(c)
  BY <1>1, TaskMissesInv, TaskUpdateInv
<1>2. CASE Task!CommitClose(c)
  BY <1>2, TaskMissesInv, TaskCloseInv
<1> QED
  BY <1>1, <1>2, TaskSendInv, TaskCheckInv

\* A step moves one task along one edge, stamps a verifier once and keeps
\* what was completed.
LEMMA TaskRowStep ==
  ASSUME TaskInv, Task!Next
  PROVE  /\ [TaskMachine!Next]_taskStatus
         /\ \A t \in Tasks : verifiedBy[t] # Null => verifiedBy'[t] = verifiedBy[t]
<1> USE DEF TaskMachine!Next, TaskMachine!Move
<1>1. CASE UNCHANGED <<taskStatus, verifiedBy>>
  BY <1>1
<1>2. ASSUME NEW c \in Clients, Task!CommitUpdate(c), Task!Matches(c)
      PROVE  /\ [TaskMachine!Next]_taskStatus
             /\ \A t \in Tasks : verifiedBy[t] # Null => verifiedBy'[t] = verifiedBy[t]
  <2> DEFINE t == taskRequest[c].t
  <2>1. /\ t \in Tasks /\ taskStatus[t] \notin Task!Terminal
        /\ \/ taskStatus'[t] = taskStatus[t] /\ verifiedBy'[t] = verifiedBy[t]
           \/ /\ <<taskStatus[t], taskStatus'[t]>> \in Task!Edges
              /\ verifiedBy'[t] = IF taskStatus'[t] = "VERIFIED" THEN c ELSE verifiedBy[t]
        /\ taskStatus' \in [Tasks -> Task!Statuses]
        /\ \A w \in Tasks \ {t} :
             taskStatus'[w] = taskStatus[w] /\ verifiedBy'[w] = verifiedBy[w]
    BY <1>2, TaskUpdateEffect
  <2> HIDE DEF t
  <2>2. taskStatus' = [taskStatus EXCEPT ![t] = taskStatus'[t]]
    BY <2>1 DEF TaskInv, Task!TypeOK
  <2>3. CASE taskStatus'[t] = taskStatus[t]
    <3>1. taskStatus' = taskStatus
      BY <2>2, <2>3 DEF TaskInv, Task!TypeOK
    <3>2. verifiedBy'[t] # verifiedBy[t] => verifiedBy[t] = Null
      BY <2>1, <2>3 DEF Task!Edges
    <3> QED
      BY <2>1, <3>1, <3>2
  <2>4. CASE <<taskStatus[t], taskStatus'[t]>> \in Task!Edges
    <3>1. taskStatus'[t] = "VERIFIED" => verifiedBy[t] = Null
      BY <2>1, <2>4 DEF TaskInv, StampedWhenVerified, Task!Edges, Task!Terminal, Task!Statuses
    <3>2. TaskMachine!Move(t)
      BY <2>2, <2>4
    <3> QED
      BY <2>1, <3>1, <3>2
  <2> QED
    BY <2>1, <2>3, <2>4
<1>3. ASSUME NEW c \in Clients, Task!CommitClose(c), Task!Matches(c)
      PROVE  [TaskMachine!Next]_taskStatus /\ UNCHANGED verifiedBy
  <2>1. <<"VERIFIED", "CLOSED">> \in Task!Edges
    BY DEF Task!Edges
  <2> QED
    BY <1>3, <2>1, TaskCloseEffect
<1> QED
  BY <1>1, <1>2, <1>3 DEF Task!Next, Task!SendUpdate, Task!SendClose, Task!CheckUpdate,
     Task!CheckClose, Task!CommitUpdate, Task!CommitClose, Task!rowVars

---------------------------------------------------------------------------
(* Data subject requests                                                   *)

\* The three instances of Rights in MCRecords differ in who takes part and in
\* the bound on versions; every step of theirs is one of Dsr.
Dsr == INSTANCE Rights WITH
  Workflows <- {"patch", "erasure", "vendors"},
  MaxVersion <- MaxPatchVersion + MaxEraseVersion,
  status <- dsrStatus, version <- dsrVersion, closeEvents <- dsrCloseEvents

Patching == {"update", "write update"}

DsrVersionsSeen ==
  \A c \in Clients : call[c].op \in Patching => call[c].expected <= dsrVersion[call[c].d]

\* What a PATCH was allowed on the row it read holds of the row it writes.
AllowedStillHolds ==
  \A c \in Clients : call[c].op = "write update" /\ Dsr!Matches(c) =>
    LET q    == call[c]
        from == dsrStatus[q.d]
    IN  Dsr!Allowed(from, q) /\ q.entering = (q.to \in Dsr!Terminal \ {from})

\* A hard erase closes the request, and only of a soft-deleted one.
ErasedIsClosed == \A d \in hardDeleted : dsrStatus[d] = "CLOSED"

ErasesSoftDeleted ==
  \A c \in Clients : call[c].op \in {"read items", "write erase"} => call[c].d \in softDeleted

\* A mark on a checklist item, also on one that an erasure has read, comes
\* from a confirmation.
MarksAreConfirmed ==
  \A d \in Requests, s \in Dsr!Systems :
    checklist[d][s] \in Dsr!Marks => s \in confirmed[d]

ItemsAreConfirmed ==
  \A c \in Clients : call[c].op = "write erase" =>
    \A s \in Dsr!Systems : call[c].items[s] # "absent" =>
      s \in confirmed[call[c].d] /\ call[c].items[s] \in Dsr!Marks

DsrInv ==
  /\ Dsr!TypeOK
  /\ DsrVersionsSeen
  /\ AllowedStillHolds
  /\ ErasedIsClosed
  /\ ErasesSoftDeleted
  /\ MarksAreConfirmed
  /\ ItemsAreConfirmed
  /\ Dsr!ClosedOnceWithResolution
  /\ Dsr!EvidenceOnlyConfirmed

LEMMA DsrInitInv == Dsr!Init => DsrInv
<1> SUFFICES ASSUME Dsr!Init PROVE DsrInv
  OBVIOUS
<1> USE DEF Dsr!Init, Dsr!NoItems
<1>1. Dsr!TypeOK
  <2>1. /\ checklist \in [Requests -> Dsr!Checklists]
        /\ evidence \in [Requests -> Dsr!Checklists]
    BY DEF Dsr!Checklists
  <2>2. call \in [Clients -> Dsr!Calls \cup {Dsr!Idle}]
    OBVIOUS
  <2> QED
    BY <2>1, <2>2 DEF Dsr!TypeOK, Dsr!Statuses, Dsr!Resolutions
<1>2. DsrVersionsSeen /\ AllowedStillHolds /\ ErasesSoftDeleted /\ ItemsAreConfirmed
  BY DEF DsrVersionsSeen, AllowedStillHolds, ErasesSoftDeleted, ItemsAreConfirmed, Patching,
         Dsr!Idle
<1>3. ErasedIsClosed /\ MarksAreConfirmed
  BY DEF ErasedIsClosed, MarksAreConfirmed, Dsr!Marks
<1>4. Dsr!ClosedOnceWithResolution /\ Dsr!EvidenceOnlyConfirmed
  BY DEF Dsr!ClosedOnceWithResolution, Dsr!EvidenceOnlyConfirmed, Dsr!Terminal
<1> QED
  BY <1>1, <1>2, <1>3, <1>4 DEF DsrInv

LEMMA CallShape ==
  ASSUME Dsr!TypeOK, NEW c \in Clients, call[c].op # "idle"
  PROVE  LET q == call[c] IN
         /\ q \in Dsr!Calls /\ q.d \in Requests
         /\ q.op \in Patching => /\ q.to \in Dsr!Statuses \cup {Dsr!NoChange}
                                 /\ q.resolution \in Dsr!Resolutions \cup {Dsr!NoChange}
                                 /\ q.expected \in Nat \ {0}
         /\ q.op = "write update" => q.entering \in BOOLEAN
         /\ q.op \in {"read items", "write erase"} => q.resolution \in Dsr!Resolutions
         /\ q.op = "write erase" => q.items \in Dsr!Checklists
         /\ q.op = "write start" => q.vendors \subseteq Vendors /\ q.immediate \in BOOLEAN
<1> DEFINE q == call[c]
<1>1. q \in Dsr!Calls
  BY DEF Dsr!TypeOK, Dsr!Idle
<1> HIDE DEF q
<1>2. q.d \in Requests
  BY <1>1 DEF Dsr!Calls
<1>3. q.op \in Patching => /\ q.to \in Dsr!Statuses \cup {Dsr!NoChange}
                           /\ q.resolution \in Dsr!Resolutions \cup {Dsr!NoChange}
                           /\ q.expected \in Nat \ {0}
  BY <1>1 DEF Dsr!Calls, Patching
<1>4. q.op = "write update" => q.entering \in BOOLEAN
  BY <1>1 DEF Dsr!Calls
<1>5. /\ q.op \in {"read items", "write erase"} => q.resolution \in Dsr!Resolutions
      /\ q.op = "write erase" => q.items \in Dsr!Checklists
  BY <1>1 DEF Dsr!Calls
<1>6. q.op = "write start" => q.vendors \subseteq Vendors /\ q.immediate \in BOOLEAN
  BY <1>1 DEF Dsr!Calls
<1> QED
  BY <1>1, <1>2, <1>3, <1>4, <1>5, <1>6 DEF q

\* A step that writes no column has to answer for one call only.
LEMMA CallMoves ==
  ASSUME DsrInv, UNCHANGED <<Dsr!patchVars, Dsr!erasureVars, active>>,
         NEW c \in Clients, NEW q \in Dsr!Calls \cup {Dsr!Idle},
         call' = [call EXCEPT ![c] = q],
         q.op \in Patching => q.expected <= dsrVersion[q.d],
         q.op = "write update" =>
           /\ Dsr!Allowed(dsrStatus[q.d], q)
           /\ q.entering = (q.to \in Dsr!Terminal \ {dsrStatus[q.d]}),
         q.op \in {"read items", "write erase"} => q.d \in softDeleted,
         q.op = "write erase" =>
           \A s \in Dsr!Systems : q.items[s] # "absent" =>
             s \in confirmed[q.d] /\ q.items[s] \in Dsr!Marks
  PROVE  DsrInv'
<1> USE DEF Dsr!patchVars, Dsr!erasureVars
<1>0. /\ call' \in [Clients -> Dsr!Calls \cup {Dsr!Idle}]
      /\ call'[c] = q /\ \A d \in Clients \ {c} : call'[d] = call[d]
  BY DEF DsrInv, Dsr!TypeOK
<1>1. Dsr!TypeOK'
  BY <1>0 DEF DsrInv, Dsr!TypeOK
<1>2. DsrVersionsSeen'
  BY <1>0 DEF DsrInv, DsrVersionsSeen
<1>3. AllowedStillHolds'
  BY <1>0 DEF DsrInv, AllowedStillHolds, Dsr!Matches
<1>4. ErasesSoftDeleted'
  BY <1>0 DEF DsrInv, ErasesSoftDeleted
<1>5. ItemsAreConfirmed'
  BY <1>0 DEF DsrInv, ItemsAreConfirmed
<1>6. ErasedIsClosed' /\ MarksAreConfirmed'
  BY DEF DsrInv, ErasedIsClosed, MarksAreConfirmed
<1>7. Dsr!ClosedOnceWithResolution' /\ Dsr!EvidenceOnlyConfirmed'
  BY DEF DsrInv, Dsr!ClosedOnceWithResolution, Dsr!EvidenceOnlyConfirmed
<1> QED
  BY <1>1, <1>2, <1>3, <1>4, <1>5, <1>6, <1>7 DEF DsrInv

LEMMA CallReplyInv ==
  ASSUME DsrInv, UNCHANGED <<Dsr!patchVars, Dsr!erasureVars, active>>,
         NEW c \in Clients, Dsr!Reply(c)
  PROVE  DsrInv'
<1>1. Dsr!Idle.op = "idle"
  BY DEF Dsr!Idle
<1> QED
  BY <1>1, CallMoves DEF Dsr!Reply, Patching

LEMMA SendPatchInv == ASSUME DsrInv, NEW c \in Clients, Dsr!SendUpdate(c) PROVE DsrInv'
<1>1. PICK d \in Requests, to \in Dsr!Statuses \cup {Dsr!NoChange},
           res \in Dsr!Resolutions \cup {Dsr!NoChange} :
        \E expected \in 1 .. dsrVersion[d] :
          call' = [call EXCEPT ![c] =
            [op |-> "update", d |-> d, to |-> to, resolution |-> res, expected |-> expected]]
  BY DEF Dsr!SendUpdate, Dsr!Begin
<1>2. PICK expected \in 1 .. dsrVersion[d] :
        call' = [call EXCEPT ![c] =
          [op |-> "update", d |-> d, to |-> to, resolution |-> res, expected |-> expected]]
  BY <1>1
<1> DEFINE q == [op |-> "update", d |-> d, to |-> to, resolution |-> res, expected |-> expected]
<1>3. expected \in Nat \ {0} /\ expected <= dsrVersion[d]
  BY DEF DsrInv, Dsr!TypeOK
<1>4. q \in Dsr!Calls /\ q.op = "update" /\ q.expected <= dsrVersion[q.d]
  BY <1>3 DEF Dsr!Calls
<1>5. call' = [call EXCEPT ![c] = q]
  BY <1>2
<1> HIDE DEF q
<1> QED
  BY <1>4, <1>5, CallMoves DEF Dsr!SendUpdate

LEMMA CheckPatchInv == ASSUME DsrInv, NEW c \in Clients, Dsr!CheckUpdate(c) PROVE DsrInv'
<1> DEFINE p == call[c]
           q == [op |-> "write update", d |-> p.d, to |-> p.to, resolution |-> p.resolution,
                 expected |-> p.expected, entering |-> p.to \in Dsr!Terminal \ {dsrStatus[p.d]}]
<1>0. p.op = "update" /\ UNCHANGED <<Dsr!patchVars, Dsr!erasureVars, active>>
  BY DEF Dsr!CheckUpdate, Dsr!Doing
<1>1. CASE ~ Dsr!Allowed(dsrStatus[p.d], p)
  BY <1>0, <1>1, CallReplyInv DEF Dsr!CheckUpdate
<1>2. CASE Dsr!Allowed(dsrStatus[p.d], p)
  <2>1. call' = [call EXCEPT ![c] = q]
    BY <1>2 DEF Dsr!CheckUpdate, Dsr!Continue
  <2>2. /\ p.d \in Requests /\ p.to \in Dsr!Statuses \cup {Dsr!NoChange}
        /\ p.resolution \in Dsr!Resolutions \cup {Dsr!NoChange}
        /\ p.expected \in Nat \ {0}
    BY <1>0, CallShape DEF DsrInv, Patching
  <2>3. p.expected <= dsrVersion[p.d]
    BY <1>0 DEF DsrInv, DsrVersionsSeen, Patching
  <2>4. q \in Dsr!Calls
    <3>1. \A entering \in BOOLEAN :
            [op |-> "write update", d |-> p.d, to |-> p.to, resolution |-> p.resolution,
             expected |-> p.expected, entering |-> entering] \in Dsr!Calls
      BY <2>2 DEF Dsr!Calls
    <3>2. (p.to \in Dsr!Terminal \ {dsrStatus[p.d]}) \in BOOLEAN
      OBVIOUS
    <3> QED
      BY <3>1, <3>2, Zenon
  <2>5. /\ q.op = "write update" /\ q.d = p.d /\ q.to = p.to /\ q.resolution = p.resolution
        /\ q.expected = p.expected /\ q.entering = (p.to \in Dsr!Terminal \ {dsrStatus[p.d]})
    OBVIOUS
  <2> HIDE DEF p, q
  <2>6. Dsr!Allowed(dsrStatus[q.d], q)
    BY <1>2, <2>5 DEF Dsr!Allowed
  <2> QED
    BY <1>0, <2>1, <2>3, <2>4, <2>5, <2>6, CallMoves
<1> QED
  BY <1>1, <1>2

LEMMA BeginInv ==
  ASSUME DsrInv, NEW c \in Clients, Dsr!BeginStart(c) \/ Dsr!BeginErase(c)
  PROVE  DsrInv'
<1>1. CASE Dsr!BeginStart(c)
  <2>1. PICK d \in Requests, immediate \in BOOLEAN :
          call' = [call EXCEPT ![c] =
            [op |-> "write start", d |-> d, immediate |-> immediate, vendors |-> active]]
    BY <1>1 DEF Dsr!BeginStart, Dsr!Begin
  <2> DEFINE q == [op |-> "write start", d |-> d, immediate |-> immediate, vendors |-> active]
  <2>2. q \in Dsr!Calls /\ q.op = "write start"
    BY DEF Dsr!Calls, DsrInv, Dsr!TypeOK
  <2>3. call' = [call EXCEPT ![c] = q]
    BY <2>1
  <2> HIDE DEF q
  <2> QED
    BY <1>1, <2>2, <2>3, CallMoves DEF Dsr!BeginStart, Patching
<1>2. CASE Dsr!BeginErase(c)
  <2>1. PICK d \in softDeleted \ coolingOff :
          call' = [call EXCEPT ![c] =
            [op |-> "read items", d |-> d, resolution |-> resolution[d]]]
    BY <1>2 DEF Dsr!BeginErase, Dsr!Begin
  <2> DEFINE q == [op |-> "read items", d |-> d, resolution |-> resolution[d]]
  <2>2. q \in Dsr!Calls /\ q.op = "read items" /\ q.d \in softDeleted
    BY DEF Dsr!Calls, DsrInv, Dsr!TypeOK
  <2>3. call' = [call EXCEPT ![c] = q]
    BY <2>1
  <2> HIDE DEF q
  <2> QED
    BY <1>2, <2>2, <2>3, CallMoves DEF Dsr!BeginErase, Patching
<1> QED
  BY <1>1, <1>2

\* The erasure goes on with items of which none is pending.
LEMMA ReadItemsInv == ASSUME DsrInv, NEW c \in Clients, Dsr!ReadItems(c) PROVE DsrInv'
<1> DEFINE p == call[c]
           q == [op |-> "write erase", d |-> p.d, resolution |-> p.resolution,
                 items |-> checklist[p.d]]
<1>0. p.op = "read items" /\ UNCHANGED <<Dsr!patchVars, Dsr!erasureVars, active>>
  BY DEF Dsr!ReadItems, Dsr!Doing
<1>1. CASE \E s \in Dsr!Systems : checklist[p.d][s] = "PENDING"
  BY <1>0, <1>1, CallReplyInv DEF Dsr!ReadItems
<1>2. CASE ~ \E s \in Dsr!Systems : checklist[p.d][s] = "PENDING"
  <2>1. call' = [call EXCEPT ![c] = q]
    BY <1>2 DEF Dsr!ReadItems, Dsr!Continue
  <2>2. p.d \in Requests /\ p.resolution \in Dsr!Resolutions
    BY <1>0, CallShape DEF DsrInv
  <2>3. checklist[p.d] \in Dsr!Checklists
    BY <2>2 DEF DsrInv, Dsr!TypeOK
  <2>4. q \in Dsr!Calls
    BY <2>2, <2>3 DEF Dsr!Calls
  <2>5. p.d \in softDeleted
    BY <1>0 DEF DsrInv, ErasesSoftDeleted
  <2>6. \A s \in Dsr!Systems : checklist[p.d][s] # "absent" =>
          s \in confirmed[p.d] /\ checklist[p.d][s] \in Dsr!Marks
    BY <1>2, <2>2, <2>3 DEF DsrInv, MarksAreConfirmed, Dsr!Checklists
  <2>7. q.op = "write erase" /\ q.d = p.d /\ q.items = checklist[p.d]
    OBVIOUS
  <2> HIDE DEF p, q
  <2> QED
    BY <1>0, <2>1, <2>4, <2>5, <2>6, <2>7, CallMoves DEF Patching
<1> QED
  BY <1>1, <1>2

\* When a write moves the version of a row on, no call that was allowed on
\* the old row can match any more.
LEMMA DsrBumpOthers ==
  ASSUME DsrInv, NEW c \in Clients, NEW d \in Requests, Dsr!Reply(c), Dsr!Bump(d),
         \A r \in Requests \ {d} : dsrStatus'[r] = dsrStatus[r]
  PROVE  /\ dsrVersion' \in [Requests -> Nat \ {0}]
         /\ call' \in [Clients -> Dsr!Calls \cup {Dsr!Idle}]
         /\ DsrVersionsSeen' /\ AllowedStillHolds'
<1>0. /\ call' = [call EXCEPT ![c] = Dsr!Idle] /\ Dsr!Idle.op = "idle"
      /\ dsrVersion' = [dsrVersion EXCEPT ![d] = dsrVersion[d] + 1]
      /\ dsrVersion[d] \in Nat \ {0}
  BY DEF Dsr!Reply, Dsr!Bump, Dsr!Idle, DsrInv, Dsr!TypeOK
<1>1. dsrVersion' \in [Requests -> Nat \ {0}]
  BY <1>0 DEF DsrInv, Dsr!TypeOK
<1>2. call' \in [Clients -> Dsr!Calls \cup {Dsr!Idle}]
  BY <1>0 DEF DsrInv, Dsr!TypeOK
<1>3. ASSUME NEW e \in Clients, call'[e].op \in Patching
      PROVE  /\ e # c /\ call'[e] = call[e]
             /\ call[e].d \in Requests /\ call[e].expected \in Nat
             /\ call[e].expected <= dsrVersion[call[e].d]
  <2>1. e # c /\ call'[e] = call[e]
    BY <1>0, <1>3 DEF DsrInv, Dsr!TypeOK, Patching
  <2> QED
    BY <1>3, <2>1, CallShape DEF DsrInv, DsrVersionsSeen, Patching
<1>4. ASSUME NEW e \in Clients, call'[e].op \in Patching, call[e].d = d
      PROVE  dsrVersion'[d] # call[e].expected
  <2>1. call[e].expected \in Nat /\ call[e].expected <= dsrVersion[d]
    BY <1>3, <1>4
  <2>2. dsrVersion'[d] = dsrVersion[d] + 1
    BY <1>0 DEF DsrInv, Dsr!TypeOK
  <2> QED
    BY <1>0, <2>1, <2>2
<1>5. DsrVersionsSeen'
  <2> SUFFICES ASSUME NEW e \in Clients, call'[e].op \in Patching
               PROVE  call'[e].expected <= dsrVersion'[call'[e].d]
    BY DEF DsrVersionsSeen
  <2>1. /\ call'[e] = call[e] /\ call[e].d \in Requests /\ call[e].expected \in Nat
        /\ call[e].expected <= dsrVersion[call[e].d]
    BY <1>3
  <2> QED
    BY <1>0, <2>1 DEF DsrInv, Dsr!TypeOK
<1>6. AllowedStillHolds'
  <2> SUFFICES ASSUME NEW e \in Clients, call'[e].op = "write update",
                      dsrVersion'[call'[e].d] = call'[e].expected
               PROVE  LET q    == call'[e]
                          from == dsrStatus'[q.d]
                      IN  Dsr!Allowed(from, q) /\ q.entering = (q.to \in Dsr!Terminal \ {from})
    BY DEF AllowedStillHolds, Dsr!Matches
  <2>1. /\ call'[e] = call[e] /\ call[e].d \in Requests /\ call[e].expected \in Nat
        /\ call[e].expected <= dsrVersion[call[e].d]
    BY <1>3 DEF Patching
  <2>2. call[e].d # d
    BY <1>4, <2>1 DEF Patching
  <2>3. Dsr!Matches(e) /\ dsrStatus'[call[e].d] = dsrStatus[call[e].d]
    BY <1>0, <2>1, <2>2 DEF DsrInv, Dsr!TypeOK, Dsr!Matches
  <2>4. call[e].op = "write update" /\ AllowedStillHolds
    BY <2>1 DEF DsrInv
  <2>5. /\ Dsr!Allowed(dsrStatus[call[e].d], call[e])
        /\ call[e].entering = (call[e].to \in Dsr!Terminal \ {dsrStatus[call[e].d]})
    BY <2>3, <2>4 DEF AllowedStillHolds
  <2> QED
    BY <2>1, <2>3, <2>5
<1> QED
  BY <1>1, <1>2, <1>5, <1>6

\* Calls of the erasure are not touched by another call's reply.
LEMMA ReplyKeepsErasures ==
  ASSUME DsrInv, NEW c \in Clients, Dsr!Reply(c), softDeleted \subseteq softDeleted',
         \A d \in Requests : confirmed[d] \subseteq confirmed'[d]
  PROVE  ErasesSoftDeleted' /\ ItemsAreConfirmed'
<1>1. \A e \in Clients : call'[e] = call[e] \/ call'[e].op = "idle"
  BY DEF Dsr!Reply, Dsr!Idle, DsrInv, Dsr!TypeOK
<1>2. ErasesSoftDeleted'
  BY <1>1 DEF DsrInv, ErasesSoftDeleted
<1>3. ItemsAreConfirmed'
  BY <1>1, CallShape DEF DsrInv, ItemsAreConfirmed
<1> QED
  BY <1>2, <1>3

LEMMA MatchingPatch ==
  ASSUME DsrInv, NEW c \in Clients, Dsr!WriteUpdate(c), Dsr!Matches(c)
  PROVE  LET q == call[c]
             d == q.d
         IN
         /\ d \in Requests /\ Dsr!Bump(d) /\ Dsr!Reply(c)
         /\ dsrStatus' \in [Requests -> Dsr!Statuses]
         /\ resolution' \in [Requests -> Dsr!Resolutions]
         /\ closings' \in [Requests -> Nat] /\ dsrCloseEvents' \in [Requests -> Nat]
         /\ \A r \in Requests \ {d} :
              /\ dsrStatus'[r] = dsrStatus[r] /\ resolution'[r] = resolution[r]
              /\ closings'[r] = closings[r] /\ dsrCloseEvents'[r] = dsrCloseEvents[r]
         /\ \/ /\ dsrStatus'[d] = dsrStatus[d]
               /\ closings'[d] = closings[d] /\ dsrCloseEvents'[d] = dsrCloseEvents[d]
            \/ /\ dsrStatus[d] \notin Dsr!Terminal
               /\ <<dsrStatus[d], dsrStatus'[d]>> \in Dsr!Edges
               /\ closings'[d] = closings[d] + IF dsrStatus'[d] \in Dsr!Terminal THEN 1 ELSE 0
               /\ dsrCloseEvents'[d] = dsrCloseEvents[d] + IF dsrStatus'[d] = "CLOSED" THEN 1 ELSE 0
         /\ dsrStatus'[d] = "CLOSED" => resolution'[d] = "text"
<1> DEFINE q == call[c]
           d == q.d
<1>0. q.op = "write update"
  BY DEF Dsr!WriteUpdate, Dsr!Doing
<1>1. /\ d \in Requests /\ q.entering \in BOOLEAN
      /\ q.to \in Dsr!Statuses \cup {Dsr!NoChange}
      /\ q.resolution \in Dsr!Resolutions \cup {Dsr!NoChange}
  BY <1>0, CallShape DEF DsrInv, Patching
<1>2. Dsr!Allowed(dsrStatus[d], q) /\ q.entering = (q.to \in Dsr!Terminal \ {dsrStatus[d]})
  BY <1>0 DEF DsrInv, AllowedStillHolds
<1>3. /\ Dsr!Bump(d) /\ Dsr!Reply(c)
      /\ dsrStatus' = [dsrStatus EXCEPT ![d] = IF q.to = Dsr!NoChange THEN dsrStatus[d] ELSE q.to]
      /\ resolution' = [resolution EXCEPT ![d] =
           IF q.resolution = Dsr!NoChange THEN resolution[d] ELSE q.resolution]
      /\ closings' = [closings EXCEPT ![d] = IF q.entering THEN closings[d] + 1 ELSE closings[d]]
      /\ dsrCloseEvents' = [dsrCloseEvents EXCEPT ![d] =
           IF q.entering /\ q.to = "CLOSED" THEN dsrCloseEvents[d] + 1 ELSE dsrCloseEvents[d]]
  BY DEF Dsr!WriteUpdate
<1> HIDE DEF q, d
<1>4. dsrStatus[d] \in Dsr!Statuses /\ closings[d] \in Nat /\ dsrCloseEvents[d] \in Nat
  BY <1>1 DEF DsrInv, Dsr!TypeOK
<1>5. /\ dsrStatus' \in [Requests -> Dsr!Statuses]
      /\ resolution' \in [Requests -> Dsr!Resolutions]
  BY <1>1, <1>3 DEF DsrInv, Dsr!TypeOK
<1>6. closings' \in [Requests -> Nat] /\ dsrCloseEvents' \in [Requests -> Nat]
  BY <1>1, <1>3, <1>4 DEF DsrInv, Dsr!TypeOK
<1>7. \A r \in Requests \ {d} :
        /\ dsrStatus'[r] = dsrStatus[r] /\ resolution'[r] = resolution[r]
        /\ closings'[r] = closings[r] /\ dsrCloseEvents'[r] = dsrCloseEvents[r]
  BY <1>1, <1>3 DEF DsrInv, Dsr!TypeOK
<1>8. /\ dsrStatus'[d] = IF q.to = Dsr!NoChange THEN dsrStatus[d] ELSE q.to
      /\ resolution'[d] = IF q.resolution = Dsr!NoChange THEN resolution[d] ELSE q.resolution
      /\ closings'[d] = IF q.entering THEN closings[d] + 1 ELSE closings[d]
      /\ dsrCloseEvents'[d] =
           IF q.entering /\ q.to = "CLOSED" THEN dsrCloseEvents[d] + 1 ELSE dsrCloseEvents[d]
  BY <1>1, <1>3 DEF DsrInv, Dsr!TypeOK
<1>9. dsrStatus'[d] = "CLOSED" => resolution'[d] = "text"
  BY <1>2, <1>8 DEF Dsr!Allowed, Dsr!NoChange
<1>10. CASE q.to \in {Dsr!NoChange, dsrStatus[d]}
  <2>1. ~ q.entering
    BY <1>2, <1>10 DEF Dsr!NoChange, Dsr!Terminal
  <2>2. dsrStatus'[d] = dsrStatus[d]
    BY <1>8, <1>10
  <2> QED
    BY <1>1, <1>3, <1>5, <1>6, <1>7, <1>8, <1>9, <2>1, <2>2 DEF q, d
<1>11. CASE q.to \notin {Dsr!NoChange, dsrStatus[d]}
  <2>1. /\ dsrStatus[d] \notin Dsr!Terminal
        /\ <<dsrStatus[d], q.to>> \in Dsr!Edges
        /\ dsrStatus'[d] = q.to
    BY <1>2, <1>8, <1>11 DEF Dsr!Allowed
  <2>2. q.entering <=> q.to \in Dsr!Terminal
    BY <1>1, <1>2, <1>11
  <2>3. closings'[d] = closings[d] + IF dsrStatus'[d] \in Dsr!Terminal THEN 1 ELSE 0
    BY <1>4, <1>8, <2>1, <2>2
  <2>4. dsrCloseEvents'[d] = dsrCloseEvents[d] + IF dsrStatus'[d] = "CLOSED" THEN 1 ELSE 0
    BY <1>4, <1>8, <2>1, <2>2 DEF Dsr!Terminal
  <2> QED
    BY <1>1, <1>3, <1>5, <1>6, <1>7, <1>9, <2>1, <2>3, <2>4 DEF q, d
<1> QED
  BY <1>10, <1>11

LEMMA WritePatchInv == ASSUME DsrInv, NEW c \in Clients, Dsr!WriteUpdate(c) PROVE DsrInv'
<1>1. CASE ~ Dsr!Matches(c)
  BY <1>1, CallReplyInv DEF Dsr!WriteUpdate
<1>2. CASE Dsr!Matches(c)
  <2> DEFINE d == call[c].d
  <2>0. UNCHANGED <<Dsr!erasureVars, active>>
    BY DEF Dsr!WriteUpdate
  <2>1. /\ d \in Requests /\ Dsr!Bump(d) /\ Dsr!Reply(c)
        /\ dsrStatus' \in [Requests -> Dsr!Statuses]
        /\ resolution' \in [Requests -> Dsr!Resolutions]
        /\ closings' \in [Requests -> Nat] /\ dsrCloseEvents' \in [Requests -> Nat]
        /\ \A r \in Requests \ {d} :
             /\ dsrStatus'[r] = dsrStatus[r] /\ resolution'[r] = resolution[r]
             /\ closings'[r] = closings[r] /\ dsrCloseEvents'[r] = dsrCloseEvents[r]
        /\ \/ /\ dsrStatus'[d] = dsrStatus[d]
              /\ closings'[d] = closings[d] /\ dsrCloseEvents'[d] = dsrCloseEvents[d]
           \/ /\ dsrStatus[d] \notin Dsr!Terminal
              /\ <<dsrStatus[d], dsrStatus'[d]>> \in Dsr!Edges
              /\ closings'[d] = closings[d] + IF dsrStatus'[d] \in Dsr!Terminal THEN 1 ELSE 0
              /\ dsrCloseEvents'[d] =
                   dsrCloseEvents[d] + IF dsrStatus'[d] = "CLOSED" THEN 1 ELSE 0
        /\ dsrStatus'[d] = "CLOSED" => resolution'[d] = "text"
    BY <1>2, MatchingPatch
  <2> HIDE DEF d
  <2> USE DEF Dsr!erasureVars
  <2>2. /\ dsrVersion' \in [Requests -> Nat \ {0}]
        /\ call' \in [Clients -> Dsr!Calls \cup {Dsr!Idle}]
        /\ DsrVersionsSeen' /\ AllowedStillHolds'
    BY <2>1, DsrBumpOthers
  <2>3. Dsr!TypeOK'
    BY <2>0, <2>1, <2>2 DEF DsrInv, Dsr!TypeOK
  <2>4. ErasesSoftDeleted' /\ ItemsAreConfirmed'
    BY <2>0, <2>1, ReplyKeepsErasures
  <2>5. ErasedIsClosed'
    BY <2>0, <2>1 DEF DsrInv, Dsr!TypeOK, ErasedIsClosed, Dsr!Terminal
  <2>6. MarksAreConfirmed' /\ Dsr!EvidenceOnlyConfirmed'
    BY <2>0 DEF DsrInv, MarksAreConfirmed, Dsr!EvidenceOnlyConfirmed
  <2>7. Dsr!ClosedOnceWithResolution'
    <3> SUFFICES ASSUME NEW r \in Requests \ hardDeleted
                 PROVE  /\ closings'[r] = IF dsrStatus'[r] \in Dsr!Terminal THEN 1 ELSE 0
                        /\ dsrCloseEvents'[r] = IF dsrStatus'[r] = "CLOSED" THEN 1 ELSE 0
                        /\ dsrStatus'[r] = "CLOSED" => resolution'[r] = "text"
      BY <2>0 DEF Dsr!ClosedOnceWithResolution
    <3>1. /\ closings[r] = IF dsrStatus[r] \in Dsr!Terminal THEN 1 ELSE 0
          /\ dsrCloseEvents[r] = IF dsrStatus[r] = "CLOSED" THEN 1 ELSE 0
          /\ dsrStatus[r] = "CLOSED" => resolution[r] = "text"
      BY DEF DsrInv, Dsr!ClosedOnceWithResolution
    <3>2. CASE r # d
      BY <2>1, <3>1, <3>2
    <3>3. CASE r = d
      BY <2>1, <3>1, <3>3 DEF Dsr!Terminal
    <3> QED
      BY <3>2, <3>3
  <2> QED
    BY <2>2, <2>3, <2>4, <2>5, <2>6, <2>7 DEF DsrInv
<1> QED
  BY <1>1, <1>2

\* A row that the erasure does not touch, as far as PATCH is concerned.
LEMMA PatchSideKept ==
  ASSUME DsrInv, UNCHANGED <<Dsr!patchVars, hardDeleted>>,
         \A e \in Clients : call'[e] = call[e] \/ call'[e].op = "idle"
  PROVE  /\ DsrVersionsSeen' /\ AllowedStillHolds' /\ ErasedIsClosed'
         /\ Dsr!ClosedOnceWithResolution'
<1> USE DEF Dsr!patchVars
<1>1. DsrVersionsSeen'
  BY DEF DsrInv, DsrVersionsSeen, Patching
<1>2. AllowedStillHolds'
  BY DEF DsrInv, AllowedStillHolds, Dsr!Matches
<1>3. ErasedIsClosed' /\ Dsr!ClosedOnceWithResolution'
  BY DEF DsrInv, ErasedIsClosed, Dsr!ClosedOnceWithResolution
<1> QED
  BY <1>1, <1>2, <1>3

\* startErasure adds items nobody can have confirmed yet and keeps the rest.
LEMMA WriteStartInv == ASSUME DsrInv, NEW c \in Clients, Dsr!WriteStart(c) PROVE DsrInv'
<1> DEFINE q == call[c]
<1>0. /\ q.op = "write start" /\ Dsr!Reply(c)
      /\ softDeleted' = softDeleted \cup {q.d}
      /\ coolingOff' = IF q.immediate THEN coolingOff \ {q.d} ELSE coolingOff \cup {q.d}
      /\ checklist' = [checklist EXCEPT ![q.d] =
           [s \in Dsr!Systems |->
              IF checklist[q.d][s] = "absent" /\ s \in Internal \cup q.vendors
              THEN "PENDING" ELSE checklist[q.d][s]]]
      /\ UNCHANGED <<Dsr!patchVars, hardDeleted, evidence, confirmed, active>>
  BY DEF Dsr!WriteStart, Dsr!Doing
<1>1. q.d \in Requests /\ q.immediate \in BOOLEAN
  BY <1>0, CallShape DEF DsrInv
<1>2. /\ call' \in [Clients -> Dsr!Calls \cup {Dsr!Idle}]
      /\ \A e \in Clients : call'[e] = call[e] \/ call'[e].op = "idle"
  BY <1>0 DEF Dsr!Reply, Dsr!Idle, DsrInv, Dsr!TypeOK
<1> HIDE DEF q
<1>3. checklist' \in [Requests -> Dsr!Checklists]
  <2>1. [s \in Dsr!Systems |->
           IF checklist[q.d][s] = "absent" /\ s \in Internal \cup q.vendors
           THEN "PENDING" ELSE checklist[q.d][s]] \in Dsr!Checklists
    BY <1>1 DEF DsrInv, Dsr!TypeOK, Dsr!Checklists
  <2> QED
    BY <1>0, <1>1, <2>1 DEF DsrInv, Dsr!TypeOK
<1>4. \A d \in Requests, s \in Dsr!Systems :
        checklist'[d][s] = checklist[d][s]
          \/ (checklist[d][s] = "absent" /\ checklist'[d][s] = "PENDING")
  BY <1>0, <1>1 DEF DsrInv, Dsr!TypeOK
<1>5. coolingOff' \subseteq softDeleted' /\ hardDeleted' \subseteq softDeleted'
      /\ softDeleted' \subseteq Requests
  BY <1>0, <1>1 DEF DsrInv, Dsr!TypeOK
<1>6. Dsr!TypeOK'
  BY <1>0, <1>2, <1>3, <1>5 DEF DsrInv, Dsr!TypeOK, Dsr!patchVars
<1>7. MarksAreConfirmed'
  BY <1>0, <1>4 DEF DsrInv, MarksAreConfirmed, Dsr!Marks
<1>8. Dsr!EvidenceOnlyConfirmed'
  BY <1>0 DEF DsrInv, Dsr!EvidenceOnlyConfirmed
<1>9. ErasesSoftDeleted' /\ ItemsAreConfirmed'
  BY <1>0, ReplyKeepsErasures
<1> QED
  BY <1>0, <1>2, <1>6, <1>7, <1>8, <1>9, PatchSideKept DEF DsrInv

LEMMA ConfirmInv ==
  ASSUME DsrInv, NEW d \in Requests, NEW s \in Dsr!Systems, NEW mark \in Dsr!Marks,
         Dsr!ConfirmChecklistItem(d, s, mark)
  PROVE  DsrInv'
<1> USE DEF Dsr!patchVars
<1>0. /\ checklist' = [checklist EXCEPT ![d][s] = mark]
      /\ confirmed' = [confirmed EXCEPT ![d] = confirmed[d] \cup {s}]
      /\ UNCHANGED <<Dsr!patchVars, softDeleted, coolingOff, hardDeleted, evidence, active, call>>
  BY DEF Dsr!ConfirmChecklistItem
<1>1. checklist' \in [Requests -> Dsr!Checklists]
  BY <1>0 DEF DsrInv, Dsr!TypeOK, Dsr!Checklists
<1>2. confirmed' \in [Requests -> SUBSET Dsr!Systems]
  BY <1>0 DEF DsrInv, Dsr!TypeOK
<1>3. \A r \in Requests, t \in Dsr!Systems :
        /\ confirmed[r] \subseteq confirmed'[r]
        /\ checklist'[r][t] = checklist[r][t] \/ t \in confirmed'[r]
  BY <1>0 DEF DsrInv, Dsr!TypeOK, Dsr!Checklists
<1>4. Dsr!TypeOK'
  BY <1>0, <1>1, <1>2 DEF DsrInv, Dsr!TypeOK
<1>5. MarksAreConfirmed'
  BY <1>3 DEF DsrInv, MarksAreConfirmed
<1>6. Dsr!EvidenceOnlyConfirmed'
  BY <1>0, <1>3 DEF DsrInv, Dsr!EvidenceOnlyConfirmed
<1>7. ErasesSoftDeleted' /\ ItemsAreConfirmed'
  BY <1>0, <1>3, CallShape DEF DsrInv, ErasesSoftDeleted, ItemsAreConfirmed
<1> QED
  BY <1>0, <1>4, <1>5, <1>6, <1>7, PatchSideKept DEF DsrInv

LEMMA SurroundingsInv ==
  ASSUME DsrInv, \/ \E d \in Requests : Dsr!CoolingOffElapses(d)
                 \/ \E v \in Vendors : Dsr!VendorChanges(v)
                 \/ UNCHANGED dsrVars
  PROVE  DsrInv'
<1> USE DEF Dsr!patchVars, Dsr!erasureVars, dsrVars, Dsr!CoolingOffElapses, Dsr!VendorChanges
<1>1. UNCHANGED <<Dsr!patchVars, softDeleted, hardDeleted, checklist, evidence, confirmed, call>>
  OBVIOUS
<1>2. Dsr!TypeOK'
  BY DEF DsrInv, Dsr!TypeOK
<1>3. MarksAreConfirmed' /\ Dsr!EvidenceOnlyConfirmed'
  BY <1>1 DEF DsrInv, MarksAreConfirmed, Dsr!EvidenceOnlyConfirmed
<1>4. ErasesSoftDeleted' /\ ItemsAreConfirmed'
  BY <1>1 DEF DsrInv, ErasesSoftDeleted, ItemsAreConfirmed
<1> QED
  BY <1>1, <1>2, <1>3, <1>4, PatchSideKept DEF DsrInv

\* The hard erase writes whatever the row has become, and moves it on.
LEMMA WriteEraseInv == ASSUME DsrInv, NEW c \in Clients, Dsr!WriteErase(c) PROVE DsrInv'
<1> DEFINE q == call[c]
           d == q.d
<1>0. /\ q.op = "write erase" /\ Dsr!Bump(d) /\ Dsr!Reply(c)
      /\ dsrStatus' = [dsrStatus EXCEPT ![d] = "CLOSED"]
      /\ resolution' = [resolution EXCEPT ![d] =
           IF q.resolution = "null" THEN "text" ELSE q.resolution]
      /\ closings' = [closings EXCEPT ![d] = closings[d] + 1]
      /\ hardDeleted' = hardDeleted \cup {d}
      /\ evidence' = [evidence EXCEPT ![d] = q.items]
      /\ UNCHANGED <<dsrCloseEvents, softDeleted, coolingOff, checklist, confirmed, active>>
  BY DEF Dsr!WriteErase, Dsr!Doing
<1>1. /\ d \in Requests /\ d \in softDeleted
      /\ q.resolution \in Dsr!Resolutions /\ q.items \in Dsr!Checklists
  BY <1>0, CallShape DEF DsrInv, ErasesSoftDeleted
<1>2. \A s \in Dsr!Systems : q.items[s] # "absent" =>
        s \in confirmed[d] /\ q.items[s] \in Dsr!Marks
  BY <1>0 DEF DsrInv, ItemsAreConfirmed
<1> HIDE DEF q, d
<1>3. \A r \in Requests \ {d} :
        /\ dsrStatus'[r] = dsrStatus[r] /\ resolution'[r] = resolution[r]
        /\ closings'[r] = closings[r] /\ evidence'[r] = evidence[r]
  BY <1>0, <1>1 DEF DsrInv, Dsr!TypeOK
<1>4. dsrStatus'[d] = "CLOSED" /\ evidence'[d] = q.items
  BY <1>0, <1>1 DEF DsrInv, Dsr!TypeOK
<1>5. /\ dsrVersion' \in [Requests -> Nat \ {0}]
      /\ call' \in [Clients -> Dsr!Calls \cup {Dsr!Idle}]
      /\ DsrVersionsSeen' /\ AllowedStillHolds'
  BY <1>0, <1>1, <1>3, DsrBumpOthers
<1>6. Dsr!TypeOK'
  <2>1. dsrStatus' \in [Requests -> Dsr!Statuses]
    BY <1>0, <1>1 DEF DsrInv, Dsr!TypeOK, Dsr!Statuses
  <2>2. resolution' \in [Requests -> Dsr!Resolutions]
    BY <1>0, <1>1 DEF DsrInv, Dsr!TypeOK, Dsr!Resolutions
  <2>3. closings' \in [Requests -> Nat]
    <3>1. closings[d] + 1 \in Nat
      BY <1>1 DEF DsrInv, Dsr!TypeOK
    <3> QED
      BY <1>0, <1>1, <3>1 DEF DsrInv, Dsr!TypeOK
  <2>4. evidence' \in [Requests -> Dsr!Checklists]
    BY <1>0, <1>1 DEF DsrInv, Dsr!TypeOK
  <2> QED
    BY <1>0, <1>1, <1>5, <2>1, <2>2, <2>3, <2>4 DEF DsrInv, Dsr!TypeOK
<1>7. ErasedIsClosed' /\ Dsr!ClosedOnceWithResolution'
  <2>1. hardDeleted' = hardDeleted \cup {d} /\ dsrCloseEvents' = dsrCloseEvents
    BY <1>0
  <2>2. ErasedIsClosed /\ Dsr!ClosedOnceWithResolution /\ hardDeleted \subseteq Requests
    BY DEF DsrInv, Dsr!TypeOK
  <2>3. ErasedIsClosed'
    BY <1>3, <1>4, <2>1, <2>2 DEF ErasedIsClosed
  <2>4. Dsr!ClosedOnceWithResolution'
    BY <1>3, <2>1, <2>2 DEF Dsr!ClosedOnceWithResolution
  <2> QED
    BY <2>3, <2>4
<1>8. MarksAreConfirmed'
  BY <1>0 DEF DsrInv, MarksAreConfirmed
<1>9. Dsr!EvidenceOnlyConfirmed'
  <2>1. confirmed' = confirmed /\ Dsr!EvidenceOnlyConfirmed
    BY <1>0 DEF DsrInv
  <2> SUFFICES ASSUME NEW r \in Requests, NEW s \in Dsr!Systems, evidence'[r][s] # "absent"
               PROVE  s \in confirmed'[r] /\ evidence'[r][s] \in Dsr!Marks
    BY DEF Dsr!EvidenceOnlyConfirmed
  <2>2. CASE r = d
    BY <1>2, <1>4, <2>1, <2>2
  <2>3. CASE r # d
    BY <1>3, <2>1, <2>3 DEF Dsr!EvidenceOnlyConfirmed
  <2> QED
    BY <2>2, <2>3
<1>10. ErasesSoftDeleted' /\ ItemsAreConfirmed'
  BY <1>0, ReplyKeepsErasures
<1> QED
  BY <1>5, <1>6, <1>7, <1>8, <1>9, <1>10 DEF DsrInv

LEMMA DsrNextInv == DsrInv /\ Dsr!Next => DsrInv'
<1> SUFFICES ASSUME DsrInv, Dsr!Next PROVE DsrInv'
  OBVIOUS
<1>1. ASSUME NEW c \in Clients, Dsr!SendUpdate(c) PROVE DsrInv'
  BY <1>1, SendPatchInv, Zenon
<1>2. ASSUME NEW c \in Clients, Dsr!CheckUpdate(c) PROVE DsrInv'
  BY <1>2, CheckPatchInv, Zenon
<1>3. ASSUME NEW c \in Clients, Dsr!WriteUpdate(c) PROVE DsrInv'
  BY <1>3, WritePatchInv, Zenon
<1>4. ASSUME NEW c \in Clients, Dsr!BeginStart(c) \/ Dsr!BeginErase(c) PROVE DsrInv'
  BY <1>4, BeginInv, Zenon
<1>5. ASSUME NEW c \in Clients, Dsr!WriteStart(c) PROVE DsrInv'
  BY <1>5, WriteStartInv, Zenon
<1>6. ASSUME NEW c \in Clients, Dsr!ReadItems(c) PROVE DsrInv'
  BY <1>6, ReadItemsInv, Zenon
<1>7. ASSUME NEW c \in Clients, Dsr!WriteErase(c) PROVE DsrInv'
  BY <1>7, WriteEraseInv, Zenon
<1>8. ASSUME NEW d \in Requests, NEW s \in Dsr!Systems, NEW mark \in Dsr!Marks,
             Dsr!ConfirmChecklistItem(d, s, mark)
      PROVE  DsrInv'
  BY <1>8, ConfirmInv, Zenon
<1>9. CASE \E d \in Requests : Dsr!CoolingOffElapses(d)
  BY <1>9, SurroundingsInv, Zenon
<1>10. CASE \E v \in Vendors : Dsr!VendorChanges(v)
  BY <1>10, SurroundingsInv, Zenon
<1> QED
  BY <1>1, <1>2, <1>3, <1>4, <1>5, <1>6, <1>7, <1>8, <1>9, <1>10, Zenon DEF Dsr!Next

\* A request moves along its edges, or an erasure closes it.
LEMMA DsrRowStep ==
  ASSUME DsrInv, Dsr!Next
  PROVE  \A d \in Requests :
           \/ dsrStatus'[d] = dsrStatus[d]
           \/ <<dsrStatus[d], dsrStatus'[d]>> \in Dsr!Edges
           \/ dsrStatus'[d] = "CLOSED" /\ d \in hardDeleted' \ hardDeleted
<1>1. CASE UNCHANGED dsrStatus
  BY <1>1
<1>2. ASSUME NEW c \in Clients, Dsr!WriteUpdate(c), Dsr!Matches(c)
      PROVE  \A d \in Requests : \/ dsrStatus'[d] = dsrStatus[d]
                                 \/ <<dsrStatus[d], dsrStatus'[d]>> \in Dsr!Edges
  BY <1>2, MatchingPatch
<1>3. ASSUME NEW c \in Clients, Dsr!WriteErase(c)
      PROVE  \A d \in Requests :
               \/ dsrStatus'[d] = dsrStatus[d]
               \/ dsrStatus'[d] = "CLOSED" /\ d \in hardDeleted' \ hardDeleted
  <2>1. /\ call[c].d \in Requests
        /\ dsrStatus' = [dsrStatus EXCEPT ![call[c].d] = "CLOSED"]
        /\ hardDeleted' = hardDeleted \cup {call[c].d}
    BY <1>3, CallShape DEF Dsr!WriteErase, Dsr!Doing, DsrInv
  <2> QED
    BY <2>1 DEF DsrInv, Dsr!TypeOK, ErasedIsClosed
<1> QED
  BY <1>1, <1>2, <1>3 DEF Dsr!Next, Dsr!SendUpdate, Dsr!CheckUpdate, Dsr!WriteUpdate,
     Dsr!BeginStart, Dsr!WriteStart, Dsr!BeginErase, Dsr!ReadItems, Dsr!CoolingOffElapses,
     Dsr!ConfirmChecklistItem, Dsr!VendorChanges, Dsr!patchVars

\* Only a confirmation changes an item that is on the checklist.
LEMMA DsrMarksStep ==
  ASSUME DsrInv, Dsr!Next
  PROVE  \A d \in Requests, s \in Dsr!Systems :
           checklist[d][s] \in Dsr!Marks => checklist'[d][s] \in Dsr!Marks
<1>1. CASE UNCHANGED checklist
  BY <1>1
<1>2. ASSUME NEW c \in Clients, Dsr!WriteStart(c)
      PROVE  \A d \in Requests, s \in Dsr!Systems :
               checklist[d][s] \in Dsr!Marks => checklist'[d][s] = checklist[d][s]
  BY <1>2 DEF Dsr!WriteStart, Dsr!Marks, DsrInv, Dsr!TypeOK
<1>3. ASSUME NEW r \in Requests, NEW t \in Dsr!Systems, NEW mark \in Dsr!Marks,
             Dsr!ConfirmChecklistItem(r, t, mark)
      PROVE  \A d \in Requests, s \in Dsr!Systems :
               checklist[d][s] \in Dsr!Marks => checklist'[d][s] \in Dsr!Marks
  BY <1>3 DEF Dsr!ConfirmChecklistItem, DsrInv, Dsr!TypeOK, Dsr!Checklists
<1> QED
  BY <1>1, <1>2, <1>3 DEF Dsr!Next, Dsr!SendUpdate, Dsr!CheckUpdate, Dsr!WriteUpdate,
     Dsr!BeginStart, Dsr!BeginErase, Dsr!ReadItems, Dsr!WriteErase, Dsr!CoolingOffElapses,
     Dsr!VendorChanges, Dsr!erasureVars

---------------------------------------------------------------------------
(* The instances of Rights in MCRecords                                    *)

LEMMA VersionsBelow ==
  ASSUME DsrInv, NEW d \in Requests
  PROVE  /\ dsrVersion[d] < MaxPatchVersion => dsrVersion[d] < MaxPatchVersion + MaxEraseVersion
         /\ dsrVersion[d] < MaxEraseVersion => dsrVersion[d] < MaxPatchVersion + MaxEraseVersion
<1>1. dsrVersion[d] \in Nat
  BY DEF DsrInv, Dsr!TypeOK
<1> QED
  BY <1>1, RecordsAssumption

LEMMA PatchIsDsr == DsrInv /\ Patch!Next => Dsr!Next
<1> USE DEF Patch!Idle, Dsr!Idle, Patch!Reply, Dsr!Reply, Patch!Begin, Dsr!Begin, Patch!Doing, Dsr!Doing,
        Patch!Continue, Dsr!Continue, Patch!Systems, Dsr!Systems, Patch!Marks, Dsr!Marks,
        Patch!patchVars, Dsr!patchVars, Patch!erasureVars, Dsr!erasureVars
<1>1. ASSUME DsrInv, NEW c \in Clients, Patch!SendUpdate(c) PROVE Dsr!SendUpdate(c)
  <2>1. PICK d \in Requests, to \in Dsr!Statuses \cup {Dsr!NoChange},
             res \in Dsr!Resolutions \cup {Dsr!NoChange} :
          /\ dsrVersion[d] < MaxPatchVersion
          /\ \E expected \in 1 .. dsrVersion[d] :
               Dsr!Begin(c, [op |-> "update", d |-> d, to |-> to, resolution |-> res,
                             expected |-> expected])
    BY <1>1 DEF Patch!SendUpdate, Patch!Statuses, Dsr!Statuses, Patch!NoChange, Dsr!NoChange,
       Patch!Resolutions, Dsr!Resolutions
  <2>2. dsrVersion[d] < MaxPatchVersion + MaxEraseVersion
    BY <1>1, <2>1, VersionsBelow
  <2>3. UNCHANGED <<Dsr!patchVars, Dsr!erasureVars, active>>
    BY <1>1 DEF Patch!SendUpdate
  <2> HIDE DEF Dsr!Begin, Dsr!patchVars, Dsr!erasureVars
  <2>4. "patch" \in {"patch", "erasure", "vendors"}
    OBVIOUS
  <2> QED
    BY <2>1, <2>2, <2>3, <2>4, Zenon DEF Dsr!SendUpdate
<1>2. ASSUME NEW c \in Clients, Patch!CheckUpdate(c) PROVE Dsr!CheckUpdate(c)
  BY <1>2 DEF Patch!CheckUpdate, Dsr!CheckUpdate, Patch!Allowed, Dsr!Allowed,
     Patch!Statuses, Dsr!Statuses, Patch!Terminal, Dsr!Terminal, Patch!Edges, Dsr!Edges, Patch!NoChange, Dsr!NoChange
<1>3. ASSUME NEW c \in Clients, Patch!WriteUpdate(c) PROVE Dsr!WriteUpdate(c)
  BY <1>3 DEF Patch!WriteUpdate, Dsr!WriteUpdate, Patch!Matches, Dsr!Matches, Patch!Bump, Dsr!Bump, Patch!NoChange, Dsr!NoChange
<1>4. ASSUME NEW c \in Clients, Patch!BeginStart(c) PROVE Dsr!BeginStart(c)
  BY <1>4 DEF Patch!BeginStart, Dsr!BeginStart
<1>5. ASSUME NEW c \in Clients, Patch!WriteStart(c) PROVE Dsr!WriteStart(c)
  BY <1>5 DEF Patch!WriteStart, Dsr!WriteStart
<1>6. ASSUME NEW c \in Clients, Patch!BeginErase(c) PROVE Dsr!BeginErase(c)
  BY <1>6 DEF Patch!BeginErase, Dsr!BeginErase
<1>7. ASSUME NEW c \in Clients, Patch!ReadItems(c) PROVE Dsr!ReadItems(c)
  BY <1>7 DEF Patch!ReadItems, Dsr!ReadItems
<1>8. ASSUME DsrInv, NEW c \in Clients, Patch!WriteErase(c) PROVE Dsr!WriteErase(c)
  <2>1. call[c].d \in Requests
    BY <1>8, CallShape DEF Patch!WriteErase, DsrInv
  <2> QED
    BY <1>8, <2>1, VersionsBelow DEF Patch!WriteErase, Dsr!WriteErase, Patch!Bump, Dsr!Bump
<1>9. ASSUME NEW d \in Requests,
             \/ Patch!CoolingOffElapses(d)
             \/ \E s \in Patch!Systems, mark \in Patch!Marks : Patch!ConfirmChecklistItem(d, s, mark)
      PROVE  \/ Dsr!CoolingOffElapses(d)
             \/ \E s \in Dsr!Systems, mark \in Dsr!Marks : Dsr!ConfirmChecklistItem(d, s, mark)
  BY <1>9 DEF Patch!CoolingOffElapses, Dsr!CoolingOffElapses,
     Patch!ConfirmChecklistItem, Dsr!ConfirmChecklistItem
<1>10. ASSUME NEW v \in Vendors, Patch!VendorChanges(v) PROVE Dsr!VendorChanges(v)
  BY <1>10 DEF Patch!VendorChanges, Dsr!VendorChanges
<1> QED
  BY <1>1, <1>2, <1>3, <1>4, <1>5, <1>6, <1>7, <1>8, <1>9, <1>10 DEF Patch!Next, Dsr!Next

LEMMA ErasureIsDsr == DsrInv /\ Erasure!Next => Dsr!Next
<1> USE DEF Erasure!Idle, Dsr!Idle, Erasure!Reply, Dsr!Reply, Erasure!Begin, Dsr!Begin, Erasure!Doing, Dsr!Doing,
        Erasure!Continue, Dsr!Continue, Erasure!Systems, Dsr!Systems, Erasure!Marks, Dsr!Marks,
        Erasure!patchVars, Dsr!patchVars, Erasure!erasureVars, Dsr!erasureVars
<1>1. ASSUME DsrInv, NEW c \in Clients, Erasure!SendUpdate(c) PROVE Dsr!SendUpdate(c)
  BY <1>1 DEF Erasure!SendUpdate
<1>2. ASSUME NEW c \in Clients, Erasure!CheckUpdate(c) PROVE Dsr!CheckUpdate(c)
  BY <1>2 DEF Erasure!CheckUpdate, Dsr!CheckUpdate, Erasure!Allowed, Dsr!Allowed,
     Erasure!Statuses, Dsr!Statuses, Erasure!Terminal, Dsr!Terminal, Erasure!Edges, Dsr!Edges, Erasure!NoChange, Dsr!NoChange
<1>3. ASSUME NEW c \in Clients, Erasure!WriteUpdate(c) PROVE Dsr!WriteUpdate(c)
  BY <1>3 DEF Erasure!WriteUpdate, Dsr!WriteUpdate, Erasure!Matches, Dsr!Matches, Erasure!Bump, Dsr!Bump, Erasure!NoChange, Dsr!NoChange
<1>4. ASSUME NEW c \in Clients, Erasure!BeginStart(c) PROVE Dsr!BeginStart(c)
  BY <1>4 DEF Erasure!BeginStart, Dsr!BeginStart
<1>5. ASSUME NEW c \in Clients, Erasure!WriteStart(c) PROVE Dsr!WriteStart(c)
  BY <1>5 DEF Erasure!WriteStart, Dsr!WriteStart
<1>6. ASSUME NEW c \in Clients, Erasure!BeginErase(c) PROVE Dsr!BeginErase(c)
  BY <1>6 DEF Erasure!BeginErase, Dsr!BeginErase
<1>7. ASSUME NEW c \in Clients, Erasure!ReadItems(c) PROVE Dsr!ReadItems(c)
  BY <1>7 DEF Erasure!ReadItems, Dsr!ReadItems
<1>8. ASSUME DsrInv, NEW c \in Clients, Erasure!WriteErase(c) PROVE Dsr!WriteErase(c)
  <2>1. call[c].d \in Requests
    BY <1>8, CallShape DEF Erasure!WriteErase, DsrInv
  <2> QED
    BY <1>8, <2>1, VersionsBelow DEF Erasure!WriteErase, Dsr!WriteErase, Erasure!Bump, Dsr!Bump
<1>9. ASSUME NEW d \in Requests,
             \/ Erasure!CoolingOffElapses(d)
             \/ \E s \in Erasure!Systems, mark \in Erasure!Marks : Erasure!ConfirmChecklistItem(d, s, mark)
      PROVE  \/ Dsr!CoolingOffElapses(d)
             \/ \E s \in Dsr!Systems, mark \in Dsr!Marks : Dsr!ConfirmChecklistItem(d, s, mark)
  BY <1>9 DEF Erasure!CoolingOffElapses, Dsr!CoolingOffElapses,
     Erasure!ConfirmChecklistItem, Dsr!ConfirmChecklistItem
<1>10. ASSUME NEW v \in Vendors, Erasure!VendorChanges(v) PROVE Dsr!VendorChanges(v)
  BY <1>10 DEF Erasure!VendorChanges, Dsr!VendorChanges
<1> QED
  BY <1>1, <1>2, <1>3, <1>4, <1>5, <1>6, <1>7, <1>8, <1>9, <1>10 DEF Erasure!Next, Dsr!Next

LEMMA MixedIsDsr == DsrInv /\ Mixed!Next => Dsr!Next
<1> USE DEF Mixed!Idle, Dsr!Idle, Mixed!Reply, Dsr!Reply, Mixed!Begin, Dsr!Begin, Mixed!Doing, Dsr!Doing,
        Mixed!Continue, Dsr!Continue, Mixed!Systems, Dsr!Systems, Mixed!Marks, Dsr!Marks,
        Mixed!patchVars, Dsr!patchVars, Mixed!erasureVars, Dsr!erasureVars
<1>1. ASSUME DsrInv, NEW c \in Clients, Mixed!SendUpdate(c) PROVE Dsr!SendUpdate(c)
  <2>1. PICK d \in Requests, to \in Dsr!Statuses \cup {Dsr!NoChange},
             res \in Dsr!Resolutions \cup {Dsr!NoChange} :
          /\ dsrVersion[d] < MaxEraseVersion
          /\ \E expected \in 1 .. dsrVersion[d] :
               Dsr!Begin(c, [op |-> "update", d |-> d, to |-> to, resolution |-> res,
                             expected |-> expected])
    BY <1>1 DEF Mixed!SendUpdate, Mixed!Statuses, Dsr!Statuses, Mixed!NoChange, Dsr!NoChange,
       Mixed!Resolutions, Dsr!Resolutions
  <2>2. dsrVersion[d] < MaxPatchVersion + MaxEraseVersion
    BY <1>1, <2>1, VersionsBelow
  <2>3. UNCHANGED <<Dsr!patchVars, Dsr!erasureVars, active>>
    BY <1>1 DEF Mixed!SendUpdate
  <2> HIDE DEF Dsr!Begin, Dsr!patchVars, Dsr!erasureVars
  <2>4. "patch" \in {"patch", "erasure", "vendors"}
    OBVIOUS
  <2> QED
    BY <2>1, <2>2, <2>3, <2>4, Zenon DEF Dsr!SendUpdate
<1>2. ASSUME NEW c \in Clients, Mixed!CheckUpdate(c) PROVE Dsr!CheckUpdate(c)
  BY <1>2 DEF Mixed!CheckUpdate, Dsr!CheckUpdate, Mixed!Allowed, Dsr!Allowed,
     Mixed!Statuses, Dsr!Statuses, Mixed!Terminal, Dsr!Terminal, Mixed!Edges, Dsr!Edges, Mixed!NoChange, Dsr!NoChange
<1>3. ASSUME NEW c \in Clients, Mixed!WriteUpdate(c) PROVE Dsr!WriteUpdate(c)
  BY <1>3 DEF Mixed!WriteUpdate, Dsr!WriteUpdate, Mixed!Matches, Dsr!Matches, Mixed!Bump, Dsr!Bump, Mixed!NoChange, Dsr!NoChange
<1>4. ASSUME NEW c \in Clients, Mixed!BeginStart(c) PROVE Dsr!BeginStart(c)
  BY <1>4 DEF Mixed!BeginStart, Dsr!BeginStart
<1>5. ASSUME NEW c \in Clients, Mixed!WriteStart(c) PROVE Dsr!WriteStart(c)
  BY <1>5 DEF Mixed!WriteStart, Dsr!WriteStart
<1>6. ASSUME NEW c \in Clients, Mixed!BeginErase(c) PROVE Dsr!BeginErase(c)
  BY <1>6 DEF Mixed!BeginErase, Dsr!BeginErase
<1>7. ASSUME NEW c \in Clients, Mixed!ReadItems(c) PROVE Dsr!ReadItems(c)
  BY <1>7 DEF Mixed!ReadItems, Dsr!ReadItems
<1>8. ASSUME DsrInv, NEW c \in Clients, Mixed!WriteErase(c) PROVE Dsr!WriteErase(c)
  <2>1. call[c].d \in Requests
    BY <1>8, CallShape DEF Mixed!WriteErase, DsrInv
  <2> QED
    BY <1>8, <2>1, VersionsBelow DEF Mixed!WriteErase, Dsr!WriteErase, Mixed!Bump, Dsr!Bump
<1>9. ASSUME NEW d \in Requests,
             \/ Mixed!CoolingOffElapses(d)
             \/ \E s \in Mixed!Systems, mark \in Mixed!Marks : Mixed!ConfirmChecklistItem(d, s, mark)
      PROVE  \/ Dsr!CoolingOffElapses(d)
             \/ \E s \in Dsr!Systems, mark \in Dsr!Marks : Dsr!ConfirmChecklistItem(d, s, mark)
  BY <1>9 DEF Mixed!CoolingOffElapses, Dsr!CoolingOffElapses,
     Mixed!ConfirmChecklistItem, Dsr!ConfirmChecklistItem
<1>10. ASSUME NEW v \in Vendors, Mixed!VendorChanges(v) PROVE Dsr!VendorChanges(v)
  BY <1>10 DEF Mixed!VendorChanges, Dsr!VendorChanges
<1> QED
  BY <1>1, <1>2, <1>3, <1>4, <1>5, <1>6, <1>7, <1>8, <1>9, <1>10 DEF Mixed!Next, Dsr!Next
---------------------------------------------------------------------------
(* The components side by side                                             *)

\* Versions that run ahead (Ahead > 0) disturb violations only.
RecordsInv == /\ Ahead = 0 => IInv
              /\ TaskInv /\ DsrInv

LEMMA ErasureTypes == DsrInv => Erasure!TypeOK
BY DEF DsrInv, Dsr!TypeOK, Dsr!Statuses, Dsr!Resolutions, Dsr!Checklists, Dsr!Systems, Dsr!Marks,
   Dsr!Calls, Dsr!Idle, Dsr!NoChange, Erasure!TypeOK, Erasure!Statuses, Erasure!Resolutions,
   Erasure!Checklists, Erasure!Systems, Erasure!Marks, Erasure!Calls, Erasure!Idle,
   Erasure!NoChange

LEMMA ErasureAccounts == DsrInv => RequestsAreAccountable
<1>1. DsrInv => Mixed!ClosedOnceWithResolution
  BY DEF DsrInv, Dsr!ClosedOnceWithResolution, Mixed!ClosedOnceWithResolution, Dsr!Terminal,
     Mixed!Terminal
<1>2. DsrInv => Erasure!EvidenceOnlyConfirmed
  BY DEF DsrInv, Dsr!EvidenceOnlyConfirmed, Erasure!EvidenceOnlyConfirmed, Dsr!Systems,
     Erasure!Systems, Dsr!Marks, Erasure!Marks
<1> QED
  BY <1>1, <1>2 DEF RequestsAreAccountable

LEMMA RecordsInitInv == RecordsInit => RecordsInv
<1>1. Patch!Init => Dsr!Init
  BY DEF Patch!Init, Dsr!Init, Patch!NoItems, Dsr!NoItems, Patch!Systems, Dsr!Systems,
     Patch!Idle, Dsr!Idle
<1> QED
  BY <1>1, InitIInv, TaskInitInv, DsrInitInv DEF RecordsInit, RecordsInv

LEMMA TaskUnchanged == ASSUME TaskInv, UNCHANGED taskVars PROVE TaskInv'
<1> USE DEF taskVars
<1>1. Task!TypeOK'
  BY DEF TaskInv, Task!TypeOK
<1>2. TaskVersionsSeen' /\ Task!CheckedStillHolds'
  BY DEF TaskInv, TaskVersionsSeen, Task!CheckedStillHolds, Task!Matches
<1>3. StampedWhenVerified' /\ Task!CompletedOnce' /\ Task!AssigneeWasAnnounced'
  BY DEF TaskInv, StampedWhenVerified, Task!CompletedOnce, Task!AssigneeWasAnnounced
<1> QED
  BY <1>1, <1>2, <1>3 DEF TaskInv

\* A step of the whole is a step of one component or leaves it alone.
LEMMA RecordsStep ==
  ASSUME RecordsInv, [RecordsNext]_<<component, vars, taskVars, dsrVars>>
  PROVE  /\ [Next]_vars
         /\ Task!Next \/ UNCHANGED taskVars
         /\ Dsr!Next \/ UNCHANGED dsrVars
BY PatchIsDsr, ErasureIsDsr, MixedIsDsr
   DEF RecordsInv, RecordsNext, ViolationStep, TaskStep, PatchStep, ErasureStep, MixedStep

LEMMA RecordsNextInv ==
  ASSUME RecordsInv, [RecordsNext]_<<component, vars, taskVars, dsrVars>>
  PROVE  RecordsInv'
<1>1. Ahead = 0 => IInv'
  BY RecordsStep, NextIInv DEF RecordsInv
<1>2. TaskInv'
  BY RecordsStep, TaskNextInv, TaskUnchanged DEF RecordsInv
<1>3. DsrInv'
  BY RecordsStep, DsrNextInv, SurroundingsInv DEF RecordsInv
<1> QED
  BY <1>1, <1>2, <1>3 DEF RecordsInv

LEMMA RecordsInvariance == RecordsSpec => []RecordsInv
BY RecordsInitInv, RecordsNextInv, PTL DEF RecordsSpec

\* Columns and requests in flight of all three services stay in their types.
THEOREM RecordsTypeCorrect == Ahead = 0 /\ RecordsSpec => []RecordsTypeOK
<1>1. CASE Ahead = 0
  <2>1. RecordsInv => RecordsTypeOK
    BY <1>1, ErasureTypes DEF RecordsInv, IInv, TaskInv, RecordsTypeOK
  <2> QED
    BY <2>1, RecordsInvariance, PTL
<1>2. CASE Ahead # 0
  BY <1>2
<1> QED
  BY <1>1, <1>2

\* remediation-task.service.update decides on the assignee it read whether to
\* announce one: no reassignment is lost to that read being stale.
THEOREM AssigneeWasAnnouncedAlways == RecordsSpec => []AssigneeWasAnnounced
<1>1. RecordsInv => AssigneeWasAnnounced
  BY DEF RecordsInv, TaskInv, AssigneeWasAnnounced
<1> QED
  BY <1>1, RecordsInvariance, PTL

\* However many PATCH requests and erasures race, a data subject request is
\* closed once and with its resolution until an erasure closes it, and an
\* evidence pack lists confirmed systems only.
THEOREM RequestsAreAccountableAlways == RecordsSpec => []RequestsAreAccountable
<1>1. RecordsInv => RequestsAreAccountable
  BY ErasureAccounts DEF RecordsInv
<1> QED
  BY <1>1, RecordsInvariance, PTL

\* "Verification stamp - applied once": of reviewers who verify the same task
\* at the same time one is refused, nobody replaces the stamp later, and the
\* task is reported completed once.
THEOREM VerifiedAndCompletedOnceAlways == RecordsSpec => VerifiedAndCompletedOnce
<1> DEFINE Once == /\ Task!CompletedOnce'
                   /\ \A t \in Tasks : verifiedBy[t] # Null => verifiedBy'[t] = verifiedBy[t]
<1>1. RecordsInv /\ RecordsInv' /\ [RecordsNext]_<<component, vars, taskVars, dsrVars>>
      => [Once]_taskVars
  BY RecordsStep, TaskRowStep DEF RecordsInv, TaskInv
<1> QED
  BY <1>1, RecordsInvariance, PTL DEF RecordsSpec, VerifiedAndCompletedOnce

\* A PATCH checked before an erasure never reopens what the erasure closed:
\* the hard erase moves the version on.
THEOREM LifecycleOrEraseAlways == RecordsSpec => LifecycleOrErase
<1> DEFINE Moves == \A d \in Requests :
      \/ dsrStatus'[d] = dsrStatus[d]
      \/ <<dsrStatus[d], dsrStatus'[d]>> \in Mixed!Edges
      \/ dsrStatus'[d] = "CLOSED" /\ d \in hardDeleted' \ hardDeleted
<1>1. RecordsInv /\ [RecordsNext]_<<component, vars, taskVars, dsrVars>> => [Moves]_(Mixed!vars)
  <2>1. Dsr!Edges = Mixed!Edges
    BY DEF Dsr!Edges, Mixed!Edges
  <2>2. UNCHANGED dsrVars => UNCHANGED Mixed!vars
    BY DEF dsrVars, Mixed!vars, Mixed!patchVars, Mixed!erasureVars
  <2> QED
    BY <2>1, <2>2, RecordsStep, DsrRowStep DEF RecordsInv
<1> QED
  BY <1>1, RecordsInvariance, PTL DEF RecordsSpec, LifecycleOrErase, Mixed!LifecycleOrErase

\* Restarting an erasure while its checklist is being confirmed loses no
\* confirmation.
THEOREM ConfirmationsAreKeptAlways == RecordsSpec => ConfirmationsAreKept
<1> DEFINE Kept == \A d \in Requests, s \in Erasure!Systems :
      checklist[d][s] \in Erasure!Marks => checklist'[d][s] \in Erasure!Marks
<1>1. RecordsInv /\ [RecordsNext]_<<component, vars, taskVars, dsrVars>> => [Kept]_(Erasure!vars)
  <2>1. Dsr!Systems = Erasure!Systems /\ Dsr!Marks = Erasure!Marks
    BY DEF Dsr!Systems, Erasure!Systems, Dsr!Marks, Erasure!Marks
  <2>2. UNCHANGED dsrVars => UNCHANGED Erasure!vars
    BY DEF dsrVars, Erasure!vars, Erasure!patchVars, Erasure!erasureVars
  <2> QED
    BY <2>1, <2>2, RecordsStep, DsrMarksStep DEF RecordsInv
<1> QED
  BY <1>1, RecordsInvariance, PTL DEF RecordsSpec, ConfirmationsAreKept,
     Erasure!ConfirmationsAreKept

\* The violations of the composition behave as Violation alone: what is proved of
\* it - one close, one report of it, no edit of a terminal violation, the state
\* machine - holds while tasks and data subject requests are served too.
THEOREM RecordsImplementViolations == RecordsSpec => Spec
<1>1. RecordsInit => Init
  BY DEF RecordsInit
<1>2. [RecordsNext]_<<component, vars, taskVars, dsrVars>> => [Next]_vars
  BY DEF RecordsNext, ViolationStep, TaskStep, PatchStep, ErasureStep, MixedStep
<1> QED
  BY <1>1, <1>2, PTL DEF RecordsSpec, Spec

COROLLARY ViolationsAreSoundInRecords ==
  Ahead = 0 /\ RecordsSpec => []ClosedOnce /\ TerminalIsImmutable
BY RecordsImplementViolations, ClosedOnceAlways, TerminalIsImmutableAlways

\* The PATCH and the close of a task, each in several steps, implement the
\* atomic state machine.
LEMMA TasksFollowLifecycle == RecordsSpec => TaskMachine!Spec
<1>1. RecordsInit => TaskMachine!Init
  BY DEF RecordsInit, Task!Init, TaskMachine!Init
<1>2. RecordsInv /\ [RecordsNext]_<<component, vars, taskVars, dsrVars>>
      => [TaskMachine!Next]_taskStatus
  BY RecordsStep, TaskRowStep DEF RecordsInv, taskVars
<1> QED
  BY <1>1, <1>2, RecordsInvariance, PTL DEF RecordsSpec, TaskMachine!Spec

\* Violations and tasks, whose requests read, check and write in separate steps,
\* implement the atomic state machines of their services.
THEOREM RecordsFollowLifecyclesAlways == Ahead = 0 /\ RecordsSpec => RecordsFollowLifecycles
BY RecordsImplementViolations, ViolationFollowsLifecycle, TasksFollowLifecycle
   DEF RecordsFollowLifecycles
=============================================================================
