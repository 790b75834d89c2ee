---------------------- MODULE IncidentPipeline_proofs ----------------------
(***************************************************************************)
(* Theorems about IncidentPipeline, for any number of results, controls,   *)
(* violations, concurrent handlers, deliveries and crashes.                *)
(*                                                                         *)
(* The argument: what a lookup found is never relied upon.  An insert      *)
(* consults the unique index again in the step that writes, and the event  *)
(* of a violation is written with its row; so the rows are consistent      *)
(* however stale the lookups are.  WorkAnnounced adds that a handler only  *)
(* works on an event that reached the bus: an AUTO task is created for a   *)
(* violation that exists because its event does.                           *)
(***************************************************************************)
EXTENDS IncidentPipeline, TLAPS

WorkAnnounced ==
  \A h \in Slots : slot[h] # Idle /\ slot[h].work \in Events => slot[h].work \in announced

IInv ==
  /\ TypeOK
  /\ WorkAnnounced
  /\ NoDuplicates
  /\ RowsHaveEvents

USE PipelineAssumption

LEMMA EventShape ==
  /\ \A r \in Results : Failed(r) \in Events
  /\ \A v \in Violations : Created(v) \in Events
  /\ \A r, v : Failed(r) # Created(v)
  /\ \A v, w : Created(v) = Created(w) => v = w
BY DEF Events, Failed, Created

LEMMA WorkShape ==
  ASSUME NEW w \in Work
  PROVE  /\ w.type = "ValidationFailed" => w.of \in Results
         /\ w.type = "ControlFail" => w.of \in SourceKeys
         /\ w.type = "ViolationCreated" => w.of \in Violations /\ w = Created(w.of)
BY DEF Work, Events, Failed, Created, ControlFail

LEMMA SlotShape ==
  ASSUME TypeOK, NEW h \in Slots, slot[h] # Idle
  PROVE  /\ slot[h] \in [step : {"lookup", "insert"}, work : Work]
         /\ slot[h].work \in Work
BY DEF TypeOK

\* The unique index on AUTO tasks, and the foreign key to the violation.
LEMMA TaskTarget ==
  ASSUME IInv, NEW h \in Slots, Doing(h, "insert", {"ViolationCreated"})
  PROVE  /\ slot[h].work.of \in Violations
         /\ cause[slot[h].work.of] # Unopened
<1>1. slot[h].work \in Work /\ slot[h] # Idle
  BY SlotShape DEF IInv, Doing
<1>2. /\ slot[h].work.of \in Violations
      /\ slot[h].work = Created(slot[h].work.of)
  BY <1>1, WorkShape DEF Doing
<1>3. Created(slot[h].work.of) \in recorded
  BY <1>1, <1>2, EventShape DEF IInv, WorkAnnounced, TypeOK
<1> QED
  BY <1>2, <1>3 DEF IInv, RowsHaveEvents

\* The insert of an AUTO task changes nothing when the index finds one.
LEMMA InsertTaskEffect ==
  ASSUME IInv, NEW h \in Slots, InsertTask(h), slot[h].work.of \in Violations
  PROVE  LET v == slot[h].work.of IN
         \/ autoTasks' = autoTasks
         \/ autoTasks[v] = 0 /\ autoTasks' = [autoTasks EXCEPT ![v] = 1]
<1> DEFINE v == slot[h].work.of
<1>1. autoTasks[v] \in Nat /\ v \in DOMAIN autoTasks
  BY DEF IInv, TypeOK
<1>2. CASE autoTasks[v] > 0
  BY <1>2 DEF InsertTask, HasAutoTask
<1>3. CASE ~ (autoTasks[v] > 0)
  <2>1. autoTasks[v] = 0
    BY <1>1, <1>3
  <2>2. autoTasks' = [autoTasks EXCEPT ![v] = autoTasks[v] + 1]
    BY <1>3 DEF InsertTask, HasAutoTask
  <2>3. autoTasks[v] + 1 = 1
    BY <2>1
  <2> QED
    BY <2>1, <2>2, <2>3
<1> QED
  BY <1>2, <1>3

LEMMA InitIInv == Init => IInv
<1> SUFFICES ASSUME Init PROVE IInv
  OBVIOUS
<1>1. TypeOK
  BY DEF Init, Bus!Init, TypeOK
<1>2. WorkAnnounced
  BY DEF Init, WorkAnnounced
<1>3. NoDuplicates
  BY DEF Init, NoDuplicates, Causes
<1>4. RowsHaveEvents
  BY DEF Init, Bus!Init, RowsHaveEvents
<1> QED
  BY <1>1, <1>2, <1>3, <1>4 DEF IInv

\* A row is opened for a cause the unique index has not seen, with its event.
LEMMA OpenRows ==
  ASSUME IInv, NEW c \in Causes \cup {NoCause}, c \in Causes => Opened(c) = {},
         OpenViolation(c)
  PROVE  /\ recorded' \subseteq Events /\ recorded \subseteq recorded'
         /\ UNCHANGED <<announced, settled, autoTasks>>
         /\ cause' \in [Violations -> Causes \cup {NoCause, Unopened}]
         /\ NoDuplicates'
         /\ RowsHaveEvents'
<1>1. PICK v \in Violations :
        /\ cause[v] = Unopened
        /\ cause' = [cause EXCEPT ![v] = c]
        /\ Bus!Record(Created(v))
        /\ UNCHANGED autoTasks
  BY DEF OpenViolation
<1>2. /\ recorded' = recorded \cup {Created(v)}
      /\ UNCHANGED <<announced, settled>>
  BY <1>1 DEF Bus!Record
<1>3. recorded' \subseteq Events
  BY <1>2, EventShape DEF IInv, TypeOK
<1>4. cause' \in [Violations -> Causes \cup {NoCause, Unopened}]
  BY <1>1 DEF IInv, TypeOK
<1>5. c # Unopened
  BY DEF Causes
<1>6. NoDuplicates'
  BY <1>1, <1>5 DEF IInv, TypeOK, NoDuplicates, Opened, Causes
<1>7. RowsHaveEvents'
  BY <1>1, <1>2, <1>5, EventShape DEF IInv, TypeOK, RowsHaveEvents
<1> QED
  BY <1>1, <1>2, <1>3, <1>4, <1>6, <1>7

\* Recording a failure, announcing and settling leave the rows alone.
LEMMA BusIInv ==
  ASSUME IInv,
         \/ \E r \in Results : ResultFails(r)
         \/ \E e \in Events : RelayStep(e)
  PROVE  IInv'
<1>1. /\ UNCHANGED <<rowVars, slot, deliveries, handled, crashes>>
      /\ announced \subseteq announced'
  BY DEF ResultFails, RelayStep, Bus!Record, Bus!Announce, Bus!Settle
<1>2. /\ recorded' \subseteq Events
      /\ announced' \subseteq recorded'
      /\ settled' \subseteq announced'
  BY EventShape
     DEF ResultFails, RelayStep, Bus!Record, Bus!Announce, Bus!Settle, IInv, TypeOK
<1>3. \A v \in Violations : Created(v) \in recorded' <=> Created(v) \in recorded
  BY EventShape
     DEF ResultFails, RelayStep, Bus!Record, Bus!Announce, Bus!Settle
<1>4. TypeOK'
  BY <1>1, <1>2 DEF rowVars, IInv, TypeOK
<1>5. WorkAnnounced'
  BY <1>1 DEF IInv, WorkAnnounced
<1>6. NoDuplicates' /\ RowsHaveEvents'
  BY <1>1, <1>3 DEF rowVars, IInv, NoDuplicates, RowsHaveEvents
<1> QED
  BY <1>4, <1>5, <1>6 DEF IInv

\* A slot that starts, looks up or dies leaves the rows and the bus alone.
LEMMA SlotIInv ==
  ASSUME IInv, NEW h \in Slots,
         \/ \E e \in Events : Deliver(h, e)
         \/ \E k \in SourceKeys : EvaluateControl(h, k)
         \/ HandlerDies(h)
         \/ LookupViolation(h)
         \/ LookupTask(h)
  PROVE  IInv'
<1>1. UNCHANGED <<busVars, rowVars>>
  BY DEF Deliver, EvaluateControl, HandlerDies, LookupViolation, LookupTask, LookedUp
<1>2. NoDuplicates' /\ RowsHaveEvents'
  BY <1>1 DEF busVars, rowVars, IInv, NoDuplicates, RowsHaveEvents
<1>3. CASE \E e \in Events : Deliver(h, e)
  <2>1. PICK e \in Events : Deliver(h, e)
    BY <1>3
  <2>2. e \in Work
    BY DEF Work
  <2>3. TypeOK'
    BY <1>1, <2>1, <2>2 DEF Deliver, busVars, rowVars, IInv, TypeOK
  <2>4. WorkAnnounced'
    BY <1>1, <2>1 DEF Deliver, busVars, IInv, TypeOK, WorkAnnounced
  <2> QED
    BY <1>2, <2>3, <2>4 DEF IInv
<1>4. CASE \E k \in SourceKeys : EvaluateControl(h, k)
  <2>1. PICK k \in SourceKeys : EvaluateControl(h, k)
    BY <1>4
  <2>2. ControlFail(k) \in Work /\ ControlFail(k) \notin Events
    BY DEF Work, Events, ControlFail, Failed, Created
  <2>3. TypeOK'
    BY <1>1, <2>1, <2>2 DEF EvaluateControl, busVars, rowVars, IInv, TypeOK
  <2>4. WorkAnnounced'
    BY <1>1, <2>1, <2>2 DEF EvaluateControl, busVars, IInv, TypeOK, WorkAnnounced
  <2> QED
    BY <1>2, <2>3, <2>4 DEF IInv
<1>5. CASE HandlerDies(h)
  BY <1>1, <1>2, <1>5
     DEF HandlerDies, busVars, rowVars, IInv, TypeOK, WorkAnnounced
<1>6. CASE LookupViolation(h) \/ LookupTask(h)
  <2>1. slot[h] \in [step : {"lookup", "insert"}, work : Work] /\ slot[h] # Idle
    BY <1>6, SlotShape DEF LookupViolation, LookupTask, Doing, IInv
  <2>2. PICK found \in BOOLEAN : LookedUp(h, found)
    BY <1>6 DEF LookupViolation, LookupTask
  <2>3. CASE Finish(h)
    BY <1>1, <1>2, <2>1, <2>2, <2>3
       DEF LookedUp, Finish, busVars, rowVars, IInv, TypeOK, WorkAnnounced
  <2>4. CASE slot' = [slot EXCEPT ![h].step = "insert"] /\ UNCHANGED handled
    <3>1. /\ [slot[h] EXCEPT !.step = "insert"] \in
               [step : {"lookup", "insert"}, work : Work]
          /\ [slot[h] EXCEPT !.step = "insert"].work = slot[h].work
      BY <2>1
    <3>2. TypeOK'
      BY <1>1, <2>2, <2>4, <3>1 DEF LookedUp, busVars, rowVars, IInv, TypeOK
    <3>3. WorkAnnounced'
      BY <1>1, <2>1, <2>4, <3>1 DEF busVars, IInv, TypeOK, WorkAnnounced
    <3> QED
      BY <1>2, <3>2, <3>3 DEF IInv
  <2> QED
    BY <2>2, <2>3, <2>4 DEF LookedUp
<1> QED
  BY <1>3, <1>4, <1>5, <1>6

\* Ending a handler run keeps the slots and the history in their types.
LEMMA FinishSlots ==
  ASSUME IInv, NEW h \in Slots, slot[h] # Idle, Finish(h), announced' = announced
  PROVE  /\ slot' \in [Slots -> [step : {"lookup", "insert"}, work : Work] \cup {Idle}]
         /\ handled' \subseteq announced'
         /\ WorkAnnounced'
BY DEF Finish, IInv, TypeOK, WorkAnnounced

LEMMA InsertIInv ==
  ASSUME IInv, NEW h \in Slots, InsertViolation(h) \/ InsertTask(h)
  PROVE  IInv'
<1>0. slot[h] # Idle /\ Finish(h) /\ UNCHANGED <<deliveries, crashes>>
  BY DEF InsertViolation, InsertTask, Doing
<1>1. CASE InsertViolation(h)
  <2> DEFINE c == slot[h].work.of
  <2>1. c \in Causes
    BY <1>0, <1>1, SlotShape, WorkShape DEF InsertViolation, Doing, IInv, Causes
  <2>2. CASE Opened(c) # {}
    <3>1. UNCHANGED <<busVars, rowVars>>
      BY <1>1, <2>2 DEF InsertViolation
    <3> QED
      BY <1>0, <3>1, FinishSlots
         DEF busVars, rowVars, IInv, TypeOK, NoDuplicates, RowsHaveEvents
  <2>3. CASE Opened(c) = {}
    <3>1. OpenViolation(c)
      BY <1>1, <2>3 DEF InsertViolation
    <3>2. /\ recorded' \subseteq Events /\ recorded \subseteq recorded'
          /\ UNCHANGED <<announced, settled, autoTasks>>
          /\ cause' \in [Violations -> Causes \cup {NoCause, Unopened}]
          /\ NoDuplicates'
          /\ RowsHaveEvents'
      BY <2>1, <2>3, <3>1, OpenRows
    <3>3. TypeOK'
      BY <1>0, <3>2, FinishSlots DEF IInv, TypeOK
    <3> QED
      BY <1>0, <3>2, <3>3, FinishSlots DEF IInv
  <2> QED
    BY <2>2, <2>3
<1>2. CASE InsertTask(h)
  <2> DEFINE v == slot[h].work.of
  <2>1. v \in Violations /\ cause[v] # Unopened
    BY <1>2, TaskTarget DEF InsertTask
  <2>2. UNCHANGED <<busVars, cause>>
    BY <1>2 DEF InsertTask
  <2>3. \/ autoTasks' = autoTasks
        \/ autoTasks[v] = 0 /\ autoTasks' = [autoTasks EXCEPT ![v] = 1]
    BY <1>2, <2>1, InsertTaskEffect
  <2>4. TypeOK'
    BY <1>0, <2>1, <2>2, <2>3, FinishSlots DEF busVars, IInv, TypeOK
  <2>5. NoDuplicates' /\ RowsHaveEvents'
    BY <2>1, <2>2, <2>3 DEF busVars, IInv, TypeOK, NoDuplicates, RowsHaveEvents
  <2> QED
    BY <1>0, <2>2, <2>4, <2>5, FinishSlots DEF busVars, IInv
<1> QED
  BY <1>1, <1>2

LEMMA CreateIInv ==
  ASSUME IInv, NEW c \in Results \cup {NoCause}, CreateByHand(c)
  PROVE  IInv'
<1>1. c \in Causes \cup {NoCause} /\ OpenViolation(c)
  BY DEF CreateByHand, Causes
<1>2. c \in Causes => Opened(c) = {}
  BY DEF CreateByHand, Causes
<1>3. /\ recorded' \subseteq Events /\ recorded \subseteq recorded'
      /\ UNCHANGED <<announced, settled, autoTasks>>
      /\ cause' \in [Violations -> Causes \cup {NoCause, Unopened}]
      /\ NoDuplicates'
      /\ RowsHaveEvents'
  BY <1>1, <1>2, OpenRows
<1>4. UNCHANGED <<slot, deliveries, handled, crashes>>
  BY DEF CreateByHand
<1> QED
  BY <1>3, <1>4 DEF IInv, TypeOK, WorkAnnounced

LEMMA NextIInv == IInv /\ [Next]_vars => IInv'
<1> SUFFICES ASSUME IInv, [Next]_vars PROVE IInv'
  OBVIOUS
<1>1. CASE UNCHANGED vars
  BY <1>1 DEF vars, busVars, rowVars, IInv, TypeOK, WorkAnnounced, NoDuplicates,
     RowsHaveEvents
<1>2. CASE Next
  BY <1>2, BusIInv, SlotIInv, InsertIInv, CreateIInv DEF Next, SlotStep
<1> QED
  BY <1>1, <1>2

LEMMA Invariance == Spec => []IInv
BY InitIInv, NextIInv, PTL DEF Spec

\* Events, rows, slots and histories stay in their types.
THEOREM TypeCorrect == Spec => []TypeOK
BY Invariance, PTL DEF IInv

\* However many handlers and requests race, a cause has one violation and a
\* violation one AUTO task.
THEOREM NoDuplicatesAlways == Spec => []NoDuplicates
BY Invariance, PTL DEF IInv

\* Rows are never taken away.
LEMMA RowsStay ==
  ASSUME IInv, [Next]_vars
  PROVE  \A v \in Violations : /\ cause[v] # Unopened => cause'[v] = cause[v]
                               /\ autoTasks[v] > 0 => autoTasks'[v] > 0
<1>1. UNCHANGED rowVars => \A v \in Violations : cause'[v] = cause[v] /\ autoTasks'[v] = autoTasks[v]
  BY DEF rowVars
<1>2. ASSUME NEW c, OpenViolation(c)
      PROVE  /\ autoTasks' = autoTasks
             /\ \A v \in Violations : cause[v] # Unopened => cause'[v] = cause[v]
  BY <1>2 DEF OpenViolation, IInv, TypeOK
<1>3. ASSUME NEW h \in Slots, InsertTask(h)
      PROVE  cause' = cause /\ \A v \in Violations : autoTasks[v] > 0 => autoTasks'[v] > 0
  <2>1. PICK w \in Violations : w = slot[h].work.of
    BY <1>3, TaskTarget DEF InsertTask
  <2>2. autoTasks' = autoTasks \/ autoTasks' = [autoTasks EXCEPT ![w] = 1]
    BY <1>3, <2>1, InsertTaskEffect
  <2> QED
    BY <1>3, <2>2 DEF InsertTask, IInv, TypeOK
<1>4. \/ UNCHANGED rowVars
      \/ \E c : OpenViolation(c)
      \/ \E h \in Slots : InsertTask(h)
  BY DEF Next, vars, SlotStep, ResultFails, RelayStep, Deliver, HandlerDies,
     EvaluateControl, LookupViolation, LookupTask, LookedUp, InsertViolation, CreateByHand
<1> QED
  BY <1>1, <1>2, <1>3, <1>4

\* A handler run that finishes with its event leaves the row it is about: it
\* has found the row, or the insert meets it, or the insert writes it.
LEMMA FinishedWithRow ==
  ASSUME IInv, NEW h \in Slots, SlotStep(h), slot[h].work \in Events, handled' # handled
  PROVE  /\ \A r \in Results : slot[h].work = Failed(r) => \E v \in Violations : cause'[v] = r
         /\ \A v \in Violations : slot[h].work = Created(v) => autoTasks'[v] > 0
<1>0. /\ \A r \in Results : slot[h].work = Failed(r) =>
             slot[h].work.type = "ValidationFailed" /\ slot[h].work.of = r
      /\ \A v \in Violations : slot[h].work = Created(v) =>
             slot[h].work.type = "ViolationCreated" /\ slot[h].work.of = v
  BY DEF Failed, Created
<1>1. CASE LookupViolation(h)
  <2>1. cause' = cause /\ {v \in Violations : cause[v] = slot[h].work.of} # {}
    BY <1>1 DEF LookupViolation, LookedUp, rowVars
  <2>2. slot[h].work.type # "ViolationCreated"
    BY <1>1 DEF LookupViolation, Doing
  <2> QED
    BY <1>0, <2>1, <2>2
<1>2. CASE InsertViolation(h)
  <2>1. slot[h].work.type # "ViolationCreated"
    BY <1>2 DEF InsertViolation, Doing
  <2>2. CASE Opened(slot[h].work.of) # {}
    BY <1>0, <1>2, <2>1, <2>2 DEF InsertViolation, Opened, rowVars
  <2>3. CASE Opened(slot[h].work.of) = {}
    <3>1. PICK v \in Violations : cause' = [cause EXCEPT ![v] = slot[h].work.of]
      BY <1>2, <2>3 DEF InsertViolation, OpenViolation
    <3> QED
      BY <1>0, <2>1, <3>1 DEF IInv, TypeOK
  <2> QED
    BY <2>2, <2>3
<1>3. CASE LookupTask(h)
  <2>1. /\ slot[h].work.type = "ViolationCreated" /\ slot[h] # Idle /\ autoTasks' = autoTasks
        /\ autoTasks[slot[h].work.of] > 0 \/ cause[slot[h].work.of] = Unopened
    BY <1>3 DEF LookupTask, LookedUp, Doing, rowVars
  <2>2. slot[h].work \in recorded
    BY <2>1 DEF IInv, TypeOK, WorkAnnounced
  <2>3. \A v \in Violations : slot[h].work = Created(v) => cause[v] # Unopened
    BY <2>2 DEF IInv, RowsHaveEvents
  <2> QED
    BY <1>0, <2>1, <2>3
<1>4. CASE InsertTask(h)
  <2>1. PICK v \in Violations : v = slot[h].work.of
    BY <1>4, TaskTarget DEF InsertTask
  <2>2. slot[h].work.type = "ViolationCreated"
    BY <1>4 DEF InsertTask, Doing
  <2>3. autoTasks'[v] > 0
    <3>1. CASE HasAutoTask(v)
      BY <1>4, <2>1, <3>1 DEF InsertTask, HasAutoTask
    <3>2. CASE ~HasAutoTask(v)
      <4>1. autoTasks' = [autoTasks EXCEPT ![v] = autoTasks[v] + 1]
        BY <1>4, <2>1, <3>2 DEF InsertTask
      <4>2. autoTasks[v] \in Nat /\ autoTasks'[v] = autoTasks[v] + 1
        BY <4>1 DEF IInv, TypeOK
      <4> QED
        BY <4>2
    <3> QED
      BY <3>1, <3>2
  <2> QED
    BY <1>0, <2>1, <2>2, <2>3
<1> QED
  BY <1>1, <1>2, <1>3, <1>4 DEF SlotStep

\* A violation and its ViolationCreated event exist together, an AUTO task
\* only with its violation, and a handled event has its row: however often an
\* event is delivered and whichever insert lost, the work is done.
THEOREM RowsMatchEventsAlways == Spec => []RowsMatchEvents
<1>1. Init => HandledTookEffect
  BY DEF Init, HandledTookEffect
<1>2. IInv /\ HandledTookEffect /\ [Next]_vars => HandledTookEffect'
  <2> SUFFICES ASSUME IInv, HandledTookEffect, [Next]_vars PROVE HandledTookEffect'
    OBVIOUS
  <2> SUFFICES ASSUME NEW e \in handled'
               PROVE  /\ \A r \in Results : e = Failed(r) => \E v \in Violations : cause'[v] = r
                      /\ \A v \in Violations : e = Created(v) => autoTasks'[v] > 0
    BY DEF HandledTookEffect, Opened, HasAutoTask
  <2>1. CASE e \in handled
    <3>1. /\ \A r \in Results : e = Failed(r) => \E v \in Violations : cause[v] = r
          /\ \A v \in Violations : e = Created(v) => autoTasks[v] > 0
      BY <2>1 DEF HandledTookEffect, Opened, HasAutoTask
    <3>2. \A r \in Results : r # Unopened
      OBVIOUS
    <3> QED
      BY <3>1, <3>2, RowsStay
  <2>2. CASE e \notin handled
    <3>1. PICK h \in Slots : SlotStep(h)
      BY <2>2 DEF Next, vars, ResultFails, RelayStep, Deliver, HandlerDies, EvaluateControl, CreateByHand
    <3>2. Finish(h)
      BY <2>2, <3>1 DEF SlotStep, LookupViolation, InsertViolation, LookupTask, InsertTask, LookedUp
    <3>3. e = slot[h].work /\ e \in Events
      BY <2>2, <3>2 DEF Finish
    <3> QED
      BY <2>2, <3>1, <3>3, FinishedWithRow
  <2> QED
    BY <2>1, <2>2
<1> QED
  BY <1>1, <1>2, Invariance, PTL DEF Spec, IInv, RowsMatchEvents

\* A row opened for a new cause is a step Open of Incident.
LEMMA OpenIsOpen ==
  ASSUME IInv, NEW c \in Causes \cup {NoCause}, c \in Causes => Opened(c) = {},
         OpenViolation(c)
  PROVE  Promise!Next
<1>1. PICK v \in Violations :
        /\ cause[v] = Unopened
        /\ cause' = [cause EXCEPT ![v] = c]
        /\ UNCHANGED autoTasks
  BY DEF OpenViolation
<1>2. \A w \in Violations : c \in Causes => cause[w] # c
  BY DEF Opened
<1>3. Promise!Open(v)
  BY <1>1, <1>2 DEF Promise!Open
<1> QED
  BY <1>3 DEF Promise!Next

\* Lookups, inserts and duplicate deliveries implement the pipeline that
\* opens and creates each row at most once in a single step.
THEOREM PipelineImplementsIncident == Spec => ImplementsIncident
<1> DEFINE tasked == {v \in Violations : autoTasks[v] > 0}
<1>1. Init => Promise!Init
  BY DEF Init, Promise!Init
<1>2. IInv /\ [Next]_vars => [Promise!Next]_<<cause, tasked>>
  <2> SUFFICES ASSUME IInv, [Next]_vars PROVE [Promise!Next]_<<cause, tasked>>
    OBVIOUS
  <2>1. CASE UNCHANGED rowVars
    BY <2>1 DEF rowVars
  <2>2. ASSUME NEW h \in Slots, InsertViolation(h)
        PROVE  [Promise!Next]_<<cause, tasked>>
    <3>1. slot[h].work.of \in Causes
      BY <2>2, SlotShape, WorkShape DEF InsertViolation, Doing, IInv, Causes
    <3>2. CASE Opened(slot[h].work.of) # {}
      BY <2>2, <3>2 DEF InsertViolation, rowVars
    <3>3. CASE Opened(slot[h].work.of) = {}
      BY <2>2, <3>1, <3>3, OpenIsOpen DEF InsertViolation
    <3> QED
      BY <3>2, <3>3
  <2>3. ASSUME NEW h \in Slots, InsertTask(h)
        PROVE  [Promise!Next]_<<cause, tasked>>
    <3>1. PICK v \in Violations : v = slot[h].work.of
      BY <2>3, TaskTarget DEF InsertTask
    <3>2. cause[v] # Unopened /\ cause' = cause
      BY <2>3, <3>1, TaskTarget DEF InsertTask
    <3>3. CASE autoTasks' = autoTasks
      BY <3>2, <3>3
    <3>4. CASE autoTasks[v] = 0 /\ autoTasks' = [autoTasks EXCEPT ![v] = 1]
      <4>1. tasked' = tasked \cup {v} /\ v \notin tasked
        BY <3>4 DEF IInv, TypeOK
      <4>2. Promise!CreateTask(v)
        BY <3>2, <4>1 DEF Promise!CreateTask
      <4> QED
        BY <4>2 DEF Promise!Next
    <3> QED
      BY <2>3, <3>1, <3>3, <3>4, InsertTaskEffect
  <2>4. ASSUME NEW c \in Results \cup {NoCause}, CreateByHand(c)
        PROVE  [Promise!Next]_<<cause, tasked>>
    BY <2>4, OpenIsOpen DEF CreateByHand, Causes
  <2>5. \/ UNCHANGED rowVars
        \/ \E h \in Slots : InsertViolation(h) \/ InsertTask(h)
        \/ \E c \in Results \cup {NoCause} : CreateByHand(c)
    BY DEF Next, vars, SlotStep, ResultFails, RelayStep, Deliver, HandlerDies,
       EvaluateControl, LookupViolation, LookupTask, LookedUp
  <2> QED
    BY <2>1, <2>2, <2>3, <2>4, <2>5
<1> QED
  BY <1>1, <1>2, Invariance, PTL DEF Spec, ImplementsIncident, Promise!Spec

=============================================================================
