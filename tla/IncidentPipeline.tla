-------------------------- MODULE IncidentPipeline --------------------------
(***************************************************************************)
(* From a failed validation to a remediation task.  A ValidationFailed     *)
(* event makes the violations module open a violation, whose               *)
(* ViolationCreated event makes the remediation module create an AUTO      *)
(* task.  The bus is the one EventDelivery promises (and Outbox            *)
(* implements): an event may be handed to handlers several times, also at  *)
(* once, and a handler run may be cut short.                               *)
(*                                                                         *)
(* Each handler looks for an existing row first and inserts later; only a  *)
(* unique index separates two handlers that both found nothing.  Requests  *)
(* of the API that open violations race with the handlers.                 *)
(***************************************************************************)
EXTENDS Naturals, FiniteSets

CONSTANTS
  Results,        \* validation results that may FAIL
  SourceKeys,     \* assessment version controls that may FAIL
  Violations,     \* identifiers of violation rows
  Slots,          \* handler runs and requests in progress
  MaxDeliveries,  \* bound on the deliveries of one event
  MaxCrashes,     \* bound on handler runs cut short
  MaxByHand,      \* bound on violations opened by hand without a result
  NoCause,        \* a violation opened by hand without a result
  Unopened        \* an identifier not yet in use

ASSUME PipelineAssumption ==
  /\ MaxDeliveries \in Nat
  /\ MaxCrashes \in Nat
  /\ MaxByHand \in Nat
  /\ NoCause # Unopened
  /\ {NoCause, Unopened} \cap (Results \cup SourceKeys) = {}

VARIABLES
  recorded, announced, settled,  \* the bus, see EventDelivery
  cause,       \* what each violation row was opened for
  autoTasks,   \* number of AUTO task rows of each violation
  slot,        \* what each handler run or request is doing
  deliveries,  \* deliveries of each event so far
  handled,     \* events some handler run finished
  crashes      \* handler runs cut short so far

Causes == Results \cup SourceKeys

Failed(r)  == [type |-> "ValidationFailed", of |-> r]
Created(v) == [type |-> "ViolationCreated", of |-> v]

Events == {Failed(r) : r \in Results} \cup {Created(v) : v \in Violations}

Bus == INSTANCE EventDelivery

busVars == <<recorded, announced, settled>>
rowVars == <<cause, autoTasks>>
vars    == <<busVars, rowVars, slot, deliveries, handled, crashes>>

Idle == [step |-> "idle"]

\* What a slot works on: an event, or a control failed by an evaluation.
ControlFail(k) == [type |-> "ControlFail", of |-> k]

Work == Events \cup {ControlFail(k) : k \in SourceKeys}

TypeOK ==
  /\ recorded \subseteq Events
  /\ announced \subseteq recorded
  /\ settled \subseteq announced
  /\ cause \in [Violations -> Causes \cup {NoCause, Unopened}]
  /\ autoTasks \in [Violations -> Nat]
  /\ slot \in [Slots -> [step : {"lookup", "insert"}, work : Work] \cup {Idle}]
  /\ deliveries \in [Events -> 0 .. MaxDeliveries]
  /\ handled \subseteq announced
  /\ crashes \in 0 .. MaxCrashes

Init ==
  /\ Bus!Init
  /\ cause = [v \in Violations |-> Unopened]
  /\ autoTasks = [v \in Violations |-> 0]
  /\ slot = [h \in Slots |-> Idle]
  /\ deliveries = [e \in Events |-> 0]
  /\ handled = {}
  /\ crashes = 0

---------------------------------------------------------------------------
(* The bus and the start of a handler run *)

\* A validation run commits a FAIL result with its event (ValidationRun).
ResultFails(r) ==
  /\ Bus!Record(Failed(r))
  /\ UNCHANGED <<rowVars, slot, deliveries, handled, crashes>>

RelayStep(e) ==
  /\ Bus!Announce(e) \/ Bus!Settle(e)
  /\ UNCHANGED <<rowVars, slot, deliveries, handled, crashes>>

Deliver(h, e) ==
  /\ slot[h] = Idle
  /\ e \in announced
  /\ deliveries[e] < MaxDeliveries
  /\ deliveries' = [deliveries EXCEPT ![e] = @ + 1]
  /\ slot' = [slot EXCEPT ![h] = [step |-> "lookup", work |-> e]]
  /\ UNCHANGED <<busVars, rowVars, handled, crashes>>

\* createFromAssessmentControlFail is called by a request, not by the bus.
EvaluateControl(h, k) ==
  /\ slot[h] = Idle
  /\ slot' = [slot EXCEPT ![h] = [step |-> "lookup", work |-> ControlFail(k)]]
  /\ UNCHANGED <<busVars, rowVars, deliveries, handled, crashes>>

HandlerDies(h) ==
  /\ slot[h] # Idle
  /\ crashes < MaxCrashes
  /\ crashes' = crashes + 1
  /\ slot' = [slot EXCEPT ![h] = Idle]
  /\ UNCHANGED <<busVars, rowVars, deliveries, handled>>

Finish(h) ==
  /\ slot' = [slot EXCEPT ![h] = Idle]
  /\ handled' = handled \cup ({slot[h].work} \cap Events)

\* A lookup that found no row goes on to the insert, one that did is done.
LookedUp(h, found) ==
  /\ IF found
     THEN Finish(h)
     ELSE slot' = [slot EXCEPT ![h].step = "insert"] /\ UNCHANGED handled
  /\ UNCHANGED <<busVars, rowVars, deliveries, crashes>>

Doing(h, step, types) ==
  /\ slot[h] # Idle
  /\ slot[h].step = step
  /\ slot[h].work.type \in types

---------------------------------------------------------------------------
(* Violations *)

\* Seeded fault: no unique index on the cause of a violation.
Opened_NoIndex(c) == {}

\* The row the unique index on the cause would conflict with.
Opened(c) == {v \in Violations : cause[v] = c}

\* Seeded fault: the row is inserted, its event is not.
OpenViolation_NoEvent(c) ==
  \E v \in Violations :
    /\ cause[v] = Unopened
    /\ cause' = [cause EXCEPT ![v] = c]
    /\ UNCHANGED <<autoTasks, busVars>>

\* Seeded fault: the row is linked to the event, not to the failed result.
OpenViolation_LinksEvent(c) ==
  \E v \in Violations :
    /\ cause[v] = Unopened
    /\ cause' = [cause EXCEPT ![v] = Failed(c)]
    /\ Bus!Record(Created(v))
    /\ UNCHANGED autoTasks

\* One transaction: the violation row and its ViolationCreated event.
OpenViolation(c) ==
  \E v \in Violations :
    /\ cause[v] = Unopened
    /\ cause' = [cause EXCEPT ![v] = c]
    /\ Bus!Record(Created(v))
    /\ UNCHANGED autoTasks

\* findByValidationResult / findBySourceKey.
LookupViolation(h) ==
  /\ Doing(h, "lookup", {"ValidationFailed", "ControlFail"})
  /\ LookedUp(h, {v \in Violations : cause[v] = slot[h].work.of} # {})

\* The insert.  On a conflict the transaction is rolled back: the event
\* handler catches P2002 and is done, the assessment request throws.
InsertViolation(h) ==
  LET c == slot[h].work.of IN
  /\ Doing(h, "insert", {"ValidationFailed", "ControlFail"})
  /\ IF Opened(c) # {} THEN UNCHANGED <<busVars, rowVars>> ELSE OpenViolation(c)
  /\ Finish(h)
  /\ UNCHANGED <<deliveries, crashes>>

\* POST /violations, for an existing result or for none; a conflict is an
\* error of the request and changes nothing.
CreateByHand(c) ==
  /\ \/ c = NoCause /\ Cardinality({v \in Violations : cause[v] = NoCause}) < MaxByHand
     \/ c \in Results /\ Failed(c) \in recorded /\ Opened(c) = {}
  /\ OpenViolation(c)
  /\ UNCHANGED <<slot, deliveries, handled, crashes>>

---------------------------------------------------------------------------
(* Remediation tasks *)

\* Seeded fault: no partial unique index on AUTO tasks.
HasAutoTask_NoIndex(v) == FALSE

HasAutoTask(v) == autoTasks[v] > 0

\* findAutoTaskByViolation, then the check that the violation exists.
LookupTask(h) ==
  LET v == slot[h].work.of IN
  /\ Doing(h, "lookup", {"ViolationCreated"})
  /\ LookedUp(h, autoTasks[v] > 0 \/ cause[v] = Unopened)

InsertTask(h) ==
  LET v == slot[h].work.of IN
  /\ Doing(h, "insert", {"ViolationCreated"})
  /\ autoTasks' = IF HasAutoTask(v)
                  THEN autoTasks
                  ELSE [autoTasks EXCEPT ![v] = @ + 1]
  /\ Finish(h)
  /\ UNCHANGED <<busVars, cause, deliveries, crashes>>

---------------------------------------------------------------------------
SlotStep(h) ==
  LookupViolation(h) \/ InsertViolation(h) \/ LookupTask(h) \/ InsertTask(h)

Next ==
  \/ \E r \in Results : ResultFails(r)
  \/ \E e \in Events : RelayStep(e) \/ \E h \in Slots : Deliver(h, e)
  \/ \E h \in Slots :
       SlotStep(h) \/ HandlerDies(h) \/ \E k \in SourceKeys : EvaluateControl(h, k)
  \/ \E c \in Results \cup {NoCause} : CreateByHand(c)

Spec == Init /\ [][Next]_vars

\* The bus announces what was recorded and delivers it again until a handler
\* run finished (DeliveredAtLeastOnce of Outbox); handler runs go on.
Fairness ==
  /\ \A e \in Events :
       /\ WF_vars(RelayStep(e))
       /\ SF_vars(e \notin handled /\ \E h \in Slots : Deliver(h, e))
  /\ \A h \in Slots : WF_vars(SlotStep(h))

FairSpec == Spec /\ Fairness

---------------------------------------------------------------------------
(* Properties *)

\* Whatever handlers and requests race, a cause never has two violations and
\* a violation never has two AUTO tasks.
NoDuplicates ==
  /\ \A v, w \in Violations : cause[v] \in Causes /\ cause[v] = cause[w] => v = w
  /\ \A v \in Violations : autoTasks[v] <= 1

\* A violation row exists exactly when its ViolationCreated event does, and
\* an AUTO task only for an existing violation.
RowsHaveEvents ==
  \A v \in Violations :
    /\ (cause[v] # Unopened) <=> (Created(v) \in recorded)
    /\ autoTasks[v] > 0 => cause[v] # Unopened

\* A handler run that finished, having written the row, having found it, or
\* having run into the index, leaves the row its event asks for.
HandledTookEffect ==
  /\ \A r \in Results : Failed(r) \in handled => Opened(r) # {}
  /\ \A v \in Violations : Created(v) \in handled => HasAutoTask(v)

\* Rows and events tell the same story.
RowsMatchEvents == RowsHaveEvents /\ HandledTookEffect

\* A bound of the model, not of the code: the identifiers are used up while
\* some cause has no violation yet.
OutOfIdentifiers ==
  /\ \A v \in Violations : cause[v] # Unopened
  /\ \E c \in Causes : Opened(c) = {}

\* Every failed result ends up with a violation that has its AUTO task.
FailureIsRemediated ==
  \A r \in Results :
    (Failed(r) \in recorded) ~>
      \/ \E v \in Violations : cause[v] = r /\ autoTasks[v] > 0
      \/ OutOfIdentifiers

\* The pipeline implements the promise stated in Incident.
Promise == INSTANCE Incident WITH
  tasked <- {v \in Violations : autoTasks[v] > 0}

ImplementsIncident == Promise!Spec
=============================================================================
