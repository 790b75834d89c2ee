------------------------------ MODULE Outbox ------------------------------
(***************************************************************************)
(* The transactional outbox: the outbox_events table, the relays that      *)
(* drain it (one in the API process, one in the worker process), the       *)
(* BullMQ event-bus queue and the worker that runs the event handlers.     *)
(*                                                                         *)
(* One action per I/O step of relayOnce, so relays interleave between a    *)
(* claim, a publication and a mark, and may crash between any two of them. *)
(* Time appears only through its effects: a lock becomes stale, a backoff  *)
(* elapses.  Failures of the environment are counted in "faults" and drawn *)
(* from FaultKinds, so that a run can say which failures it allows.        *)
(***************************************************************************)
EXTENDS Naturals, FiniteSets

CONSTANTS
  Events,        \* events the producers may write
  Relays,        \* processes that call startOutboxRelay
  MaxAttempts,   \* MAX_ATTEMPTS of outbox.repository.ts
  BatchSize,     \* the limit argument of a claim (50 in the code)
  FaultKinds,    \* kinds of environment failure that may occur
  MaxFaults,     \* bound on the number of such failures
  NoEvent        \* a relay that is working on no row

Faults == {"crash", "publish", "mark", "handler", "stall"}

ASSUME OutboxAssumption ==
  /\ MaxAttempts \in Nat \ {0}
  /\ BatchSize \in Nat \ {0}
  /\ MaxFaults \in Nat
  /\ FaultKinds \subseteq Faults
  /\ NoEvent \notin Events
  /\ IsFiniteSet(Relays)

VARIABLES
  committed,   \* rows that exist, inserted by a committed business transaction
  published,   \* rows whose published_at is set
  attempts,    \* attempts column of each row
  lock,        \* lock_token column of each row, 0 for NULL
  stale,       \* locked rows whose locked_at is older than LOCK_STALE_MS
  backoff,     \* rows whose available_at is in the future
  nextToken,   \* supply of fresh lock tokens (randomUUID)
  pc,          \* where each relay is inside relayOnce; "idle" = not running
  todo,        \* rows of the claimed batch a relay has not finished
  cur,         \* the row a relay is marking
  token,       \* lock token of the batch a relay works on
  job,         \* the event-bus job whose jobId is the event's id
  stalled,     \* jobs BullMQ has already moved back to waiting once
  enqueued,    \* history: events some relay put on the bus
  handled,     \* history: number of completed handler runs for each event
  faults       \* number of environment failures so far

rowVars   == <<committed, published, attempts, lock, stale, backoff>>
relayVars == <<pc, todo, cur, token, nextToken>>
jobVars   == <<job, stalled, handled>>
vars      == <<rowVars, relayVars, jobVars, enqueued, faults>>

JobStates == {"none", "waiting", "active", "handled", "completed", "failed"}

TypeOK ==
  /\ committed \subseteq Events
  /\ published \subseteq committed
  /\ attempts \in [Events -> 0 .. MaxAttempts]
  /\ lock \in [Events -> Nat]
  /\ stale \subseteq Events
  /\ backoff \subseteq Events
  /\ nextToken \in Nat \ {0}
  /\ pc \in [Relays -> {"idle", "publishing", "marking", "failing"}]
  /\ todo \in [Relays -> SUBSET Events]
  /\ cur \in [Relays -> Events \cup {NoEvent}]
  /\ token \in [Relays -> Nat]
  /\ job \in [Events -> JobStates]
  /\ stalled \subseteq Events
  /\ enqueued \subseteq Events
  /\ handled \in [Events -> Nat]
  /\ faults \in 0 .. MaxFaults

Init ==
  /\ committed = {}
  /\ published = {}
  /\ attempts = [e \in Events |-> 0]
  /\ lock = [e \in Events |-> 0]
  /\ stale = {}
  /\ backoff = {}
  /\ nextToken = 1
  /\ pc = [r \in Relays |-> "idle"]
  /\ todo = [r \in Relays |-> {}]
  /\ cur = [r \in Relays |-> NoEvent]
  /\ token = [r \in Relays |-> 0]
  /\ job = [e \in Events |-> "none"]
  /\ stalled = {}
  /\ enqueued = {}
  /\ handled = [e \in Events |-> 0]
  /\ faults = 0

Fault(kind) ==
  /\ kind \in FaultKinds
  /\ faults < MaxFaults
  /\ faults' = faults + 1

---------------------------------------------------------------------------
(* Producers and clocks *)

\* writeOutboxEvent inside the producer's transaction: the row appears when
\* that transaction commits, together with the business change.
WriteOutboxEvent(e) ==
  /\ e \notin committed
  /\ committed' = committed \cup {e}
  /\ UNCHANGED <<published, attempts, lock, stale, backoff, relayVars, jobVars,
                 enqueued, faults>>

LockAges(e) ==
  /\ lock[e] # 0
  /\ e \notin stale
  /\ stale' = stale \cup {e}
  /\ UNCHANGED <<committed, published, attempts, lock, backoff, relayVars,
                 jobVars, enqueued, faults>>

BackoffElapses(e) ==
  /\ e \in backoff
  /\ backoff' = backoff \ {e}
  /\ UNCHANGED <<committed, published, attempts, lock, stale, relayVars,
                 jobVars, enqueued, faults>>

---------------------------------------------------------------------------
(* relayOnce *)

\* Seeded fault: the claim forgets "attempts < MAX_ATTEMPTS".
Claimable_NoAttemptLimit ==
  {e \in committed \ published : e \notin backoff /\ (lock[e] = 0 \/ e \in stale)}

\* Seeded fault: the claim forgets "OR locked_at < staleBefore".
Claimable_NoStaleReclaim ==
  {e \in committed \ published :
     attempts[e] < MaxAttempts /\ e \notin backoff /\ lock[e] = 0}

\* The WHERE clause of the claim.
Claimable ==
  {e \in committed \ published :
     /\ attempts[e] < MaxAttempts
     /\ e \notin backoff
     /\ lock[e] = 0 \/ e \in stale}

\* Seeded fault: every claim of a process reuses the token of an earlier one.
ClaimUnpublishedOutboxEvents_SharedToken(r, batch) ==
  /\ pc[r] = "idle"
  /\ batch # {} /\ batch \subseteq Claimable /\ Cardinality(batch) <= BatchSize
  /\ attempts' = [e \in Events |-> IF e \in batch THEN attempts[e] + 1 ELSE attempts[e]]
  /\ lock' = [e \in Events |-> IF e \in batch THEN nextToken ELSE lock[e]]
  /\ stale' = stale \ batch
  /\ pc' = [pc EXCEPT ![r] = "publishing"]
  /\ todo' = [todo EXCEPT ![r] = batch]
  /\ token' = [token EXCEPT ![r] = nextToken]
  /\ UNCHANGED <<committed, published, backoff, cur, nextToken, jobVars, enqueued, faults>>

\* One UPDATE over rows selected FOR UPDATE SKIP LOCKED: the whole batch gets
\* one fresh token and loses one attempt, whether or not the relay will ever
\* get to each row.  Rows that a concurrent statement holds are skipped, so
\* any non-empty part of the claimable rows may come back.
ClaimUnpublishedOutboxEvents(r, batch) ==
  /\ pc[r] = "idle"
  /\ batch # {}
  /\ batch \subseteq Claimable
  /\ Cardinality(batch) <= BatchSize
  /\ attempts' = [e \in Events |-> IF e \in batch THEN attempts[e] + 1 ELSE attempts[e]]
  /\ lock' = [e \in Events |-> IF e \in batch THEN nextToken ELSE lock[e]]
  /\ stale' = stale \ batch
  /\ nextToken' = nextToken + 1
  /\ pc' = [pc EXCEPT ![r] = "publishing"]
  /\ todo' = [todo EXCEPT ![r] = batch]
  /\ token' = [token EXCEPT ![r] = nextToken]
  /\ UNCHANGED <<committed, published, backoff, cur, jobVars, enqueued, faults>>

\* queue.add with jobId = event id: ignored while Redis still holds a job of
\* that id, finished ones included.
PublishDomainEvent(r, e) ==
  /\ pc[r] = "publishing"
  /\ e \in todo[r]
  /\ job' = IF job[e] = "none" THEN [job EXCEPT ![e] = "waiting"] ELSE job
  /\ enqueued' = enqueued \cup {e}
  /\ cur' = [cur EXCEPT ![r] = e]
  /\ pc' = [pc EXCEPT ![r] = "marking"]
  /\ UNCHANGED <<rowVars, todo, token, nextToken, stalled, handled, faults>>

\* Seeded fault: a failed queue.add is swallowed and the row marked anyway.
PublishFails_Swallowed(r, e) ==
  /\ pc[r] = "publishing"
  /\ e \in todo[r]
  /\ Fault("publish")
  /\ cur' = [cur EXCEPT ![r] = e]
  /\ pc' = [pc EXCEPT ![r] = "marking"]
  /\ UNCHANGED <<rowVars, todo, token, nextToken, jobVars, enqueued>>

PublishFails(r, e) ==
  /\ pc[r] = "publishing"
  /\ e \in todo[r]
  /\ Fault("publish")
  /\ cur' = [cur EXCEPT ![r] = e]
  /\ pc' = [pc EXCEPT ![r] = "failing"]
  /\ UNCHANGED <<rowVars, todo, token, nextToken, jobVars, enqueued>>

\* The for loop goes to the next row of the batch; after the last one
\* "running" is reset and the relay waits for its next tick.
LoopContinues(r) ==
  LET rest == todo[r] \ {cur[r]} IN
  /\ todo' = [todo EXCEPT ![r] = rest]
  /\ cur' = [cur EXCEPT ![r] = NoEvent]
  /\ pc' = [pc EXCEPT ![r] = IF rest = {} THEN "idle" ELSE "publishing"]
  /\ token' = [token EXCEPT ![r] = IF rest = {} THEN 0 ELSE @]
  /\ UNCHANGED nextToken

\* Seeded fault: losing the lock of one row ends the tick for the others.
MarkOutboxPublished_StopsOnLostLock(r) ==
  LET e == cur[r] IN
  /\ pc[r] = "marking"
  /\ \/ /\ lock[e] = token[r]
        /\ published' = published \cup {e}
        /\ lock' = [lock EXCEPT ![e] = 0]
        /\ stale' = stale \ {e}
        /\ backoff' = backoff \ {e}
        /\ LoopContinues(r)
     \/ /\ lock[e] # token[r]
        /\ pc' = [pc EXCEPT ![r] = "idle"]
        /\ todo' = [todo EXCEPT ![r] = {}]
        /\ cur' = [cur EXCEPT ![r] = NoEvent]
        /\ token' = [token EXCEPT ![r] = 0]
        /\ UNCHANGED <<published, lock, stale, backoff, nextToken>>
  /\ UNCHANGED <<committed, attempts, jobVars, enqueued, faults>>

\* updateMany WHERE id AND lockToken: no row matches once another relay has
\* reclaimed the stale lock, and the loop goes on all the same.
MarkOutboxPublished(r) ==
  LET e == cur[r] IN
  /\ pc[r] = "marking"
  /\ IF lock[e] = token[r]
     THEN /\ published' = published \cup {e}
          /\ lock' = [lock EXCEPT ![e] = 0]
          /\ stale' = stale \ {e}
          /\ backoff' = backoff \ {e}
     ELSE UNCHANGED <<published, lock, stale, backoff>>
  /\ LoopContinues(r)
  /\ UNCHANGED <<committed, attempts, jobVars, enqueued, faults>>

MarkFails(r) ==
  /\ pc[r] = "marking"
  /\ Fault("mark")
  /\ pc' = [pc EXCEPT ![r] = "failing"]
  /\ UNCHANGED <<rowVars, todo, cur, token, nextToken, jobVars, enqueued>>

\* Seeded fault: the catch clause updates the row by id alone.
MarkOutboxFailed_AnyToken(r) ==
  LET e == cur[r] IN
  /\ pc[r] = "failing"
  /\ lock' = [lock EXCEPT ![e] = 0]
  /\ stale' = stale \ {e}
  /\ backoff' = backoff \cup {e}
  /\ LoopContinues(r)
  /\ UNCHANGED <<committed, published, attempts, jobVars, enqueued, faults>>

\* The catch clause: release the lock under the same token and back off.
MarkOutboxFailed(r) ==
  LET e == cur[r] IN
  /\ pc[r] = "failing"
  /\ IF lock[e] = token[r]
     THEN /\ lock' = [lock EXCEPT ![e] = 0]
          /\ stale' = stale \ {e}
          /\ backoff' = backoff \cup {e}
     ELSE UNCHANGED <<lock, stale, backoff>>
  /\ LoopContinues(r)
  /\ UNCHANGED <<committed, published, attempts, jobVars, enqueued, faults>>

\* Leaving relayOnce with rows of the batch unfinished: they keep their lock.
BatchAbandoned(r) ==
  /\ pc' = [pc EXCEPT ![r] = "idle"]
  /\ todo' = [todo EXCEPT ![r] = {}]
  /\ cur' = [cur EXCEPT ![r] = NoEvent]
  /\ token' = [token EXCEPT ![r] = 0]
  /\ UNCHANGED <<rowVars, nextToken, jobVars, enqueued>>

\* markOutboxFailed throws: the outer catch ends the tick, and the rows of
\* the batch that were not reached stay locked.
RelayTickAborts(r) ==
  /\ pc[r] = "failing"
  /\ Fault("mark")
  /\ BatchAbandoned(r)

\* The process dies and is restarted.
RelayCrashes(r) ==
  /\ pc[r] # "idle"
  /\ Fault("crash")
  /\ BatchAbandoned(r)

---------------------------------------------------------------------------
(* The event-bus queue and its worker *)

JobMoves(e, from, to) ==
  /\ job[e] = from
  /\ job' = [job EXCEPT ![e] = to]

WorkerTakesJob(e) ==
  /\ JobMoves(e, "waiting", "active")
  /\ UNCHANGED <<rowVars, relayVars, stalled, handled, enqueued, faults>>

\* Every registered handler resolved.
HandlerSucceeds(e) ==
  /\ JobMoves(e, "active", "handled")
  /\ handled' = [handled EXCEPT ![e] = @ + 1]
  /\ UNCHANGED <<rowVars, relayVars, stalled, enqueued, faults>>

JobCompletes(e) ==
  /\ JobMoves(e, "handled", "completed")
  /\ UNCHANGED <<rowVars, relayVars, stalled, handled, enqueued, faults>>

\* Some handler rejected: the job was added without "attempts", so BullMQ
\* runs it once and moves it to the failed set.
HandlerFails(e) ==
  /\ JobMoves(e, "active", "failed")
  /\ Fault("handler")
  /\ UNCHANGED <<rowVars, relayVars, stalled, handled, enqueued>>

\* Seeded fault: a stalled job is failed at once.
JobStalls_NeverRetried(e) ==
  /\ job[e] \in {"active", "handled"}
  /\ Fault("stall")
  /\ job' = [job EXCEPT ![e] = "failed"]
  /\ stalled' = stalled \cup {e}
  /\ UNCHANGED <<rowVars, relayVars, handled, enqueued>>

\* The worker stops renewing the job's lock (crash, blocked event loop): the
\* first time BullMQ moves the job back to waiting, the second time
\* (maxStalledCount) to failed.
JobStalls(e) ==
  /\ job[e] \in {"active", "handled"}
  /\ Fault("stall")
  /\ job' = [job EXCEPT ![e] = IF e \in stalled THEN "failed" ELSE "waiting"]
  /\ stalled' = stalled \cup {e}
  /\ UNCHANGED <<rowVars, relayVars, handled, enqueued>>

\* removeOnComplete / removeOnFail: newer jobs push a finished one out.
JobEvicted(e) ==
  /\ job[e] \in {"completed", "failed"}
  /\ job' = [job EXCEPT ![e] = "none"]
  /\ stalled' = stalled \ {e}
  /\ UNCHANGED <<rowVars, relayVars, handled, enqueued, faults>>

---------------------------------------------------------------------------
Tick(r) == \E batch \in SUBSET Claimable : ClaimUnpublishedOutboxEvents(r, batch)

RelayStep(r) ==
  \/ \E e \in todo[r] : PublishDomainEvent(r, e)
  \/ MarkOutboxPublished(r)
  \/ MarkOutboxFailed(r)

RelayFault(r) ==
  \/ \E e \in todo[r] : PublishFails(r, e)
  \/ MarkFails(r)
  \/ RelayTickAborts(r)
  \/ RelayCrashes(r)

JobStep(e) == WorkerTakesJob(e) \/ HandlerSucceeds(e) \/ JobCompletes(e)

JobFault(e) == HandlerFails(e) \/ JobStalls(e)

Next ==
  \/ \E r \in Relays : Tick(r) \/ RelayStep(r) \/ RelayFault(r)
  \/ \E e \in Events :
       \/ WriteOutboxEvent(e) \/ LockAges(e) \/ BackoffElapses(e)
       \/ JobStep(e) \/ JobFault(e) \/ JobEvicted(e)

Spec == Init /\ [][Next]_vars

\* setInterval keeps ticking, a relay's pending I/O call returns, clocks
\* advance and the BullMQ worker keeps taking jobs.  Nothing is assumed of
\* producers, of failures or of eviction.
Fairness ==
  /\ \A r \in Relays : WF_vars(Tick(r)) /\ WF_vars(RelayStep(r))
  /\ \A e \in Events : /\ WF_vars(LockAges(e))
                       /\ WF_vars(BackoffElapses(e))
                       /\ WF_vars(JobStep(e))

FairSpec == Spec /\ Fairness

---------------------------------------------------------------------------
(* Properties *)

\* The row a relay is publishing or marking, or still has to publish: what
\* one of its claims has already paid an attempt for.
Carried(r) == IF pc[r] = "failing" THEN todo[r] \ {cur[r]} ELSE todo[r]

\* No event is marked published unless it reached the bus: whatever relays
\* race, stall or crash, published_at never hides an event from the bus.
PublishedReachedBus == published \subseteq enqueued

\* At most one relay can still mark a given row: two relays that both carry
\* it after a stale lock was reclaimed never hold the row's current token.
OneMarkerPerRow ==
  \A r, s \in Relays : \A e \in todo[r] \cap todo[s] :
    lock[e] = token[r] /\ lock[e] = token[s] => r = s

\* Slowness alone never loses an event: a row that ran out of attempts
\* without ever reaching the bus, and that no relay still carries, was paid
\* for by MaxAttempts separate environment failures, although an attempt is
\* spent on every row of a batch when it is claimed and stale locks are
\* reclaimed while their holder is still working.
GivenUpOnlyByFaults ==
  \A e \in committed \ enqueued :
    (/\ attempts[e] = MaxAttempts
     /\ \A r \in Relays : e \notin Carried(r))
    => faults >= MaxAttempts

\* While nothing failed, a row is locked by a relay that has still to mark or
\* release it, and an event on the bus is waiting for the worker, in its hands,
\* or was handled: no schedule of claims, stale locks, marks and evictions of
\* finished jobs leaves a row locked by nobody or an event unhandled.
MovesOnUnlessFaults ==
  faults = 0 => \A e \in Events :
    /\ lock[e] # 0 => \E r \in Relays : e \in todo[r] /\ token[r] = lock[e]
    /\ e \in enqueued /\ handled[e] = 0 => job[e] \in {"waiting", "active"}

\* Attempts, locks and jobs are lost to failures only, whatever the schedule of
\* relayOnce, the worker and the stale-lock reclaims.
StuckOnlyByFaults == GivenUpOnlyByFaults /\ MovesOnUnlessFaults

\* A row that is published is final: a relay that lost its lock long ago
\* cannot release, lock, count or unpublish it.
PublishedIsFinal ==
  [][\A e \in published :
       /\ e \in published'
       /\ lock'[e] = lock[e]
       /\ attempts'[e] = attempts[e]
       /\ (e \in backoff') = (e \in backoff)]_vars

\* Every recorded event is eventually handled: "BullMQ and the outbox relay
\* both guarantee at-least-once" (docs/architecture.md).
DeliveredAtLeastOnce == \A e \in Events : (e \in committed) ~> (handled[e] > 0)

\* No row stays locked by a relay that is gone: it is eventually published,
\* released or out of attempts.
LocksAreReleased ==
  \A e \in Events : (lock[e] # 0) ~> (lock[e] = 0 \/ attempts[e] = MaxAttempts)

\* The outbox implements the promise stated in EventDelivery.
Delivery == INSTANCE EventDelivery WITH
  recorded <- committed, announced <- enqueued, settled <- published

ImplementsDelivery == Delivery!Spec
=============================================================================
