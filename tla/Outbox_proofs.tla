--------------------------- MODULE Outbox_proofs ---------------------------
(***************************************************************************)
(* Theorems about Outbox, for every set of events and relays, every limit  *)
(* on attempts and batches, and every choice and number of failures.       *)
(*                                                                         *)
(* The argument: a lock token is used by one claim only (TokensFresh,      *)
(* TokensUnique), so a relay whose lock was reclaimed can never match the  *)
(* row again; a relay reaches a mark only through a successful             *)
(* publication (WorkInHand); and a published row has no lock left to match *)
(* (PublishedUnlocked).  Attempts are a matter of counting: each attempt   *)
(* of an event that never reached the bus is in the hands of a relay or    *)
(* was lost with a failure of its own (AttemptsPaidFor).  While nothing    *)
(* failed, a relay that is done with a batch has marked or released every  *)
(* row it locked (LocksHeld) and a job is gone only when the handlers ran  *)
(* (JobsHandled).                                                          *)
(***************************************************************************)
EXTENDS Outbox, FiniteSetTheorems, TLAPS

TokensFresh ==
  /\ \A e \in Events : lock[e] < nextToken
  /\ \A r \in Relays : token[r] < nextToken

TokensUnique ==
  \A r, s \in Relays : token[r] = token[s] /\ token[r] # 0 => r = s

WorkInHand ==
  \A r \in Relays :
    /\ pc[r] = "idle" => todo[r] = {}
    /\ pc[r] # "idle" => token[r] # 0
    /\ pc[r] \in {"marking", "failing"} => cur[r] \in todo[r]
    /\ pc[r] = "marking" => cur[r] \in enqueued
    /\ todo[r] \subseteq committed

PublishedUnlocked == \A e \in published : lock[e] = 0 /\ e \notin backoff

IInv ==
  /\ TypeOK
  /\ TokensFresh
  /\ TokensUnique
  /\ WorkInHand
  /\ PublishedUnlocked
  /\ PublishedReachedBus

USE OutboxAssumption

\* Actions grouped by what they leave alone: a step of the queue, the clocks
\* or the producers changes neither tokens nor the relays' progress.
LEMMA InitIInv == Init => IInv
BY DEF Init, IInv, TypeOK, TokensFresh, TokensUnique, WorkInHand,
       PublishedUnlocked, PublishedReachedBus, JobStates

LEMMA ClaimIInv ==
  ASSUME IInv, NEW r \in Relays, NEW batch \in SUBSET Claimable,
         ClaimUnpublishedOutboxEvents(r, batch)
  PROVE  IInv'
<1> USE DEF ClaimUnpublishedOutboxEvents, jobVars
<1>0. batch \subseteq Events
  BY DEF IInv, TypeOK, Claimable
<1>1. TypeOK'
  <2>1. \A e \in batch : attempts[e] + 1 \in 0 .. MaxAttempts
    BY <1>0 DEF IInv, TypeOK, Claimable
  <2>2. attempts' \in [Events -> 0 .. MaxAttempts]
    BY <2>1 DEF IInv, TypeOK
  <2>3. QED
    BY <2>2, <1>0 DEF IInv, TypeOK
<1>2. TokensFresh'
  BY DEF IInv, TypeOK, TokensFresh
<1>3. TokensUnique'
  BY DEF IInv, TypeOK, TokensFresh, TokensUnique
<1>4. WorkInHand'
  BY DEF IInv, TypeOK, WorkInHand, Claimable
<1>5. PublishedUnlocked' /\ PublishedReachedBus'
  BY DEF IInv, TypeOK, PublishedUnlocked, PublishedReachedBus, Claimable
<1> QED
  BY <1>1, <1>2, <1>3, <1>4, <1>5 DEF IInv

LEMMA PublishIInv ==
  ASSUME IInv, NEW r \in Relays, NEW e \in todo[r],
         PublishDomainEvent(r, e) \/ PublishFails(r, e)
  PROVE  IInv'
<1> USE DEF PublishDomainEvent, PublishFails, Fault, rowVars, jobVars
<1>0. e \in Events
  BY DEF IInv, TypeOK
<1>1. TypeOK'
  BY <1>0 DEF IInv, TypeOK, JobStates
<1>2. TokensFresh' /\ TokensUnique' /\ PublishedUnlocked' /\ PublishedReachedBus'
  BY DEF IInv, TokensFresh, TokensUnique, PublishedUnlocked, PublishedReachedBus
<1>3. WorkInHand'
  BY DEF IInv, TypeOK, WorkInHand
<1> QED
  BY <1>1, <1>2, <1>3 DEF IInv

LEMMA MarkIInv ==
  ASSUME IInv, NEW r \in Relays, MarkOutboxPublished(r) \/ MarkOutboxFailed(r)
  PROVE  IInv'
<1> USE DEF MarkOutboxPublished, MarkOutboxFailed, LoopContinues, jobVars
<1>0. /\ cur[r] \in Events
      /\ cur[r] \in committed
      /\ pc[r] = "marking" => cur[r] \in enqueued
      /\ pc[r] # "idle" /\ token[r] # 0
  BY DEF IInv, TypeOK, WorkInHand
<1>1. TypeOK'
  BY <1>0 DEF IInv, TypeOK
<1>2. TokensFresh'
  BY <1>0 DEF IInv, TypeOK, TokensFresh
<1>3. TokensUnique'
  BY DEF IInv, TypeOK, TokensUnique
<1>4. WorkInHand'
  BY DEF IInv, TypeOK, WorkInHand
<1>5. PublishedUnlocked'
  BY <1>0 DEF IInv, TypeOK, PublishedUnlocked
<1>6. PublishedReachedBus'
  BY <1>0 DEF IInv, PublishedReachedBus
<1> QED
  BY <1>1, <1>2, <1>3, <1>4, <1>5, <1>6 DEF IInv

LEMMA RelayFaultIInv ==
  ASSUME IInv, NEW r \in Relays,
         MarkFails(r) \/ RelayTickAborts(r) \/ RelayCrashes(r)
  PROVE  IInv'
<1> USE DEF MarkFails, RelayTickAborts, RelayCrashes, BatchAbandoned, Fault,
            rowVars, jobVars
<1>1. TypeOK'
  BY DEF IInv, TypeOK
<1>2. TokensFresh' /\ PublishedUnlocked' /\ PublishedReachedBus'
  BY DEF IInv, TypeOK, TokensFresh, PublishedUnlocked, PublishedReachedBus
<1>3. TokensUnique'
  BY DEF IInv, TypeOK, TokensUnique
<1>4. WorkInHand'
  BY DEF IInv, TypeOK, WorkInHand
<1> QED
  BY <1>1, <1>2, <1>3, <1>4 DEF IInv

LEMMA EventStepIInv ==
  ASSUME IInv, NEW e \in Events,
         \/ WriteOutboxEvent(e) \/ LockAges(e) \/ BackoffElapses(e)
         \/ JobStep(e) \/ JobFault(e) \/ JobEvicted(e)
  PROVE  IInv'
<1> USE DEF WriteOutboxEvent, LockAges, BackoffElapses, JobStep, WorkerTakesJob,
            HandlerSucceeds, JobCompletes, JobFault, HandlerFails, JobStalls,
            JobEvicted, JobMoves, Fault, rowVars, relayVars, jobVars
<1>1. TypeOK'
  BY DEF IInv, TypeOK, JobStates
<1>2. TokensFresh' /\ TokensUnique' /\ PublishedUnlocked' /\ PublishedReachedBus'
  BY DEF IInv, TokensFresh, TokensUnique, PublishedUnlocked, PublishedReachedBus
<1>3. WorkInHand'
  BY DEF IInv, WorkInHand
<1> QED
  BY <1>1, <1>2, <1>3 DEF IInv

LEMMA NextIInv == IInv /\ [Next]_vars => IInv'
<1> SUFFICES ASSUME IInv, [Next]_vars PROVE IInv'
  OBVIOUS
<1>1. ASSUME NEW r \in Relays, Tick(r) PROVE IInv'
  BY <1>1, ClaimIInv DEF Tick
<1>2. ASSUME NEW r \in Relays, RelayStep(r) PROVE IInv'
  BY <1>2, PublishIInv, MarkIInv DEF RelayStep
<1>3. ASSUME NEW r \in Relays, RelayFault(r) PROVE IInv'
  BY <1>3, PublishIInv, RelayFaultIInv DEF RelayFault
<1>4. ASSUME NEW e \in Events,
             \/ WriteOutboxEvent(e) \/ LockAges(e) \/ BackoffElapses(e)
             \/ JobStep(e) \/ JobFault(e) \/ JobEvicted(e)
      PROVE  IInv'
  BY <1>4, EventStepIInv
<1>5. CASE UNCHANGED vars
  BY <1>5 DEF vars, rowVars, relayVars, jobVars, IInv, TypeOK, TokensFresh,
     TokensUnique, WorkInHand, PublishedUnlocked, PublishedReachedBus
<1> QED
  BY <1>1, <1>2, <1>3, <1>4, <1>5 DEF Next

LEMMA Invariance == Spec => []IInv
BY InitIInv, NextIInv, PTL DEF Spec

\* Every column and every local variable of a relay stays in its type; in
\* particular no interleaving of claims drives attempts past MAX_ATTEMPTS.
THEOREM TypeCorrect == Spec => []TypeOK
BY Invariance, PTL DEF IInv

\* published_at is only ever set on an event that reached the bus.
THEOREM PublishedReachedBusAlways == Spec => []PublishedReachedBus
BY Invariance, PTL DEF IInv

\* However many relays run and however long they stall, at most one of them
\* can still mark a row.
THEOREM OneMarkerPerRowAlways == Spec => []OneMarkerPerRow
<1>1. IInv => OneMarkerPerRow
  BY DEF IInv, TypeOK, TokensUnique, WorkInHand, OneMarkerPerRow
<1> QED
  BY <1>1, Invariance, PTL

---------------------------------------------------------------------------
(* Attempts                                                                *)

Carriers(e) == {r \in Relays : e \in Carried(r)}

AttemptsPaidFor ==
  \A e \in Events \ enqueued : attempts[e] <= faults + Cardinality(Carriers(e))

LEMMA CarriersFinite ==
  ASSUME NEW e
  PROVE  /\ IsFiniteSet(Carriers(e)) /\ Cardinality(Carriers(e)) \in Nat
         /\ IsFiniteSet(Carriers(e)') /\ Cardinality(Carriers(e)') \in Nat
BY FS_Subset, FS_CardinalityType DEF Carriers

LEMMA CarriersKept ==
  ASSUME NEW e, \A r \in Relays : e \in Carried(r) => e \in Carried(r)'
  PROVE  Cardinality(Carriers(e)) <= Cardinality(Carriers(e)')
<1>1. Carriers(e) \in SUBSET Carriers(e)'
  BY DEF Carriers
<1> QED
  BY <1>1, CarriersFinite, FS_Subset

LEMMA OneCarrierLost ==
  ASSUME NEW e, NEW r \in Relays,
         \A s \in Relays \ {r} : e \in Carried(s) => e \in Carried(s)'
  PROVE  Cardinality(Carriers(e)) <= Cardinality(Carriers(e)') + 1
<1>1. Carriers(e) \ {r} \in SUBSET Carriers(e)'
  BY DEF Carriers
<1>2. Cardinality(Carriers(e) \ {r}) <= Cardinality(Carriers(e)')
  BY <1>1, CarriersFinite, FS_Subset
<1>3. Cardinality(Carriers(e) \ {r}) =
        IF r \in Carriers(e) THEN Cardinality(Carriers(e)) - 1
                            ELSE Cardinality(Carriers(e))
  BY CarriersFinite, FS_RemoveElement
<1> QED
  BY <1>2, <1>3, CarriersFinite

LEMMA OneCarrierMore ==
  ASSUME NEW e, NEW r \in Relays, e \notin Carried(r), (e \in Carried(r))',
         \A s \in Relays \ {r} : e \in Carried(s) => e \in Carried(s)'
  PROVE  Cardinality(Carriers(e)) + 1 <= Cardinality(Carriers(e)')
<1>1. Carriers(e) \cup {r} \in SUBSET Carriers(e)' /\ r \notin Carriers(e)
  BY DEF Carriers
<1>2. Cardinality(Carriers(e) \cup {r}) = Cardinality(Carriers(e)) + 1
  BY <1>1, CarriersFinite, FS_AddElement
<1>3. Cardinality(Carriers(e) \cup {r}) <= Cardinality(Carriers(e)')
  BY <1>1, CarriersFinite, FS_Subset
<1> QED
  BY <1>2, <1>3, CarriersFinite

\* A failure pays for the one attempt of each event that it may waste.
LEMMA FaultPays ==
  ASSUME IInv, AttemptsPaidFor, faults' = faults + 1, NEW r \in Relays,
         UNCHANGED <<attempts, enqueued>>,
         \A s \in Relays \ {r} : Carried(s)' = Carried(s)
  PROVE  AttemptsPaidFor'
<1> SUFFICES ASSUME NEW e \in Events \ enqueued
             PROVE  attempts[e] <= faults + 1 + Cardinality(Carriers(e)')
  BY DEF AttemptsPaidFor, Carriers
<1>1. attempts[e] <= faults + Cardinality(Carriers(e))
  BY DEF AttemptsPaidFor
<1>2. Cardinality(Carriers(e)) <= Cardinality(Carriers(e)') + 1
  BY OneCarrierLost
<1>3. attempts[e] \in Nat /\ faults \in Nat
  BY DEF IInv, TypeOK
<1> QED
  BY <1>1, <1>2, <1>3, CarriersFinite

\* A step that wastes no attempt of an unannounced event keeps its carriers.
LEMMA NothingLost ==
  ASSUME IInv, AttemptsPaidFor, attempts' = attempts,
         faults' \in Nat, faults <= faults', enqueued \subseteq enqueued',
         \A s \in Relays : \A e \in Events \ enqueued' :
           e \in Carried(s) => e \in Carried(s)'
  PROVE  AttemptsPaidFor'
<1> SUFFICES ASSUME NEW e \in Events \ enqueued'
             PROVE  attempts[e] <= faults' + Cardinality(Carriers(e)')
  BY DEF AttemptsPaidFor, Carriers
<1>1. attempts[e] <= faults + Cardinality(Carriers(e))
  BY DEF AttemptsPaidFor
<1>2. Cardinality(Carriers(e)) <= Cardinality(Carriers(e)')
  BY CarriersKept
<1>3. attempts[e] \in Nat /\ faults \in Nat
  BY DEF IInv, TypeOK
<1> QED
  BY <1>1, <1>2, <1>3, CarriersFinite

\* A claim spends one attempt of each row of the batch and carries it.
LEMMA ClaimPaysFor ==
  ASSUME IInv, AttemptsPaidFor, NEW r \in Relays, NEW batch \in SUBSET Claimable,
         ClaimUnpublishedOutboxEvents(r, batch)
  PROVE  AttemptsPaidFor'
<1> USE DEF ClaimUnpublishedOutboxEvents
<1>1. /\ Carried(r) = {} /\ Carried(r)' = batch
      /\ \A s \in Relays \ {r} : Carried(s)' = Carried(s)
  BY DEF Carried, IInv, TypeOK, WorkInHand
<1>2. ASSUME NEW e \in Events \ enqueued
      PROVE  attempts'[e] <= faults + Cardinality(Carriers(e)')
  <2>1. attempts[e] <= faults + Cardinality(Carriers(e))
    BY DEF AttemptsPaidFor
  <2>2. attempts[e] \in Nat /\ faults \in Nat
    BY DEF IInv, TypeOK
  <2>3. CASE e \in batch
    <3>1. Cardinality(Carriers(e)) + 1 <= Cardinality(Carriers(e)')
      BY <1>1, <2>3, OneCarrierMore
    <3>2. attempts'[e] = attempts[e] + 1
      BY <2>3
    <3> QED
      BY <2>1, <2>2, <3>1, <3>2, CarriersFinite
  <2>4. CASE e \notin batch
    <3>1. Cardinality(Carriers(e)) <= Cardinality(Carriers(e)')
      BY <1>1, CarriersKept
    <3>2. attempts'[e] = attempts[e]
      BY <2>4
    <3> QED
      BY <2>1, <2>2, <3>1, <3>2, CarriersFinite
  <2> QED
    BY <2>3, <2>4
<1> QED
  BY <1>2 DEF AttemptsPaidFor, Carriers

\* Reaching the bus, the mark and the release end the need for an attempt.
LEMMA RelayStepPaysFor ==
  ASSUME IInv, AttemptsPaidFor, NEW r \in Relays, RelayStep(r)
  PROVE  AttemptsPaidFor'
<1>0. faults \in Nat
  BY DEF IInv, TypeOK
<1>1. ASSUME NEW e \in todo[r], PublishDomainEvent(r, e) PROVE AttemptsPaidFor'
  <2>1. \A s \in Relays : Carried(s)' = Carried(s)
    BY <1>1 DEF PublishDomainEvent, Carried, IInv, TypeOK
  <2> QED
    BY <1>0, <1>1, <2>1, NothingLost DEF PublishDomainEvent, rowVars
<1>2. CASE MarkOutboxPublished(r) \/ MarkOutboxFailed(r)
  <2>1. \A s \in Relays : \A e \in Events \ enqueued :
          e \in Carried(s) => e \in Carried(s)'
    BY <1>2 DEF MarkOutboxPublished, MarkOutboxFailed, LoopContinues, Carried,
       IInv, TypeOK, WorkInHand
  <2>2. UNCHANGED <<attempts, enqueued, faults>>
    BY <1>2 DEF MarkOutboxPublished, MarkOutboxFailed
  <2> QED
    BY <1>0, <2>1, <2>2, NothingLost
<1> QED
  BY <1>1, <1>2 DEF RelayStep

LEMMA RelayFaultPaysFor ==
  ASSUME IInv, AttemptsPaidFor, NEW r \in Relays, RelayFault(r)
  PROVE  AttemptsPaidFor'
<1>1. /\ faults' = faults + 1
      /\ UNCHANGED <<attempts, enqueued>>
      /\ \A s \in Relays \ {r} : Carried(s)' = Carried(s)
  BY DEF RelayFault, PublishFails, MarkFails, RelayTickAborts, RelayCrashes,
     BatchAbandoned, Fault, rowVars, Carried, IInv, TypeOK
<1> QED
  BY <1>1, FaultPays

LEMMA EventStepPaysFor ==
  ASSUME IInv, AttemptsPaidFor, NEW e \in Events,
         \/ WriteOutboxEvent(e) \/ LockAges(e) \/ BackoffElapses(e)
         \/ JobStep(e) \/ JobFault(e) \/ JobEvicted(e)
  PROVE  AttemptsPaidFor'
<1>0. faults \in Nat
  BY DEF IInv, TypeOK
<1>1. /\ UNCHANGED <<attempts, enqueued, pc, todo, cur>>
      /\ faults' = faults \/ faults' = faults + 1
  BY DEF WriteOutboxEvent, LockAges, BackoffElapses, JobStep, WorkerTakesJob,
     HandlerSucceeds, JobCompletes, JobFault, HandlerFails, JobStalls,
     JobEvicted, Fault, rowVars, relayVars, jobVars
<1>2. \A s \in Relays : Carried(s)' = Carried(s)
  BY <1>1 DEF Carried
<1> QED
  BY <1>0, <1>1, <1>2, NothingLost

LEMMA NextPaysFor == IInv /\ AttemptsPaidFor /\ [Next]_vars => AttemptsPaidFor'
<1> SUFFICES ASSUME IInv, AttemptsPaidFor, [Next]_vars PROVE AttemptsPaidFor'
  OBVIOUS
<1>1. ASSUME NEW r \in Relays, Tick(r) PROVE AttemptsPaidFor'
  BY <1>1, ClaimPaysFor DEF Tick
<1>2. ASSUME NEW r \in Relays, RelayStep(r) \/ RelayFault(r) PROVE AttemptsPaidFor'
  BY <1>2, RelayStepPaysFor, RelayFaultPaysFor
<1>3. ASSUME NEW e \in Events,
             \/ WriteOutboxEvent(e) \/ LockAges(e) \/ BackoffElapses(e)
             \/ JobStep(e) \/ JobFault(e) \/ JobEvicted(e)
      PROVE  AttemptsPaidFor'
  BY <1>3, EventStepPaysFor
<1>4. CASE UNCHANGED vars
  <2>1. UNCHANGED <<attempts, enqueued, pc, todo, cur, faults>>
    BY <1>4 DEF vars, rowVars, relayVars
  <2>2. (\A s \in Relays : Carried(s)' = Carried(s)) /\ faults \in Nat
    BY <2>1 DEF Carried, IInv, TypeOK
  <2> QED
    BY <2>1, <2>2, NothingLost
<1> QED
  BY <1>1, <1>2, <1>3, <1>4 DEF Next

LEMMA AttemptsAlwaysPaidFor == Spec => []AttemptsPaidFor
<1>1. Init => AttemptsPaidFor
  BY CarriersFinite DEF Init, AttemptsPaidFor
<1> QED
  BY <1>1, Invariance, NextPaysFor, PTL DEF Spec

\* A row out of attempts that never reached the bus and that no relay still
\* carries was paid for by as many separate failures, however many relays
\* race for it and however often a lock ages under a working holder.
THEOREM GivenUpOnlyByFaultsAlways == Spec => []GivenUpOnlyByFaults
<1>1. IInv /\ AttemptsPaidFor => GivenUpOnlyByFaults
  <2> SUFFICES ASSUME IInv, AttemptsPaidFor, NEW e \in committed \ enqueued,
                      attempts[e] = MaxAttempts,
                      \A r \in Relays : e \notin Carried(r)
               PROVE  faults >= MaxAttempts
    BY DEF GivenUpOnlyByFaults
  <2>1. Carriers(e) = {}
    BY DEF Carriers
  <2>2. Cardinality(Carriers(e)) = 0
    BY <2>1, FS_EmptySet
  <2>3. attempts[e] <= faults + Cardinality(Carriers(e)) /\ faults \in Nat
    BY DEF IInv, TypeOK, AttemptsPaidFor
  <2> QED
    BY <2>2, <2>3
<1> QED
  BY <1>1, Invariance, AttemptsAlwaysPaidFor, PTL

---------------------------------------------------------------------------
(* What is on its way while nothing failed                                 *)

LocksHeld ==
  faults = 0 => \A e \in Events :
    lock[e] # 0 => \E r \in Relays : e \in todo[r] /\ token[r] = lock[e]

\* A finished job, evicted or not, has run the handlers.
JobsHandled ==
  faults = 0 => \A e \in Events :
    /\ job[e] # "failed"
    /\ job[e] \in {"handled", "completed"} => handled[e] > 0
    /\ job[e] = "none" /\ e \in enqueued => handled[e] > 0

LEMMA FaultsNeverShrink == IInv /\ Next => faults \in Nat /\ faults' \in Nat /\ (faults' = 0 => faults = 0)
<1> SUFFICES ASSUME IInv, Next PROVE faults' = faults \/ faults' = faults + 1
  BY DEF IInv, TypeOK
<1> QED
  BY Zenon DEF Next, Tick, ClaimUnpublishedOutboxEvents, RelayStep, PublishDomainEvent,
     MarkOutboxPublished, MarkOutboxFailed, RelayFault, PublishFails, MarkFails,
     RelayTickAborts, RelayCrashes, BatchAbandoned, Fault, WriteOutboxEvent, LockAges,
     BackoffElapses, JobStep, WorkerTakesJob, HandlerSucceeds, JobCompletes, JobFault,
     HandlerFails, JobStalls, JobEvicted

LEMMA FaultsCount ==
  ASSUME IInv, \/ \E r \in Relays : RelayFault(r)
               \/ \E e \in Events : JobFault(e)
  PROVE  faults' # 0
BY DEF RelayFault, PublishFails, MarkFails, RelayTickAborts, RelayCrashes, BatchAbandoned,
   JobFault, HandlerFails, JobStalls, Fault, IInv, TypeOK

\* A claim takes rows nobody holds, or takes them over; a mark or a release
\* unlocks the row, unless its lock is another relay's by now.
LEMMA LocksStayHeld == IInv /\ LocksHeld /\ [Next]_vars => LocksHeld'
<1> SUFFICES ASSUME IInv, LocksHeld, [Next]_vars, faults' = 0, NEW e \in Events, lock'[e] # 0
             PROVE  \E r \in Relays : e \in todo'[r] /\ token'[r] = lock'[e]
  BY DEF LocksHeld
<1>0. faults = 0
  BY FaultsNeverShrink DEF vars
<1>1. lock[e] # 0 => \E r \in Relays : e \in todo[r] /\ token[r] = lock[e]
  BY <1>0 DEF LocksHeld
<1>2. ASSUME NEW r \in Relays, NEW batch \in SUBSET Claimable, ClaimUnpublishedOutboxEvents(r, batch)
      PROVE  \E s \in Relays : e \in todo'[s] /\ token'[s] = lock'[e]
  <2>1. /\ todo' = [todo EXCEPT ![r] = batch] /\ token' = [token EXCEPT ![r] = nextToken]
        /\ lock' = [d \in Events |-> IF d \in batch THEN nextToken ELSE lock[d]]
        /\ todo[r] = {}
    BY <1>2 DEF ClaimUnpublishedOutboxEvents, IInv, WorkInHand
  <2>2. CASE e \in batch
    BY <2>1, <2>2 DEF IInv, TypeOK
  <2>3. CASE e \notin batch
    BY <1>1, <2>1, <2>3 DEF IInv, TypeOK
  <2> QED
    BY <2>2, <2>3
<1>3. ASSUME NEW r \in Relays, MarkOutboxPublished(r) \/ MarkOutboxFailed(r)
      PROVE  \E s \in Relays : e \in todo'[s] /\ token'[s] = lock'[e]
  <2>1. /\ pc[r] # "idle" /\ cur[r] \in todo[r] /\ cur[r] \in Events
        /\ lock' = lock \/ lock' = [lock EXCEPT ![cur[r]] = 0]
        /\ lock[cur[r]] = token[r] => lock'[cur[r]] = 0
        /\ \A s \in Relays \ {r} : todo'[s] = todo[s] /\ token'[s] = token[s]
        /\ todo'[r] = todo[r] \ {cur[r]}
        /\ token'[r] = IF todo[r] \ {cur[r]} = {} THEN 0 ELSE token[r]
    BY <1>3 DEF MarkOutboxPublished, MarkOutboxFailed, LoopContinues, IInv, TypeOK, WorkInHand
  <2>2. lock'[e] = lock[e]
    BY <2>1 DEF IInv, TypeOK
  <2>3. PICK s \in Relays : e \in todo[s] /\ token[s] = lock[e]
    BY <1>1, <2>2
  <2>4. CASE s # r
    BY <2>1, <2>2, <2>3, <2>4
  <2>5. CASE s = r
    <3>1. e # cur[r]
      BY <2>1, <2>3, <2>5
    <3> QED
      BY <2>1, <2>2, <2>3, <2>5, <3>1
  <2> QED
    BY <2>4, <2>5
<1>4. CASE UNCHANGED <<lock, todo, token>>
  BY <1>1, <1>4
<1>5. ASSUME NEW r \in Relays, NEW d \in todo[r], PublishDomainEvent(r, d)
      PROVE  UNCHANGED <<lock, todo, token>>
  BY <1>5 DEF PublishDomainEvent, rowVars
<1>6. ASSUME NEW d \in Events,
             WriteOutboxEvent(d) \/ LockAges(d) \/ BackoffElapses(d) \/ JobStep(d) \/ JobEvicted(d)
      PROVE  UNCHANGED <<lock, todo, token>>
  BY <1>6 DEF WriteOutboxEvent, LockAges, BackoffElapses, JobStep, WorkerTakesJob,
     HandlerSucceeds, JobCompletes, JobEvicted, rowVars, relayVars
<1>7. CASE UNCHANGED vars
  BY <1>4, <1>7 DEF vars, rowVars, relayVars
<1> QED
  BY <1>2, <1>3, <1>4, <1>5, <1>6, <1>7, FaultsCount DEF Next, Tick, RelayStep

\* A job that the queue takes waits; the worker runs the handlers before it
\* completes, and only a completed job is evicted.
LEMMA JobsStayHandled == IInv /\ JobsHandled /\ [Next]_vars => JobsHandled'
<1> SUFFICES ASSUME IInv, JobsHandled, [Next]_vars, faults' = 0, NEW e \in Events
             PROVE  /\ job'[e] # "failed"
                    /\ job'[e] \in {"handled", "completed"} => handled'[e] > 0
                    /\ job'[e] = "none" /\ e \in enqueued' => handled'[e] > 0
  BY DEF JobsHandled
<1>0. faults = 0
  BY FaultsNeverShrink DEF vars
<1> USE DEF IInv, TypeOK
<1>1. /\ job[e] # "failed"
      /\ job[e] \in {"handled", "completed"} => handled[e] > 0
      /\ job[e] = "none" /\ e \in enqueued => handled[e] > 0
  BY <1>0 DEF JobsHandled
<1>2. CASE UNCHANGED <<job, handled, enqueued>>
  BY <1>1, <1>2
<1>3. ASSUME NEW r \in Relays, Tick(r) \/ MarkOutboxPublished(r) \/ MarkOutboxFailed(r)
      PROVE  UNCHANGED <<job, handled, enqueued>>
  BY <1>3 DEF Tick, ClaimUnpublishedOutboxEvents, MarkOutboxPublished, MarkOutboxFailed, jobVars
<1>4. ASSUME NEW r \in Relays, NEW d \in todo[r], PublishDomainEvent(r, d)
      PROVE  /\ enqueued' = enqueued \cup {d} /\ handled' = handled
             /\ job'[e] = job[e] \/ job'[e] = "waiting"
             /\ job'[d] # "none"
  BY <1>4 DEF PublishDomainEvent
<1>5. ASSUME NEW d \in Events, WriteOutboxEvent(d) \/ LockAges(d) \/ BackoffElapses(d)
      PROVE  UNCHANGED <<job, handled, enqueued>>
  BY <1>5 DEF WriteOutboxEvent, LockAges, BackoffElapses, jobVars
<1>6. ASSUME NEW d \in Events, WorkerTakesJob(d)
      PROVE  /\ UNCHANGED <<handled, enqueued>>
             /\ job'[e] = job[e] \/ job'[e] = "active"
  BY <1>6 DEF WorkerTakesJob, JobMoves
<1>7. ASSUME NEW d \in Events, HandlerSucceeds(d) \/ JobCompletes(d) \/ JobEvicted(d)
      PROVE  /\ job'[e] # "failed"
             /\ job'[e] \in {"handled", "completed"} => handled'[e] > 0
             /\ job'[e] = "none" /\ e \in enqueued' => handled'[e] > 0
  BY <1>1, <1>7 DEF HandlerSucceeds, JobCompletes, JobEvicted, JobMoves
<1>8. CASE UNCHANGED vars
  BY <1>2, <1>8 DEF vars, jobVars
<1>9. CASE \E r \in Relays : \E d \in todo[r] : PublishDomainEvent(r, d)
  BY <1>1, <1>4, <1>9
<1> HIDE DEF IInv, TypeOK
<1> QED
  BY <1>1, <1>2, <1>3, <1>5, <1>6, <1>7, <1>8, <1>9, FaultsCount DEF Next, RelayStep, JobStep

LEMMA MovesOnAlways == Spec => [](LocksHeld /\ JobsHandled)
<1>1. Init => LocksHeld /\ JobsHandled
  BY DEF Init, LocksHeld, JobsHandled
<1> QED
  BY <1>1, Invariance, LocksStayHeld, JobsStayHandled, PTL DEF Spec

\* Attempts, locks and jobs are lost to failures only: a row out of attempts met
\* as many failures as it had attempts, and while nothing failed every lock has
\* a relay that will end it (relayOnce) and every event on the bus is on its way
\* through the worker, or was handled.
THEOREM StuckOnlyByFaultsAlways == Spec => []StuckOnlyByFaults
<1>1. IInv /\ LocksHeld /\ JobsHandled => MovesOnUnlessFaults
  <2> SUFFICES ASSUME IInv, LocksHeld, JobsHandled, faults = 0, NEW e \in Events
               PROVE  /\ lock[e] # 0 => \E r \in Relays : e \in todo[r] /\ token[r] = lock[e]
                      /\ e \in enqueued /\ handled[e] = 0 => job[e] \in {"waiting", "active"}
    BY DEF MovesOnUnlessFaults
  <2> QED
    BY DEF LocksHeld, JobsHandled, IInv, TypeOK, JobStates
<1> QED
  BY <1>1, Invariance, MovesOnAlways, GivenUpOnlyByFaultsAlways, PTL DEF StuckOnlyByFaults

---------------------------------------------------------------------------
\* A late relay cannot touch a row that is already published.
THEOREM PublishedIsFinalAlways == Spec => PublishedIsFinal
<1> DEFINE Final == \A e \in published :
                      /\ e \in published'
                      /\ lock'[e] = lock[e]
                      /\ attempts'[e] = attempts[e]
                      /\ (e \in backoff') = (e \in backoff)
<1>1. IInv /\ [Next]_vars => [Final]_vars
  <2> SUFFICES ASSUME IInv, Next PROVE Final
    OBVIOUS
  <2>1. ASSUME NEW r \in Relays, Tick(r) PROVE Final
    BY <2>1 DEF Tick, ClaimUnpublishedOutboxEvents, Claimable, IInv, TypeOK
  <2>2. ASSUME NEW r \in Relays, NEW e \in todo[r],
               PublishDomainEvent(r, e) \/ PublishFails(r, e)
        PROVE  Final
    BY <2>2 DEF PublishDomainEvent, PublishFails, rowVars
  <2>3. ASSUME NEW r \in Relays, MarkOutboxPublished(r) \/ MarkOutboxFailed(r)
        PROVE  Final
    <3>1. cur[r] \in Events /\ token[r] # 0
      BY <2>3 DEF MarkOutboxPublished, MarkOutboxFailed, IInv, TypeOK, WorkInHand
    <3>2. lock[cur[r]] = token[r] => cur[r] \notin published
      BY <3>1 DEF IInv, PublishedUnlocked
    <3> QED
      BY <2>3, <3>1, <3>2 DEF MarkOutboxPublished, MarkOutboxFailed, IInv, TypeOK
  <2>4. ASSUME NEW r \in Relays, MarkFails(r) \/ RelayTickAborts(r) \/ RelayCrashes(r)
        PROVE  Final
    BY <2>4 DEF MarkFails, RelayTickAborts, RelayCrashes, BatchAbandoned, rowVars
  <2>5. ASSUME NEW e \in Events,
               \/ WriteOutboxEvent(e) \/ LockAges(e) \/ BackoffElapses(e)
               \/ JobStep(e) \/ JobFault(e) \/ JobEvicted(e)
        PROVE  Final
    BY <2>5 DEF WriteOutboxEvent, LockAges, BackoffElapses, JobStep, WorkerTakesJob,
       HandlerSucceeds, JobCompletes, JobFault, HandlerFails, JobStalls,
       JobEvicted, rowVars, IInv, PublishedUnlocked
  <2> QED
    BY <2>1, <2>2, <2>3, <2>4, <2>5 DEF Next, RelayStep, RelayFault
<1> QED
  BY <1>1, Invariance, PTL DEF Spec, PublishedIsFinal

\* The outbox implements EventDelivery: a commit records, a successful
\* queue.add announces, a matching mark settles, every other step stutters.
THEOREM OutboxImplementsDelivery == Spec => ImplementsDelivery
<1> USE DEF Delivery!vars, Delivery!Next, Delivery!Record, Delivery!Announce,
            Delivery!Settle
<1>1. Init => Delivery!Init
  BY DEF Init, Delivery!Init
<1>2. IInv /\ [Next]_vars => [Delivery!Next]_(Delivery!vars)
  <2> SUFFICES ASSUME IInv, Next PROVE [Delivery!Next]_(Delivery!vars)
    BY DEF vars, rowVars
  <2>1. ASSUME NEW r \in Relays, Tick(r) PROVE UNCHANGED Delivery!vars
    BY <2>1 DEF Tick, ClaimUnpublishedOutboxEvents
  <2>2. ASSUME NEW r \in Relays, NEW e \in todo[r], PublishDomainEvent(r, e)
        PROVE  UNCHANGED Delivery!vars \/ (e \in Events /\ Delivery!Announce(e))
    <3>1. e \in Events /\ e \in committed /\ (e \in published => e \in enqueued)
      BY DEF IInv, TypeOK, WorkInHand, PublishedReachedBus
    <3> QED
      BY <2>2, <3>1 DEF PublishDomainEvent, rowVars
  <2>3. ASSUME NEW r \in Relays, MarkOutboxPublished(r)
        PROVE  UNCHANGED Delivery!vars \/ Delivery!Settle(cur[r])
    <3>1. cur[r] \in enqueued /\ token[r] # 0
      BY <2>3 DEF MarkOutboxPublished, IInv, WorkInHand
    <3>2. lock[cur[r]] = token[r] => cur[r] \notin published
      BY <3>1 DEF IInv, PublishedUnlocked
    <3> QED
      BY <2>3, <3>1, <3>2 DEF MarkOutboxPublished
  <2>4. ASSUME NEW r \in Relays,
               \/ MarkOutboxFailed(r) \/ RelayFault(r)
        PROVE  UNCHANGED Delivery!vars
    BY <2>4 DEF MarkOutboxFailed, RelayFault, PublishFails, MarkFails,
       RelayTickAborts, RelayCrashes, BatchAbandoned, rowVars
  <2>5. ASSUME NEW e \in Events,
               \/ LockAges(e) \/ BackoffElapses(e)
               \/ JobStep(e) \/ JobFault(e) \/ JobEvicted(e)
        PROVE  UNCHANGED Delivery!vars
    BY <2>5 DEF LockAges, BackoffElapses, JobStep, WorkerTakesJob,
       HandlerSucceeds, JobCompletes, JobFault, HandlerFails, JobStalls,
       JobEvicted, rowVars
  <2>6. ASSUME NEW e \in Events, WriteOutboxEvent(e) PROVE Delivery!Record(e)
    BY <2>6 DEF WriteOutboxEvent
  <2>7. \A r \in Relays : MarkOutboxPublished(r) => cur[r] \in Events
    BY DEF MarkOutboxPublished, IInv, TypeOK, WorkInHand
  <2> QED
    BY <2>1, <2>2, <2>3, <2>4, <2>5, <2>6, <2>7 DEF Next, RelayStep
<1> QED
  BY <1>1, <1>2, Invariance, PTL DEF Spec, ImplementsDelivery, Delivery!Spec

=============================================================================
