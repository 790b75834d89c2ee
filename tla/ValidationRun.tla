--------------------------- MODULE ValidationRun ---------------------------
(***************************************************************************)
(* Execution of validation runs: the API creates a PENDING run and then    *)
(* enqueues a job for it; the executors of the validation worker take the  *)
(* job, evaluate the rules and commit results, outbox events and the final *)
(* status in one transaction.  BullMQ retries a job that failed and hands  *)
(* a job whose lock was not renewed to another executor, so one run may be *)
(* executed again, or by two executors at once.                            *)
(*                                                                         *)
(* One action per database call of executeRun, in the order of the code.   *)
(***************************************************************************)
EXTENDS Naturals

CONSTANTS
  Runs,         \* ids of validation runs
  Rules,        \* rules of the organization
  Switchable,   \* bound: those an administrator may switch off and on
  Executors,    \* concurrent job slots of the validation workers
  MaxAttempts,  \* attempts of the job (3 in the code)
  FaultKinds,   \* kinds of environment failure that may occur
  MaxFaults,    \* bound on the number of such failures
  Nobody        \* no executor holds the job

Faults == {"trigger", "infra", "readback", "crash", "stall"}

ASSUME ValidationRunAssumption ==
  /\ MaxAttempts \in Nat \ {0}
  /\ MaxFaults \in Nat
  /\ FaultKinds \subseteq Faults
  /\ Nobody \notin Executors
  /\ Switchable \subseteq Rules

VARIABLES
  status,      \* status column of each run, "none" before it exists
  results,     \* result row of each (run, rule), "none" before it exists
  failEvents,  \* ValidationFailed rows in the outbox for each (run, rule)
  inactive,    \* rules that are switched off
  steady,      \* history: rules that were active ever since the run was created
  triggering,  \* runs whose API request has yet to enqueue the job
  job,         \* state of the job whose jobId is the run's id
  attempts,    \* attempts of the job that failed
  stalled,     \* jobs BullMQ has already moved back to waiting once
  owner,       \* executor that holds the job's lock
  exec,        \* what each executor is doing
  faults       \* number of environment failures of each kind so far

rowVars == <<status, results, failEvents, inactive, steady>>
jobVars == <<triggering, job, attempts, stalled, owner>>
vars    == <<rowVars, jobVars, exec, faults>>

Outcomes  == {"PASS", "FAIL", "SKIPPED", "ERROR"}
Terminal  == {"COMPLETED", "PARTIAL"}
Statuses  == {"PENDING", "RUNNING", "FAILED"} \cup Terminal
JobStates == {"none", "waiting", "active", "completed", "failed"}

Idle == [step |-> "idle"]

Working ==
  [step : {"loading", "starting", "evaluating", "reading", "failing"}, run : Runs]
  \cup [step : {"committing"}, run : Runs, outcome : [Rules -> Outcomes \cup {"none"}]]

TypeOK ==
  /\ status \in [Runs -> Statuses \cup {"none"}]
  /\ results \in [Runs -> [Rules -> Outcomes \cup {"none"}]]
  /\ failEvents \in [Runs -> [Rules -> Nat]]
  /\ inactive \subseteq Rules
  /\ steady \in [Runs -> SUBSET Rules]
  /\ triggering \subseteq Runs
  /\ job \in [Runs -> JobStates]
  /\ attempts \in [Runs -> 0 .. MaxAttempts]
  /\ stalled \subseteq Runs
  /\ owner \in [Runs -> Executors \cup {Nobody}]
  /\ exec \in [Executors -> Working \cup {Idle}]
  /\ faults \in [Faults -> 0 .. MaxFaults]

Init ==
  /\ status = [r \in Runs |-> "none"]
  /\ results = [r \in Runs |-> [u \in Rules |-> "none"]]
  /\ failEvents = [r \in Runs |-> [u \in Rules |-> 0]]
  /\ inactive = {}
  /\ steady = [r \in Runs |-> {}]
  /\ triggering = {}
  /\ job = [r \in Runs |-> "none"]
  /\ attempts = [r \in Runs |-> 0]
  /\ stalled = {}
  /\ owner = [r \in Runs |-> Nobody]
  /\ exec = [x \in Executors |-> Idle]
  /\ faults = [kind \in Faults |-> 0]

TotalFaults == faults["trigger"] + faults["infra"] + faults["readback"]
               + faults["crash"] + faults["stall"]

Fault(kind) ==
  /\ kind \in FaultKinds
  /\ TotalFaults < MaxFaults
  /\ faults' = [faults EXCEPT ![kind] = @ + 1]

SetStatus(r, s) == status' = [status EXCEPT ![r] = s]

At(x, step) == exec[x].step = step

Goto(x, step) == exec' = [exec EXCEPT ![x] = [step |-> step, run |-> exec[x].run]]

Leave(x) == exec' = [exec EXCEPT ![x] = Idle]

---------------------------------------------------------------------------
(* trigger, and the same two steps of the daily sweep *)

CreateRun(r) ==
  /\ status[r] = "none"
  /\ SetStatus(r, "PENDING")
  /\ steady' = [steady EXCEPT ![r] = Rules \ inactive]
  /\ triggering' = triggering \cup {r}
  /\ UNCHANGED <<results, failEvents, inactive, job, attempts, stalled, owner, exec, faults>>

EnqueueRun(r) ==
  /\ r \in triggering
  /\ triggering' = triggering \ {r}
  /\ job' = [job EXCEPT ![r] = "waiting"]
  /\ UNCHANGED <<rowVars, attempts, stalled, owner, exec, faults>>

\* The process dies, or Redis refuses the job, after the row was committed.
TriggerFails(r) ==
  /\ r \in triggering
  /\ Fault("trigger")
  /\ triggering' = triggering \ {r}
  /\ UNCHANGED <<rowVars, job, attempts, stalled, owner, exec>>

---------------------------------------------------------------------------
(* An administrator, at any time *)

SwitchRule(u) ==
  /\ u \in Switchable
  /\ IF u \in inactive
     THEN inactive' = inactive \ {u} /\ UNCHANGED steady
     ELSE /\ inactive' = inactive \cup {u}
          /\ steady' = [r \in Runs |-> steady[r] \ {u}]
  /\ UNCHANGED <<status, results, failEvents, jobVars, exec, faults>>

---------------------------------------------------------------------------
(* BullMQ *)

TakeJob(x, r) ==
  /\ exec[x] = Idle
  /\ job[r] = "waiting"
  /\ job' = [job EXCEPT ![r] = "active"]
  /\ owner' = [owner EXCEPT ![r] = x]
  /\ exec' = [exec EXCEPT ![x] = [step |-> "loading", run |-> r]]
  /\ UNCHANGED <<rowVars, triggering, attempts, stalled, faults>>

Release(r, to) ==
  /\ job' = [job EXCEPT ![r] = to]
  /\ owner' = [owner EXCEPT ![r] = Nobody]

\* The processor resolved: the job completes if its lock is still held.
JobSucceeds(x) ==
  LET r == exec[x].run IN
  /\ IF owner[r] = x THEN Release(r, "completed") ELSE UNCHANGED <<job, owner>>
  /\ Leave(x)
  /\ UNCHANGED <<triggering, attempts, stalled>>

\* Seeded fault: the job is added without "attempts".
AttemptFails_NoRetry(x) ==
  LET r == exec[x].run IN
  /\ IF owner[r] = x THEN Release(r, "failed") ELSE UNCHANGED <<job, owner>>
  /\ Leave(x)
  /\ UNCHANGED <<triggering, attempts, stalled>>

\* The processor rejected: retried after a backoff while attempts remain.
AttemptFails(x) ==
  LET r    == exec[x].run
      done == attempts[r] + 1
  IN
  /\ IF owner[r] = x
     THEN /\ attempts' = [attempts EXCEPT ![r] = done]
          /\ Release(r, IF done < MaxAttempts THEN "waiting" ELSE "failed")
     ELSE UNCHANGED <<attempts, job, owner>>
  /\ Leave(x)
  /\ UNCHANGED <<triggering, stalled>>

\* The executor that holds the job's lock no longer works on it.
Abandoned(r) ==
  /\ job[r] = "active"
  /\ ~ (exec[owner[r]] # Idle /\ exec[owner[r]].run = r)

\* The lock of an active job expires: the job waits again the first time and
\* fails the second.
LockExpires(r) ==
  /\ Release(r, IF r \in stalled THEN "failed" ELSE "waiting")
  /\ stalled' = stalled \cup {r}
  /\ UNCHANGED <<rowVars, triggering, attempts, exec>>

\* ... because its executor is gone,
ReclaimAbandoned(r) ==
  /\ Abandoned(r)
  /\ LockExpires(r)
  /\ UNCHANGED faults

\* ... or because a live executor was too slow to renew it and goes on.
JobStalls(r) ==
  /\ job[r] = "active"
  /\ ~Abandoned(r)
  /\ Fault("stall")
  /\ LockExpires(r)

ExecutorDies(x) ==
  /\ exec[x] # Idle
  /\ Fault("crash")
  /\ Leave(x)
  /\ UNCHANGED <<rowVars, jobVars>>

---------------------------------------------------------------------------
(* executeRun *)

\* Seeded fault: a terminal run is executed again.
LoadRun_NoTerminalGuard(x) ==
  /\ At(x, "loading")
  /\ Goto(x, "starting")
  /\ UNCHANGED <<rowVars, jobVars, faults>>

\* findByIdForWorker and the guard on terminal runs.
LoadRun(x) ==
  /\ At(x, "loading")
  /\ IF status[exec[x].run] \in Terminal
     THEN JobSucceeds(x)
     ELSE Goto(x, "starting") /\ UNCHANGED jobVars
  /\ UNCHANGED <<rowVars, faults>>

\* An unconditional update by id, outside the try block.
MarkRunning(x) ==
  /\ At(x, "starting")
  /\ SetStatus(exec[x].run, "RUNNING")
  /\ Goto(x, "evaluating")
  /\ UNCHANGED <<results, failEvents, inactive, steady, jobVars, faults>>

\* The load or the RUNNING update throws: no FAILED mark.
StartFails(x) ==
  /\ At(x, "loading") \/ At(x, "starting")
  /\ Fault("infra")
  /\ AttemptFails(x)
  /\ UNCHANGED rowVars

\* Seed the default rules (a rule without a row gets an active one), load the
\* rules that are active now and the snapshot, evaluate each of these rules.
Evaluate(x) ==
  /\ At(x, "evaluating")
  /\ \E found \in [Rules \ inactive -> Outcomes] :
     LET outcome == [u \in Rules |-> IF u \in inactive THEN "none" ELSE found[u]]
     IN
       exec' = [exec EXCEPT ![x] =
         [step |-> "committing", run |-> exec[x].run, outcome |-> outcome]]
  /\ UNCHANGED <<rowVars, jobVars, faults>>

\* Seeded fault: the run takes over the status of a rule that could not run.
FinalStatus_OfRule(outcome) ==
  IF \E u \in Rules : outcome[u] = "ERROR" THEN "ERROR" ELSE "COMPLETED"

FinalStatus(outcome) ==
  IF \E u \in Rules : outcome[u] = "ERROR" THEN "PARTIAL" ELSE "COMPLETED"

\* Rows of earlier executions whose rule was not evaluated stay.
UpsertResults(r, outcome) ==
  results' = [results EXCEPT ![r] =
    [u \in Rules |-> IF outcome[u] = "none" THEN @[u] ELSE outcome[u]]]

AddFailEvents(r, outcome) ==
  failEvents' = [failEvents EXCEPT ![r] =
    [u \in Rules |-> @[u] + IF outcome[u] = "FAIL" THEN 1 ELSE 0]]

\* Seeded fault: the final status is not written in the transaction.
CommitResults_StatusLeft(x) ==
  LET r == exec[x].run
      outcome == exec[x].outcome
  IN
  /\ At(x, "committing")
  /\ UpsertResults(r, outcome)
  /\ AddFailEvents(r, outcome)
  /\ Goto(x, "reading")
  /\ UNCHANGED <<status, inactive, steady, jobVars, faults>>

\* Seeded fault: the upsert leaves an existing result row as it is.
CommitResults_KeepsOldRows(x) ==
  LET r == exec[x].run
      outcome == exec[x].outcome
  IN
  /\ At(x, "committing")
  /\ results' = [results EXCEPT ![r] =
       [u \in Rules |-> IF @[u] = "none" THEN outcome[u] ELSE @[u]]]
  /\ AddFailEvents(r, outcome)
  /\ SetStatus(r, FinalStatus(outcome))
  /\ Goto(x, "reading")
  /\ UNCHANGED <<inactive, steady, jobVars, faults>>

\* One transaction: the result rows, one outbox row per failed rule and the
\* final status.
CommitResults(x) ==
  LET r == exec[x].run
      outcome == exec[x].outcome
  IN
  /\ At(x, "committing")
  /\ UpsertResults(r, outcome)
  /\ AddFailEvents(r, outcome)
  /\ SetStatus(r, FinalStatus(outcome))
  /\ Goto(x, "reading")
  /\ UNCHANGED <<inactive, steady, jobVars, faults>>

\* findById of the completed run, for the job's return value.
ReadBack(x) ==
  /\ At(x, "reading")
  /\ JobSucceeds(x)
  /\ UNCHANGED <<rowVars, faults>>

\* A database call of the try block throws; the read-back is one of them.
ExecutionFails(x) ==
  /\ \/ (At(x, "evaluating") \/ At(x, "committing")) /\ Fault("infra")
     \/ At(x, "reading") /\ Fault("readback")
  /\ Goto(x, "failing")
  /\ UNCHANGED <<rowVars, jobVars>>

\* The catch clause; a failure of the FAILED update itself is only logged.
MarkFailed(x) ==
  /\ At(x, "failing")
  /\ \/ SetStatus(exec[x].run, "FAILED") /\ UNCHANGED faults
     \/ UNCHANGED status /\ Fault("infra")
  /\ AttemptFails(x)
  /\ UNCHANGED <<results, failEvents, inactive, steady>>

---------------------------------------------------------------------------
ExecutorStep(x) ==
  \/ LoadRun(x) \/ MarkRunning(x) \/ Evaluate(x) \/ CommitResults(x)
  \/ ReadBack(x) \/ MarkFailed(x)

Next ==
  \/ \E r \in Runs :
       \/ CreateRun(r) \/ EnqueueRun(r) \/ TriggerFails(r)
       \/ ReclaimAbandoned(r) \/ JobStalls(r)
       \/ \E x \in Executors : TakeJob(x, r)
  \/ \E x \in Executors :
       \/ ExecutorStep(x)
       \/ StartFails(x) \/ ExecutionFails(x) \/ ExecutorDies(x)
  \/ \E u \in Rules : SwitchRule(u)

Spec == Init /\ [][Next]_vars

\* Requests and jobs in progress go on, waiting jobs are taken and expired
\* locks noticed.  Nothing is assumed of failures or of new requests.
Fairness ==
  /\ \A r \in Runs :
       /\ WF_vars(EnqueueRun(r))
       /\ WF_vars(ReclaimAbandoned(r))
       /\ WF_vars(\E x \in Executors : TakeJob(x, r))
  /\ \A x \in Executors : WF_vars(ExecutorStep(x))

FairSpec == Spec /\ Fairness

---------------------------------------------------------------------------
(* Properties *)

\* The status of a run sums up the result rows it has, whatever executions
\* overlapped and whichever rules were switched off and on meanwhile: a finished
\* run has a row for every rule that was active all along, a PARTIAL one a row
\* that is ERROR, and a COMPLETED one none - but for a rule that was switched off
\* since the run was created, when an earlier execution of the run committed
\* too: after a failed read-back, or beside a second executor.
StatusSumsUpResults ==
  \A r \in Runs : status[r] \in Terminal =>
    /\ \A u \in steady[r] : results[r][u] # "none"
    /\ status[r] = "PARTIAL" => \E u \in Rules : results[r][u] = "ERROR"
    /\ status[r] = "COMPLETED" =>
         \A u \in Rules : results[r][u] = "ERROR" =>
           u \notin steady[r] /\ faults["stall"] + faults["readback"] # 0

\* The run's job is still to be added, waits or is locked, or an executor that
\* lost it goes on with the run.
InHand(r) ==
  \/ r \in triggering
  \/ job[r] \in {"waiting", "active"}
  \/ \E x \in Executors : exec[x] # Idle /\ exec[x].run = r

\* A run is left behind unfinished only by failures, and by enough of them: its
\* job was never added, failed as often as it has attempts, lost its lock
\* twice, or was executed twice at once by executors of which one met another
\* failure.  No order of the steps leaves a run behind by itself.
StrandedOnlyByFaults ==
  \A r \in Runs : status[r] \notin Terminal \cup {"none"} /\ ~InHand(r) =>
    \/ job[r] = "none" /\ faults["trigger"] > 0
    \/ /\ job[r] = "failed"
       /\ \/ faults["infra"] + faults["readback"] >= MaxAttempts
          \/ faults["crash"] + faults["stall"] >= 2
    \/ faults["stall"] > 0 /\ faults["infra"] + faults["readback"] + faults["crash"] > 0

\* Finished runs say what they found, unfinished ones are in hand or accounted for.
RunsAreAccountable == StatusSumsUpResults /\ StrandedOnlyByFaults

\* "retries under at-least-once delivery are safe": a FAIL result is reported
\* by exactly one ValidationFailed event, other results by none, as long as
\* no job was executed twice at once and no run failed after its commit.
FailureReportedOnce ==
  faults["stall"] + faults["readback"] = 0 =>
    \A r \in Runs, u \in Rules :
      failEvents[r][u] = IF results[r][u] = "FAIL" THEN 1 ELSE 0

\* "skips terminal runs - retry-safe": a run that completed keeps its status,
\* its results and its events.
TerminalRunIsFinal ==
  [][\A r \in Runs : status[r] \in Terminal =>
       /\ status'[r] = status[r]
       /\ results'[r] = results[r]
       /\ failEvents'[r] = failEvents[r]]_vars

\* The part of it that holds: a completed run is changed only after two
\* executors ran it at once, or when reading it back failed.
CompletedRunIsKept ==
  [][\A r \in Runs :
       status[r] \in Terminal /\ faults'["stall"] + faults'["readback"] = 0 =>
         /\ status'[r] = status[r]
         /\ results'[r] = results[r]
         /\ failEvents'[r] = failEvents[r]]_vars

\* A run whose job reached the queue ends up completed, for good, unless as
\* many failures occur as the job has attempts, its executors die twice (BullMQ
\* gives up on a job that lost its lock twice), or an executor that lost the
\* lock and went on meets another failure (it may mark the run FAILED after
\* the new holder completed it).
QueuedRunsComplete ==
  \A r \in Runs :
    (job[r] = "waiting") ~>
      \/ TotalFaults >= MaxAttempts
      \/ faults["crash"] >= 2
      \/ faults["stall"] > 0 /\ TotalFaults >= 2
      \/ [](status[r] \in Terminal)
=============================================================================
