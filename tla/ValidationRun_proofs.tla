------------------------ MODULE ValidationRun_proofs ------------------------
(***************************************************************************)
(* Theorems about ValidationRun, for any number of runs, rules, executors,  *)
(* attempts and failures.                                                   *)
(*                                                                          *)
(* The argument: what is said of events rests on executors: while no lock   *)
(* expired under a live executor, whoever works on a run holds its job      *)
(* (WorkerHoldsJob), so nobody moves the run behind its back; then an       *)
(* execution that is past the guard works on a run that was never committed *)
(* (GuardStillHolds, OpenRunHasNoRows).  Results and final status are       *)
(* written by one transaction, so a status sums up the rows of the rules    *)
(* this execution found active; a row that is older than that is of a rule  *)
(* that was switched off since the run was created (SteadyIsEvaluated).     *)
(***************************************************************************)
EXTENDS ValidationRun, TLAPS

NoOverlap == faults["stall"] + faults["readback"] = 0

\* A run has no job before it is triggered, and none while it is; a job is
\* locked only while it is active, and has an attempt left until it ends.
JobsFollowRuns ==
  \A r \in Runs :
    /\ r \in triggering => job[r] = "none"
    /\ status[r] = "none" => job[r] = "none" /\ r \notin triggering
    /\ owner[r] # Nobody => job[r] = "active"
    /\ job[r] \in {"none", "waiting", "active"} => attempts[r] < MaxAttempts

WorkerHoldsJob ==
  \A x \in Executors : exec[x] # Idle =>
    job[exec[x].run] = "active" /\ owner[exec[x].run] = x

\* The steps between the guard on terminal runs and the commit or the mark.
PastGuard == {"starting", "evaluating", "committing", "failing"}

GuardStillHolds ==
  \A x \in Executors : exec[x].step \in PastGuard => status[exec[x].run] \notin Terminal

OpenRunHasNoRows ==
  \A r \in Runs, u \in Rules :
    status[r] \notin Terminal => results[r][u] = "none" /\ failEvents[r][u] = 0

Alone == WorkerHoldsJob /\ GuardStillHolds /\ OpenRunHasNoRows

IInv ==
  /\ TypeOK
  /\ JobsFollowRuns
  /\ NoOverlap => Alone
  /\ FailureReportedOnce

LEMMA InitIInv == Init => IInv
<1> SUFFICES ASSUME Init PROVE IInv
  OBVIOUS
<1> USE ValidationRunAssumption DEF Init
<1>1. TypeOK
  <2>1. status \in [Runs -> Statuses \cup {"none"}] /\ job \in [Runs -> JobStates]
    BY DEF JobStates
  <2>2. /\ results \in [Runs -> [Rules -> Outcomes \cup {"none"}]]
        /\ failEvents \in [Runs -> [Rules -> Nat]]
    OBVIOUS
  <2>3. /\ attempts \in [Runs -> 0 .. MaxAttempts]
        /\ faults \in [Faults -> 0 .. MaxFaults]
    OBVIOUS
  <2>4. /\ triggering \subseteq Runs /\ stalled \subseteq Runs
        /\ owner \in [Runs -> Executors \cup {Nobody}]
        /\ exec \in [Executors -> Working \cup {Idle}]
    OBVIOUS
  <2>5. inactive \subseteq Rules /\ steady \in [Runs -> SUBSET Rules]
    OBVIOUS
  <2> HIDE DEF Init
  <2> QED
    BY <2>1, <2>2, <2>3, <2>4, <2>5 DEF TypeOK
<1>3. JobsFollowRuns
  <2>1. 0 < MaxAttempts
    OBVIOUS
  <2> QED
    BY <2>1 DEF JobsFollowRuns
<1>4. Alone
  BY DEF Alone, WorkerHoldsJob, GuardStillHolds, OpenRunHasNoRows, PastGuard, Idle
<1>5. FailureReportedOnce
  BY DEF FailureReportedOnce
<1> QED
  BY <1>1, <1>3, <1>4, <1>5 DEF IInv

---------------------------------------------------------------------------

LEMMA WorkerShape ==
  ASSUME TypeOK, NEW x \in Executors, exec[x] # Idle
  PROVE  /\ exec[x] \in Working /\ exec[x].run \in Runs
         /\ exec[x].step \in {"loading", "starting", "evaluating", "reading", "failing",
                              "committing"}
         /\ exec[x].step = "committing" => exec[x].outcome \in [Rules -> Outcomes \cup {"none"}]
BY DEF TypeOK, Working

\* Failures are only ever counted up.
LEMMA FaultStep ==
  ASSUME TypeOK, NEW kind \in Faults, Fault(kind)
  PROVE  /\ faults' \in [Faults -> 0 .. MaxFaults]
         /\ NoOverlap' => NoOverlap
         /\ kind \in {"stall", "readback"} => ~NoOverlap'
<1>1. /\ faults["trigger"] \in Nat /\ faults["infra"] \in Nat /\ faults["readback"] \in Nat
      /\ faults["crash"] \in Nat /\ faults["stall"] \in Nat
  BY DEF TypeOK, Faults
<1>2. faults[kind] \in Nat /\ faults[kind] <= TotalFaults
  BY <1>1 DEF Faults, TotalFaults
<1>3. faults[kind] + 1 \in 0 .. MaxFaults
  BY <1>1, <1>2, ValidationRunAssumption DEF Fault, TotalFaults
<1>4. faults' = [faults EXCEPT ![kind] = faults[kind] + 1]
  BY DEF Fault
<1>5. faults' \in [Faults -> 0 .. MaxFaults]
  BY <1>3, <1>4 DEF TypeOK
<1>6. /\ faults'["stall"] >= faults["stall"] /\ faults'["readback"] >= faults["readback"]
      /\ kind = "stall" => faults'["stall"] = faults["stall"] + 1
      /\ kind = "readback" => faults'["readback"] = faults["readback"] + 1
      /\ faults'["stall"] \in Nat /\ faults'["readback"] \in Nat
  BY <1>1, <1>4 DEF TypeOK, Faults
<1> QED
  BY <1>1, <1>5, <1>6 DEF NoOverlap

\* One executor goes to another step or becomes idle.
LEMMA ExecStep ==
  ASSUME TypeOK, NEW x \in Executors, NEW next \in Working \cup {Idle},
         exec' = [exec EXCEPT ![x] = next]
  PROVE  /\ exec' \in [Executors -> Working \cup {Idle}]
         /\ exec'[x] = next
         /\ \A y \in Executors \ {x} : exec'[y] = exec[y]
BY DEF TypeOK

LEMMA GotoStep ==
  ASSUME TypeOK, NEW x \in Executors, exec[x] # Idle,
         NEW step \in {"loading", "starting", "evaluating", "reading", "failing"}, Goto(x, step)
  PROVE  /\ exec' \in [Executors -> Working \cup {Idle}]
         /\ exec'[x].run = exec[x].run /\ exec'[x].step = step
         /\ \A y \in Executors \ {x} : exec'[y] = exec[y]
<1>1. [step |-> step, run |-> exec[x].run] \in Working
  BY WorkerShape DEF Working
<1> QED
  BY <1>1, ExecStep DEF Goto

LEMMA LeaveStep ==
  ASSUME TypeOK, NEW x \in Executors, Leave(x)
  PROVE  /\ exec' \in [Executors -> Working \cup {Idle}]
         /\ exec'[x] = Idle
         /\ \A y \in Executors \ {x} : exec'[y] = exec[y]
BY ExecStep DEF Leave

\* A step that leaves the rows alone has to answer for jobs and executors only.
LEMMA RowsKept ==
  ASSUME IInv, UNCHANGED rowVars, TypeOK', JobsFollowRuns', NoOverlap' => NoOverlap,
         NoOverlap' => WorkerHoldsJob' /\ GuardStillHolds'
  PROVE  IInv'
<1>2. NoOverlap' => OpenRunHasNoRows'
  BY DEF rowVars, IInv, Alone, OpenRunHasNoRows
<1>3. FailureReportedOnce'
  BY DEF rowVars, IInv, FailureReportedOnce, NoOverlap
<1> QED
  BY <1>2, <1>3 DEF IInv, Alone

---------------------------------------------------------------------------
(* The API and the queue                                                   *)

LEMMA CreateRunIInv == ASSUME IInv, NEW r \in Runs, CreateRun(r) PROVE IInv'
<1> USE DEF CreateRun, SetStatus
<1>1. TypeOK'
  BY DEF IInv, TypeOK, Statuses
<1>3. JobsFollowRuns'
  BY DEF IInv, TypeOK, JobsFollowRuns
<1>4. ASSUME NoOverlap PROVE Alone'
  <2>1. WorkerHoldsJob'
    BY <1>4 DEF IInv, Alone, WorkerHoldsJob
  <2>2. GuardStillHolds'
    BY <1>4, WorkerShape DEF IInv, Alone, TypeOK, GuardStillHolds, Terminal, PastGuard, Idle
  <2>3. OpenRunHasNoRows'
    BY <1>4 DEF IInv, TypeOK, Alone, OpenRunHasNoRows, Terminal
  <2> QED
    BY <2>1, <2>2, <2>3 DEF Alone
<1>5. FailureReportedOnce'
  BY DEF IInv, FailureReportedOnce
<1> QED
  BY <1>1, <1>3, <1>4, <1>5 DEF IInv, NoOverlap

\* A run that is triggered has no job yet, so nobody works on it.
LEMMA EnqueueRunIInv == ASSUME IInv, NEW r \in Runs, EnqueueRun(r) PROVE IInv'
<1> USE DEF EnqueueRun
<1>1. TypeOK'
  BY DEF rowVars, IInv, TypeOK, JobStates
<1>2. JobsFollowRuns'
  BY DEF rowVars, IInv, TypeOK, JobsFollowRuns
<1>3. job[r] = "none"
  BY DEF IInv, JobsFollowRuns
<1>4. NoOverlap => WorkerHoldsJob'
  BY <1>3 DEF IInv, TypeOK, Alone, WorkerHoldsJob
<1>5. NoOverlap => GuardStillHolds'
  BY DEF rowVars, IInv, Alone, GuardStillHolds
<1> QED
  BY <1>1, <1>2, <1>4, <1>5, RowsKept DEF NoOverlap

LEMMA TriggerFailsIInv == ASSUME IInv, NEW r \in Runs, TriggerFails(r) PROVE IInv'
<1> USE DEF TriggerFails, rowVars
<1>0. faults' \in [Faults -> 0 .. MaxFaults] /\ (NoOverlap' => NoOverlap)
  BY FaultStep DEF IInv, Faults
<1>1. TypeOK'
  BY <1>0 DEF IInv, TypeOK
<1>2. JobsFollowRuns'
  BY DEF IInv, TypeOK, JobsFollowRuns
<1>3. NoOverlap => WorkerHoldsJob' /\ GuardStillHolds'
  BY DEF IInv, Alone, WorkerHoldsJob, GuardStillHolds
<1> QED
  BY <1>0, <1>1, <1>2, <1>3, RowsKept

\* A waiting job is nobody's: its run is worked on by the new executor only.
LEMMA TakeJobIInv ==
  ASSUME IInv, NEW r \in Runs, NEW x \in Executors, TakeJob(x, r) PROVE IInv'
<1> USE DEF TakeJob, rowVars
<1> DEFINE next == [step |-> "loading", run |-> r]
<1>0. next \in Working /\ next.step \notin PastGuard /\ next # Idle /\ next.run = r
  BY DEF Working, PastGuard, Idle
<1>1. /\ exec' \in [Executors -> Working \cup {Idle}]
      /\ exec'[x] = next
      /\ \A y \in Executors \ {x} : exec'[y] = exec[y]
  BY <1>0, ExecStep DEF IInv
<1> HIDE DEF next
<1>2. TypeOK'
  BY <1>1 DEF IInv, TypeOK, JobStates
<1>3. JobsFollowRuns'
  BY ValidationRunAssumption DEF IInv, TypeOK, JobsFollowRuns
<1>4. NoOverlap => WorkerHoldsJob'
  BY <1>0, <1>1 DEF IInv, TypeOK, Alone, WorkerHoldsJob
<1>5. NoOverlap => GuardStillHolds'
  BY <1>0, <1>1 DEF IInv, TypeOK, Alone, GuardStillHolds
<1> QED
  BY <1>2, <1>3, <1>4, <1>5, RowsKept DEF NoOverlap

\* An expired lock leaves the executors as they are; the job was active.
LEMMA LockExpiresTypes ==
  ASSUME IInv, NEW r \in Runs, job[r] = "active", LockExpires(r),
         faults' \in [Faults -> 0 .. MaxFaults]
  PROVE  TypeOK' /\ JobsFollowRuns'
<1> USE DEF LockExpires, Release, rowVars
<1>1. TypeOK'
  BY DEF IInv, TypeOK, JobStates
<1>2. JobsFollowRuns'
  BY DEF IInv, TypeOK, JobsFollowRuns
<1> QED
  BY <1>1, <1>2

\* Nobody works on a run whose executor is gone, unless executors overlapped.
LEMMA ReclaimAbandonedIInv == ASSUME IInv, NEW r \in Runs, ReclaimAbandoned(r) PROVE IInv'
<1>0. /\ job[r] = "active" /\ LockExpires(r)
      /\ ~ (exec[owner[r]] # Idle /\ exec[owner[r]].run = r)
      /\ UNCHANGED <<rowVars, triggering, attempts, exec, faults>>
  BY DEF ReclaimAbandoned, Abandoned, LockExpires
<1>1. TypeOK' /\ JobsFollowRuns'
  BY <1>0, LockExpiresTypes DEF IInv, TypeOK
<1>2. ASSUME NoOverlap PROVE WorkerHoldsJob'
  <2>1. \A x \in Executors : exec[x] # Idle => exec[x].run # r
    BY <1>0, <1>2 DEF IInv, Alone, WorkerHoldsJob
  <2> QED
    BY <1>0, <1>2, <2>1 DEF LockExpires, Release, IInv, TypeOK, Alone, WorkerHoldsJob
<1>3. NoOverlap => GuardStillHolds'
  BY <1>0 DEF rowVars, IInv, Alone, GuardStillHolds
<1> QED
  BY <1>0, <1>1, <1>2, <1>3, RowsKept DEF NoOverlap

LEMMA JobStallsIInv == ASSUME IInv, NEW r \in Runs, JobStalls(r) PROVE IInv'
<1>0. job[r] = "active" /\ LockExpires(r) /\ UNCHANGED rowVars
  BY DEF JobStalls, LockExpires
<1>1. faults' \in [Faults -> 0 .. MaxFaults] /\ ~NoOverlap'
  BY FaultStep DEF JobStalls, IInv, Faults
<1> QED
  BY <1>0, <1>1, LockExpiresTypes, RowsKept

LEMMA ExecutorDiesIInv == ASSUME IInv, NEW x \in Executors, ExecutorDies(x) PROVE IInv'
<1> USE DEF ExecutorDies, rowVars, jobVars
<1>0. faults' \in [Faults -> 0 .. MaxFaults] /\ (NoOverlap' => NoOverlap)
  BY FaultStep DEF IInv, Faults
<1>1. /\ exec' \in [Executors -> Working \cup {Idle}] /\ exec'[x] = Idle
      /\ \A y \in Executors \ {x} : exec'[y] = exec[y]
  BY LeaveStep DEF IInv
<1>2. TypeOK'
  BY <1>0, <1>1 DEF IInv, TypeOK
<1>3. JobsFollowRuns'
  BY DEF IInv, JobsFollowRuns
<1>4. NoOverlap => WorkerHoldsJob' /\ GuardStillHolds'
  BY <1>1 DEF IInv, Alone, WorkerHoldsJob, GuardStillHolds, PastGuard, Idle
<1> QED
  BY <1>0, <1>2, <1>3, <1>4, RowsKept

---------------------------------------------------------------------------
(* The executors                                                           *)

\* The processor resolved: the job is completed by its holder, and a stale
\* executor leaves it alone.
LEMMA JobSucceedsIInv ==
  ASSUME IInv, NEW x \in Executors, exec[x] # Idle, JobSucceeds(x), UNCHANGED <<rowVars, faults>>
  PROVE  IInv'
<1> USE DEF JobSucceeds, Release, rowVars
<1> DEFINE r == exec[x].run
<1>0. r \in Runs
  BY WorkerShape DEF IInv
<1>1. /\ exec' \in [Executors -> Working \cup {Idle}] /\ exec'[x] = Idle
      /\ \A y \in Executors \ {x} : exec'[y] = exec[y]
  BY LeaveStep DEF IInv
<1>2. owner[r] = x => job[r] = "active"
  BY <1>0, ValidationRunAssumption DEF IInv, JobsFollowRuns
<1> HIDE DEF r
<1>3. CASE owner[r] = x
  <2>0. job' = [job EXCEPT ![r] = "completed"] /\ owner' = [owner EXCEPT ![r] = Nobody]
    BY <1>3 DEF r
  <2>1. TypeOK'
    BY <1>0, <1>1, <2>0 DEF IInv, TypeOK, JobStates
  <2>2. JobsFollowRuns'
    BY <1>0, <1>2, <1>3, <2>0 DEF IInv, TypeOK, JobsFollowRuns
  <2>3. NoOverlap => WorkerHoldsJob'
    <3> SUFFICES ASSUME NoOverlap, NEW y \in Executors \ {x}, exec[y] # Idle
                 PROVE  job'[exec[y].run] = "active" /\ owner'[exec[y].run] = y
      BY <1>1 DEF WorkerHoldsJob
    <3>1. job[exec[y].run] = "active" /\ owner[exec[y].run] = y
      BY DEF IInv, Alone, WorkerHoldsJob
    <3>2. exec[y].run # r
      BY <1>3, <3>1
    <3> QED
      BY <2>0, <3>1, <3>2 DEF IInv, TypeOK
  <2>4. NoOverlap => GuardStillHolds'
    BY <1>1 DEF IInv, Alone, GuardStillHolds, PastGuard, Idle
  <2> QED
    BY <2>1, <2>2, <2>3, <2>4, RowsKept DEF NoOverlap
<1>4. CASE owner[r] # x
  <2>0. UNCHANGED <<job, owner>>
    BY <1>4 DEF r
  <2>1. TypeOK' /\ JobsFollowRuns'
    BY <1>1, <2>0 DEF IInv, TypeOK, JobsFollowRuns
  <2>2. NoOverlap => WorkerHoldsJob' /\ GuardStillHolds'
    BY <1>1, <2>0 DEF IInv, Alone, WorkerHoldsJob, GuardStillHolds, PastGuard, Idle
  <2> QED
    BY <2>1, <2>2, RowsKept DEF NoOverlap
<1> QED
  BY <1>3, <1>4

\* The processor rejected: what its holder makes of the job.
LEMMA AttemptFailsStep ==
  ASSUME IInv, NEW x \in Executors, exec[x] # Idle, AttemptFails(x)
  PROVE  /\ attempts' \in [Runs -> 0 .. MaxAttempts]
         /\ job' \in [Runs -> JobStates] /\ owner' \in [Runs -> Executors \cup {Nobody}]
         /\ triggering' = triggering /\ stalled' = stalled
         /\ \A r \in Runs :
              /\ job[r] = "none" <=> job'[r] = "none"
              /\ owner'[r] # Nobody => job'[r] = "active"
              /\ job'[r] \in {"none", "waiting", "active"} => attempts'[r] < MaxAttempts
         /\ exec' \in [Executors -> Working \cup {Idle}] /\ exec'[x] = Idle
         /\ \A y \in Executors \ {x} : exec'[y] = exec[y]
         /\ WorkerHoldsJob => WorkerHoldsJob'
<1> DEFINE r == exec[x].run
           to == IF attempts[r] + 1 < MaxAttempts THEN "waiting" ELSE "failed"
<1>0. r \in Runs
  BY WorkerShape DEF IInv
<1>1. /\ exec' \in [Executors -> Working \cup {Idle}] /\ exec'[x] = Idle
      /\ \A y \in Executors \ {x} : exec'[y] = exec[y]
      /\ triggering' = triggering /\ stalled' = stalled
  BY LeaveStep DEF IInv, AttemptFails
<1>2. CASE owner[r] = x
  <2>0. /\ job' = [job EXCEPT ![r] = to] /\ owner' = [owner EXCEPT ![r] = Nobody]
        /\ attempts' = [attempts EXCEPT ![r] = attempts[r] + 1]
    BY <1>2 DEF AttemptFails, Release
  <2>1. job[r] = "active" /\ attempts[r] < MaxAttempts
    BY <1>0, <1>2, ValidationRunAssumption DEF IInv, JobsFollowRuns
  <2>2. attempts[r] + 1 \in 0 .. MaxAttempts
    BY <1>0, <2>1, ValidationRunAssumption DEF IInv, TypeOK
  <2>3. to \in {"waiting", "failed"} /\ (to = "waiting" => attempts[r] + 1 < MaxAttempts)
    OBVIOUS
  <2> HIDE DEF r, to
  <2>4. /\ attempts' \in [Runs -> 0 .. MaxAttempts]
        /\ job' \in [Runs -> JobStates] /\ owner' \in [Runs -> Executors \cup {Nobody}]
    BY <1>0, <2>0, <2>2, <2>3 DEF IInv, TypeOK, JobStates
  <2>5. \A q \in Runs :
          /\ job[q] = "none" <=> job'[q] = "none"
          /\ owner'[q] # Nobody => job'[q] = "active"
          /\ job'[q] \in {"none", "waiting", "active"} => attempts'[q] < MaxAttempts
    <3> SUFFICES ASSUME NEW q \in Runs
                 PROVE  /\ job[q] = "none" <=> job'[q] = "none"
                        /\ owner'[q] # Nobody => job'[q] = "active"
                        /\ job'[q] \in {"none", "waiting", "active"} => attempts'[q] < MaxAttempts
      OBVIOUS
    <3>1. CASE q = r
      BY <1>0, <2>0, <2>1, <2>3, <3>1 DEF IInv, TypeOK
    <3>2. CASE q # r
      BY <1>0, <2>0, <3>2 DEF IInv, TypeOK, JobsFollowRuns
    <3> QED
      BY <3>1, <3>2
  <2>6. WorkerHoldsJob => WorkerHoldsJob'
    BY <1>0, <1>1, <1>2, <2>0, WorkerShape DEF IInv, TypeOK, WorkerHoldsJob
  <2> QED
    BY <1>1, <2>4, <2>5, <2>6
<1>3. CASE owner[r] # x
  <2>0. UNCHANGED <<job, owner, attempts>>
    BY <1>3 DEF AttemptFails
  <2> QED
    BY <1>1, <2>0 DEF IInv, TypeOK, JobsFollowRuns, WorkerHoldsJob
<1> QED
  BY <1>2, <1>3

LEMMA LoadRunIInv == ASSUME IInv, NEW x \in Executors, LoadRun(x) PROVE IInv'
<1> USE DEF LoadRun
<1>0. exec[x] # Idle
  BY DEF At, Idle
<1>1. CASE status[exec[x].run] \in Terminal
  BY <1>0, <1>1, JobSucceedsIInv
<1>2. CASE status[exec[x].run] \notin Terminal
  <2>1. Goto(x, "starting") /\ UNCHANGED <<rowVars, jobVars, faults>>
    BY <1>2
  <2>2. /\ exec' \in [Executors -> Working \cup {Idle}]
        /\ exec'[x].run = exec[x].run /\ exec'[x].step = "starting"
        /\ \A y \in Executors \ {x} : exec'[y] = exec[y]
    BY <1>0, <2>1, GotoStep DEF IInv
  <2>3. TypeOK' /\ JobsFollowRuns'
    BY <2>1, <2>2 DEF rowVars, jobVars, IInv, TypeOK, JobsFollowRuns
  <2>4. NoOverlap => WorkerHoldsJob'
    BY <1>0, <2>1, <2>2 DEF jobVars, IInv, Alone, WorkerHoldsJob
  <2>5. NoOverlap => GuardStillHolds'
    BY <1>2, <2>1, <2>2 DEF rowVars, IInv, Alone, GuardStillHolds
  <2> QED
    BY <2>1, <2>3, <2>4, <2>5, RowsKept DEF NoOverlap
<1> QED
  BY <1>1, <1>2

\* The guard still holds, so the run is not committed when it is marked.
LEMMA MarkRunningIInv == ASSUME IInv, NEW x \in Executors, MarkRunning(x) PROVE IInv'
<1> DEFINE r == exec[x].run
<1>0. /\ exec[x] # Idle /\ exec[x].step \in PastGuard
      /\ status' = [status EXCEPT ![r] = "RUNNING"]
      /\ UNCHANGED <<results, failEvents, inactive, steady, jobVars, faults>>
  BY DEF MarkRunning, SetStatus, At, Idle, PastGuard
<1>1. r \in Runs
  BY <1>0, WorkerShape DEF IInv
<1>2. /\ exec' \in [Executors -> Working \cup {Idle}]
      /\ exec'[x].run = r /\ exec'[x].step = "evaluating"
      /\ \A y \in Executors \ {x} : exec'[y] = exec[y]
  BY <1>0, GotoStep DEF IInv, MarkRunning
<1> HIDE DEF r
<1>3. TypeOK'
  BY <1>0, <1>1, <1>2 DEF jobVars, IInv, TypeOK, Statuses
<1>5. JobsFollowRuns'
  BY <1>0, <1>1 DEF jobVars, IInv, TypeOK, JobsFollowRuns
<1>6. ASSUME NoOverlap PROVE Alone'
  <2>1. WorkerHoldsJob'
    BY <1>0, <1>2, <1>6 DEF r, jobVars, IInv, Alone, WorkerHoldsJob
  <2>2. GuardStillHolds'
    <3>1. \A q \in Runs : status[q] \notin Terminal => status'[q] \notin Terminal
      BY <1>0, <1>1 DEF IInv, TypeOK, Terminal
    <3>2. \A y \in Executors \ {x} : exec'[y].step \in PastGuard =>
            exec[y].run \in Runs /\ status[exec[y].run] \notin Terminal
      BY <1>2, <1>6, WorkerShape DEF IInv, Alone, GuardStillHolds, PastGuard, Idle
    <3>3. status'[r] \notin Terminal
      BY <1>0, <1>1 DEF IInv, TypeOK, Terminal
    <3> QED
      BY <1>2, <3>1, <3>2, <3>3 DEF GuardStillHolds
  <2>3. OpenRunHasNoRows'
    <3>1. status[r] \notin Terminal
      BY <1>0, <1>6 DEF r, IInv, Alone, GuardStillHolds
    <3> QED
      BY <1>0, <1>1, <1>6, <3>1 DEF IInv, TypeOK, Alone, OpenRunHasNoRows
  <2> QED
    BY <2>1, <2>2, <2>3 DEF Alone
<1>7. FailureReportedOnce'
  BY <1>0 DEF IInv, FailureReportedOnce
<1> QED
  BY <1>0, <1>3, <1>5, <1>6, <1>7 DEF IInv, NoOverlap

LEMMA StartFailsIInv == ASSUME IInv, NEW x \in Executors, StartFails(x) PROVE IInv'
<1> USE DEF StartFails
<1>0. exec[x] # Idle
  BY DEF At, Idle
<1>1. faults' \in [Faults -> 0 .. MaxFaults] /\ (NoOverlap' => NoOverlap)
  BY FaultStep DEF IInv, Faults
<1>2. TypeOK'
  BY <1>0, <1>1, AttemptFailsStep DEF rowVars, IInv, TypeOK
<1>3. JobsFollowRuns'
  BY <1>0, AttemptFailsStep DEF rowVars, IInv, JobsFollowRuns
<1>4. NoOverlap => WorkerHoldsJob'
  BY <1>0, AttemptFailsStep DEF IInv, Alone
<1>5. NoOverlap => GuardStillHolds'
  BY <1>0, AttemptFailsStep DEF rowVars, IInv, Alone, GuardStillHolds, PastGuard, Idle
<1> QED
  BY <1>1, <1>2, <1>3, <1>4, <1>5, RowsKept

\* A rule is left out if and only if it is switched off.
LEMMA EvaluateStep ==
  ASSUME NEW x \in Executors, Evaluate(x)
  PROVE  \E outcome \in [Rules -> Outcomes \cup {"none"}] :
           /\ \A u \in Rules : outcome[u] = "none" <=> u \in inactive
           /\ exec' = [exec EXCEPT ![x] =
                [step |-> "committing", run |-> exec[x].run, outcome |-> outcome]]
<1>1. PICK found \in [Rules \ inactive -> Outcomes] :
        exec' = [exec EXCEPT ![x] =
          [step |-> "committing", run |-> exec[x].run,
           outcome |-> [u \in Rules |-> IF u \in inactive THEN "none" ELSE found[u]]]]
  BY DEF Evaluate
<1> DEFINE outcome == [u \in Rules |-> IF u \in inactive THEN "none" ELSE found[u]]
<1>2. \A u \in Rules \ inactive : found[u] \in Outcomes
  OBVIOUS
<1>3. \A u \in Rules : outcome[u] = "none" <=> u \in inactive
  BY <1>2 DEF Outcomes
<1>4. outcome \in [Rules -> Outcomes \cup {"none"}]
  BY <1>2
<1> QED
  BY <1>1, <1>3, <1>4

LEMMA EvaluateIInv == ASSUME IInv, NEW x \in Executors, Evaluate(x) PROVE IInv'
<1> USE DEF rowVars, jobVars
<1>0. exec[x] # Idle /\ exec[x].step \in PastGuard /\ UNCHANGED <<rowVars, jobVars, faults>>
  BY DEF Evaluate, At, Idle, PastGuard
<1>1. PICK outcome \in [Rules -> Outcomes \cup {"none"}] :
        exec' = [exec EXCEPT ![x] =
          [step |-> "committing", run |-> exec[x].run, outcome |-> outcome]]
  BY EvaluateStep
<1> DEFINE next == [step |-> "committing", run |-> exec[x].run, outcome |-> outcome]
<1>2. next \in Working /\ next.run = exec[x].run /\ next # Idle
  BY <1>0, WorkerShape DEF IInv, Working, Idle
<1>3. /\ exec' \in [Executors -> Working \cup {Idle}] /\ exec'[x] = next
      /\ \A y \in Executors \ {x} : exec'[y] = exec[y]
  BY <1>1, <1>2, ExecStep DEF IInv
<1> HIDE DEF next
<1>4. TypeOK' /\ JobsFollowRuns'
  BY <1>0, <1>3 DEF IInv, TypeOK, JobsFollowRuns
<1>5. NoOverlap => WorkerHoldsJob'
  BY <1>0, <1>2, <1>3 DEF IInv, Alone, WorkerHoldsJob
<1>6. NoOverlap => GuardStillHolds'
  BY <1>0, <1>2, <1>3 DEF IInv, Alone, GuardStillHolds
<1> QED
  BY <1>0, <1>4, <1>5, <1>6, RowsKept DEF NoOverlap

\* Rows, events and status change together.  An execution that nobody
\* overlapped found no row and leaves one event for each failed rule.
LEMMA CommitResultsIInv == ASSUME IInv, NEW x \in Executors, CommitResults(x) PROVE IInv'
<1> DEFINE r == exec[x].run
           outcome == exec[x].outcome
<1>0. /\ exec[x] # Idle /\ exec[x].step = "committing"
      /\ results' = [results EXCEPT ![r] =
           [u \in Rules |-> IF outcome[u] = "none" THEN results[r][u] ELSE outcome[u]]]
      /\ status' = [status EXCEPT ![r] = FinalStatus(outcome)]
      /\ failEvents' = [failEvents EXCEPT ![r] =
           [u \in Rules |-> failEvents[r][u] + IF outcome[u] = "FAIL" THEN 1 ELSE 0]]
      /\ UNCHANGED <<inactive, steady, jobVars, faults>>
  BY DEF CommitResults, UpsertResults, AddFailEvents, SetStatus, At, Idle
<1>1. r \in Runs /\ outcome \in [Rules -> Outcomes \cup {"none"}]
  BY <1>0, WorkerShape DEF IInv
<1>2. /\ exec' \in [Executors -> Working \cup {Idle}]
      /\ exec'[x].run = r /\ exec'[x].step = "reading"
      /\ \A y \in Executors \ {x} : exec'[y] = exec[y]
  BY <1>0, GotoStep DEF IInv, CommitResults
<1>3. NoOverlap => status[r] \notin Terminal
  BY <1>0 DEF IInv, Alone, GuardStillHolds, PastGuard
<1>4. NoOverlap => job[r] = "active" /\ owner[r] = x
  BY <1>0 DEF IInv, Alone, WorkerHoldsJob
<1> HIDE DEF r, outcome
<1>5. FinalStatus(outcome) \in Terminal
  BY DEF FinalStatus, Terminal
<1>6. /\ status'[r] = FinalStatus(outcome)
      /\ \A u \in Rules :
           results'[r][u] = IF outcome[u] = "none" THEN results[r][u] ELSE outcome[u]
      /\ \A u \in Rules :
           failEvents'[r][u] = failEvents[r][u] + IF outcome[u] = "FAIL" THEN 1 ELSE 0
      /\ \A q \in Runs \ {r} : /\ status'[q] = status[q] /\ results'[q] = results[q]
                               /\ failEvents'[q] = failEvents[q]
  BY <1>0, <1>1 DEF IInv, TypeOK
<1>7. TypeOK'
  <2>1. status' \in [Runs -> Statuses \cup {"none"}]
    BY <1>0, <1>1, <1>5 DEF IInv, TypeOK, Statuses
  <2>2. results' \in [Runs -> [Rules -> Outcomes \cup {"none"}]]
    BY <1>0, <1>1 DEF IInv, TypeOK
  <2>3. failEvents' \in [Runs -> [Rules -> Nat]]
    <3>1. \A u \in Rules : failEvents[r][u] + (IF outcome[u] = "FAIL" THEN 1 ELSE 0) \in Nat
      BY <1>1 DEF IInv, TypeOK
    <3> QED
      BY <1>0, <1>1, <3>1 DEF IInv, TypeOK
  <2> QED
    BY <1>0, <1>2, <2>1, <2>2, <2>3 DEF jobVars, IInv, TypeOK
<1>9. JobsFollowRuns'
  BY <1>0, <1>1, <1>5, <1>6 DEF jobVars, IInv, TypeOK, JobsFollowRuns, Terminal
<1>10. ASSUME NoOverlap PROVE Alone'
  <2>1. WorkerHoldsJob'
    BY <1>0, <1>2, <1>10 DEF r, jobVars, IInv, Alone, WorkerHoldsJob
  <2>2. GuardStillHolds'
    <3> SUFFICES ASSUME NEW y \in Executors, exec'[y].step \in PastGuard
                 PROVE  status'[exec'[y].run] \notin Terminal
      BY DEF GuardStillHolds
    <3>1. y # x
      BY <1>2 DEF PastGuard
    <3>2. exec'[y] = exec[y] /\ exec[y] # Idle
      BY <1>2, <3>1 DEF PastGuard, Idle
    <3>3. exec[y].run \in Runs /\ exec[y].run # r
      BY <1>4, <1>10, <3>1, <3>2, WorkerShape DEF IInv, Alone, WorkerHoldsJob
    <3> QED
      BY <1>6, <1>10, <3>2, <3>3 DEF IInv, Alone, GuardStillHolds
  <2>3. OpenRunHasNoRows'
    BY <1>5, <1>6, <1>10 DEF IInv, Alone, OpenRunHasNoRows
  <2> QED
    BY <2>1, <2>2, <2>3 DEF Alone
<1>11. FailureReportedOnce'
  <2> SUFFICES ASSUME NoOverlap, NEW q \in Runs, NEW u \in Rules
               PROVE  failEvents'[q][u] = IF results'[q][u] = "FAIL" THEN 1 ELSE 0
    BY <1>0 DEF FailureReportedOnce, NoOverlap
  <2>1. CASE q = r
    <3>1. failEvents[r][u] = 0 /\ results[r][u] = "none"
      BY <1>1, <1>3 DEF IInv, Alone, OpenRunHasNoRows
    <3> QED
      BY <1>6, <2>1, <3>1
  <2>2. CASE q # r
    BY <1>6, <2>2 DEF IInv, FailureReportedOnce, NoOverlap
  <2> QED
    BY <2>1, <2>2
<1> QED
  BY <1>0, <1>7, <1>9, <1>10, <1>11 DEF IInv, NoOverlap

LEMMA ReadBackIInv == ASSUME IInv, NEW x \in Executors, ReadBack(x) PROVE IInv'
<1>1. exec[x] # Idle
  BY DEF ReadBack, At, Idle
<1> QED
  BY <1>1, JobSucceedsIInv DEF ReadBack

\* Reading back fails after the commit: the one step to "failing" that comes
\* from an execution past its own guard.
LEMMA ExecutionFailsIInv == ASSUME IInv, NEW x \in Executors, ExecutionFails(x) PROVE IInv'
<1> USE DEF rowVars, jobVars
<1>0. exec[x] # Idle /\ Goto(x, "failing") /\ UNCHANGED <<rowVars, jobVars>>
  BY DEF ExecutionFails, At, Idle
<1>1. /\ faults' \in [Faults -> 0 .. MaxFaults] /\ (NoOverlap' => NoOverlap)
      /\ NoOverlap' => exec[x].step \in PastGuard
  BY FaultStep DEF IInv, ExecutionFails, At, Faults, PastGuard
<1>2. /\ exec' \in [Executors -> Working \cup {Idle}]
      /\ exec'[x].run = exec[x].run /\ exec'[x].step = "failing"
      /\ \A y \in Executors \ {x} : exec'[y] = exec[y]
  BY <1>0, GotoStep DEF IInv
<1>3. TypeOK' /\ JobsFollowRuns'
  BY <1>0, <1>1, <1>2 DEF IInv, TypeOK, JobsFollowRuns
<1>4. NoOverlap => WorkerHoldsJob'
  BY <1>0, <1>2 DEF IInv, Alone, WorkerHoldsJob
<1>5. NoOverlap' => GuardStillHolds'
  BY <1>0, <1>1, <1>2 DEF IInv, Alone, GuardStillHolds
<1> QED
  BY <1>0, <1>1, <1>3, <1>4, <1>5, RowsKept

LEMMA MarkFailedIInv == ASSUME IInv, NEW x \in Executors, MarkFailed(x) PROVE IInv'
<1> DEFINE r == exec[x].run
<1>0. /\ exec[x] # Idle /\ exec[x].step \in PastGuard
      /\ UNCHANGED <<results, failEvents, inactive, steady>>
      /\ AttemptFails(x)
      /\ status' = [status EXCEPT ![r] = "FAILED"] \/ status' = status
  BY DEF MarkFailed, SetStatus, At, Idle, PastGuard
<1>1. r \in Runs
  BY <1>0, WorkerShape DEF IInv
<1>2. faults' \in [Faults -> 0 .. MaxFaults] /\ (NoOverlap' => NoOverlap)
  BY FaultStep DEF IInv, TypeOK, MarkFailed, NoOverlap, Faults
<1>3. NoOverlap => status[r] \notin Terminal
  BY <1>0 DEF IInv, Alone, GuardStillHolds
<1> HIDE DEF r
<1>4. TypeOK'
  <2>1. status' \in [Runs -> Statuses \cup {"none"}]
    BY <1>0, <1>1 DEF IInv, TypeOK, Statuses
  <2> QED
    BY <1>0, <1>2, <2>1, AttemptFailsStep DEF IInv, TypeOK
<1>5. JobsFollowRuns'
  <2>1. \A q \in Runs : status'[q] = "none" => status[q] = "none"
    BY <1>0, <1>1 DEF IInv, TypeOK
  <2> QED
    BY <1>0, <2>1, AttemptFailsStep DEF IInv, JobsFollowRuns
<1>6. \A q \in Runs : status'[q] = status[q] \/ (status'[q] = "FAILED" /\ q = r)
  BY <1>0, <1>1 DEF IInv, TypeOK
<1>8. ASSUME NoOverlap PROVE Alone'
  <2>1. WorkerHoldsJob'
    BY <1>0, <1>8, AttemptFailsStep DEF IInv, Alone
  <2>2. GuardStillHolds'
    <3> SUFFICES ASSUME NEW y \in Executors, exec'[y].step \in PastGuard
                 PROVE  status'[exec'[y].run] \notin Terminal
      BY DEF GuardStillHolds
    <3>1. exec'[y] = exec[y] /\ exec[y] # Idle
      BY <1>0, AttemptFailsStep DEF PastGuard, Idle
    <3>2. exec[y].run \in Runs /\ status[exec[y].run] \notin Terminal
      BY <1>8, <3>1, WorkerShape DEF IInv, Alone, GuardStillHolds
    <3> QED
      BY <1>6, <3>1, <3>2 DEF Terminal
  <2>3. OpenRunHasNoRows'
    BY <1>0, <1>3, <1>6, <1>8 DEF IInv, Alone, OpenRunHasNoRows
  <2> QED
    BY <2>1, <2>2, <2>3 DEF Alone
<1>9. FailureReportedOnce'
  BY <1>0, <1>2 DEF IInv, FailureReportedOnce, NoOverlap
<1> QED
  BY <1>2, <1>4, <1>5, <1>8, <1>9 DEF IInv

---------------------------------------------------------------------------

\* What an administrator's switch and a stuttering step leave alone.
runVars == <<status, results, failEvents, jobVars, exec, faults>>

LEMMA RunsUntouched ==
  ASSUME UNCHANGED vars \/ \E u \in Rules : SwitchRule(u) PROVE UNCHANGED runVars
BY DEF vars, rowVars, jobVars, runVars, SwitchRule

LEMMA SwitchRuleIInv == ASSUME IInv, NEW u \in Rules, SwitchRule(u) PROVE IInv'
<1>1. UNCHANGED runVars
  BY RunsUntouched
<1> USE <1>1 DEF runVars, jobVars
<1>2. inactive' \subseteq Rules /\ steady' \in [Runs -> SUBSET Rules]
  BY DEF SwitchRule, IInv, TypeOK
<1>3. TypeOK' /\ JobsFollowRuns' /\ FailureReportedOnce'
  BY <1>2 DEF IInv, TypeOK, JobsFollowRuns, FailureReportedOnce
<1>4. NoOverlap' => Alone'
  BY DEF IInv, NoOverlap, Alone, WorkerHoldsJob, GuardStillHolds, OpenRunHasNoRows
<1> QED
  BY <1>3, <1>4 DEF IInv

LEMMA NextIInv == ASSUME IInv, [Next]_vars PROVE IInv'
<1>1. ASSUME NEW r \in Runs,
             \/ CreateRun(r) \/ EnqueueRun(r) \/ TriggerFails(r)
             \/ ReclaimAbandoned(r) \/ JobStalls(r)
             \/ \E x \in Executors : TakeJob(x, r)
      PROVE  IInv'
  BY <1>1, CreateRunIInv, EnqueueRunIInv, TriggerFailsIInv, ReclaimAbandonedIInv,
     JobStallsIInv, TakeJobIInv
<1>2. ASSUME NEW x \in Executors, ExecutorStep(x) PROVE IInv'
  BY <1>2, LoadRunIInv, MarkRunningIInv, EvaluateIInv, CommitResultsIInv, ReadBackIInv,
     MarkFailedIInv DEF ExecutorStep
<1>3. ASSUME NEW x \in Executors, StartFails(x) \/ ExecutionFails(x) \/ ExecutorDies(x)
      PROVE  IInv'
  BY <1>3, StartFailsIInv, ExecutionFailsIInv, ExecutorDiesIInv
<1>4. ASSUME UNCHANGED vars PROVE IInv'
  <2> USE <1>4 DEF vars, rowVars, jobVars
  <2>1. TypeOK' /\ JobsFollowRuns' /\ FailureReportedOnce'
    BY DEF IInv, TypeOK, JobsFollowRuns, FailureReportedOnce
  <2>2. NoOverlap' => Alone'
    BY DEF IInv, NoOverlap, Alone, WorkerHoldsJob, GuardStillHolds, OpenRunHasNoRows
  <2> QED
    BY <2>1, <2>2 DEF IInv
<1>5. ASSUME NEW u \in Rules, SwitchRule(u) PROVE IInv'
  BY <1>5, SwitchRuleIInv
<1> QED
  BY <1>1, <1>2, <1>3, <1>4, <1>5 DEF Next

LEMMA SpecIInv == Spec => []IInv
<1>1. Init => IInv
  BY InitIInv
<1>2. IInv /\ [Next]_vars => IInv'
  BY NextIInv
<1> QED
  BY <1>1, <1>2, PTL DEF Spec

\* Type correctness of executeRun and its job: the status column, the result
\* rows and the job's attempts stay within their domains.
THEOREM TypeCorrect == Spec => []TypeOK
<1>1. IInv => TypeOK
  BY DEF IInv
<1> QED
  BY <1>1, SpecIInv, PTL

\* The terminal guard of executeRun makes at-least-once delivery of the job
\* safe: retries, crashes and failed writes never duplicate or lose a
\* ValidationFailed event while no lock expired under a live executor and no
\* read-back failed.
THEOREM FailureReportedOnceAlways == Spec => []FailureReportedOnce
<1>1. IInv => FailureReportedOnce
  BY DEF IInv
<1> QED
  BY <1>1, SpecIInv, PTL

\* A completed run keeps its status, its rows and its events: the three steps
\* of executeRun that write rows find the run open.
THEOREM CompletedRunIsKeptAlways == Spec => CompletedRunIsKept
<1> DEFINE Kept(r) == /\ status'[r] = status[r]
                      /\ results'[r] = results[r]
                      /\ failEvents'[r] = failEvents[r]
           Final == \A r \in Runs :
             status[r] \in Terminal /\ faults'["stall"] + faults'["readback"] = 0 => Kept(r)
<1>1. ASSUME IInv, IInv', [Next]_vars PROVE Final
  <2> SUFFICES ASSUME NEW r \in Runs, status[r] \in Terminal, NoOverlap'
               PROVE  Kept(r)
    BY DEF NoOverlap
  <2> USE <1>1
  <2>1. ASSUME UNCHANGED rowVars PROVE Kept(r)
    BY <2>1 DEF rowVars
  <2>2. ASSUME NEW q \in Runs, CreateRun(q) PROVE Kept(r)
    BY <2>2 DEF CreateRun, SetStatus, IInv, TypeOK, Terminal
  <2>3. ASSUME NEW x \in Executors, MarkRunning(x) \/ CommitResults(x) \/ MarkFailed(x)
        PROVE  Kept(r)
    <3>1. exec[x] # Idle /\ exec[x].step \in PastGuard
      BY <2>3 DEF MarkRunning, CommitResults, MarkFailed, At, Idle, PastGuard
    <3>2. NoOverlap
      <4>1. CASE MarkRunning(x) \/ CommitResults(x)
        BY <4>1 DEF MarkRunning, CommitResults, NoOverlap
      <4>2. CASE MarkFailed(x)
        BY <4>2, FaultStep DEF MarkFailed, IInv, NoOverlap, Faults
      <4> QED
        BY <2>3, <4>1, <4>2
    <3>3. exec[x].run \in Runs /\ exec[x].run # r
      BY <3>1, <3>2, WorkerShape DEF IInv, Alone, GuardStillHolds
    <3> QED
      BY <2>3, <3>3 DEF MarkRunning, CommitResults, MarkFailed, SetStatus, UpsertResults, AddFailEvents,
                        IInv, TypeOK
  <2>4. ASSUME NEW q \in Runs,
               \/ EnqueueRun(q) \/ TriggerFails(q) \/ ReclaimAbandoned(q) \/ JobStalls(q)
               \/ \E x \in Executors : TakeJob(x, q)
        PROVE  UNCHANGED rowVars
    BY <2>4 DEF EnqueueRun, TriggerFails, ReclaimAbandoned, JobStalls, LockExpires, TakeJob
  <2>5. ASSUME NEW x \in Executors,
               \/ LoadRun(x) \/ Evaluate(x) \/ ReadBack(x)
               \/ StartFails(x) \/ ExecutionFails(x) \/ ExecutorDies(x)
        PROVE  UNCHANGED rowVars
    BY <2>5 DEF LoadRun, Evaluate, ReadBack, StartFails, ExecutionFails, ExecutorDies, rowVars
  <2>6. CASE UNCHANGED runVars
    BY <2>6 DEF runVars
  <2>7. CASE Next
    BY <2>1, <2>2, <2>3, <2>4, <2>5, <2>6, <2>7, RunsUntouched DEF Next, ExecutorStep
  <2> QED
    BY <1>1, <2>6, <2>7, RunsUntouched
<1> QED
  BY <1>1, SpecIInv, PTL DEF Spec, CompletedRunIsKept
---------------------------------------------------------------------------
(* Runs that are left behind                                               *)

Failures == faults["infra"] + faults["readback"]
Losses   == faults["crash"] + faults["stall"]

\* Each attempt that was spent met a failure of its own, and so did the one
\* its holder is about to give up.
AttemptsPaidFor ==
  \A r \in Runs :
    /\ attempts[r] <= Failures
    /\ \A x \in Executors :
         owner[r] = x /\ exec[x].step = "failing" /\ exec[x].run = r => attempts[r] < Failures

\* So did each lock that has expired or is about to.
LocksPaidFor ==
  \A r \in Runs :
    /\ r \in stalled \/ Abandoned(r) => Losses >= 1
    /\ r \in stalled /\ Abandoned(r) => Losses >= 2

\* Why a job is where it is.
JobsAreExplained ==
  \A r \in Runs :
    /\ job[r] = "failed" => attempts[r] = MaxAttempts \/ Losses >= 2
    /\ job[r] = "none" => status[r] = "none" \/ r \in triggering \/ faults["trigger"] > 0
    /\ job[r] = "active" => owner[r] \in Executors
    /\ job[r] = "completed" => status[r] # "PENDING"

\* The steps after MarkRunning.
Begun == {"evaluating", "committing", "reading", "failing"}

BegunIsMarked ==
  \A x \in Executors :
    /\ exec[x] # Idle => status[exec[x].run] # "none"
    /\ exec[x].step \in Begun => status[exec[x].run] \notin {"none", "PENDING"}

\* A job that was never executed twice at once completes with its run.
CompletedWithRun ==
  faults["stall"] = 0 =>
    /\ WorkerHoldsJob
    /\ \A x \in Executors : exec[x].step = "reading" => status[exec[x].run] \in Terminal
    /\ \A r \in Runs : job[r] = "completed" => status[r] \in Terminal

\* Without failures, what is marked as running is running.
RunningIsExecuted ==
  Failures + faults["crash"] = 0 =>
    /\ \A x \in Executors : exec[x].step # "failing"
    /\ \A r \in Runs :
         /\ status[r] # "FAILED"
         /\ status[r] = "RUNNING" =>
              \E x \in Executors : exec[x].step \in {"evaluating", "committing"} /\ exec[x].run = r

ReachInv ==
  /\ AttemptsPaidFor /\ LocksPaidFor /\ JobsAreExplained
  /\ BegunIsMarked /\ CompletedWithRun /\ RunningIsExecuted

LEMMA FaultCounts ==
  ASSUME TypeOK, NEW kind \in Faults, Fault(kind)
  PROVE  /\ faults'[kind] = faults[kind] + 1
         /\ \A k \in Faults \ {kind} : faults'[k] = faults[k]
         /\ \A k \in Faults : faults[k] \in Nat /\ faults'[k] \in Nat /\ faults'[k] >= faults[k]
<1>1. faults \in [Faults -> 0 .. MaxFaults] /\ faults' = [faults EXCEPT ![kind] = faults[kind] + 1]
  BY DEF Fault, TypeOK
<1>2. \A k \in Faults : faults[k] \in Nat
  BY <1>1, ValidationRunAssumption
<1> QED
  BY <1>1, <1>2

\* What an executor's step makes of the executors, and of its job.
Moves(x) ==
  /\ exec[x] # Idle /\ exec[x].run \in Runs
  /\ \A y \in Executors \ {x} : exec'[y] = exec[y]
  /\ triggering' = triggering /\ stalled' = stalled

GoesOn(x) ==
  /\ Moves(x) /\ UNCHANGED jobVars
  /\ exec'[x] # Idle /\ exec'[x].run = exec[x].run
  /\ <<exec[x].step, exec'[x].step>> \in
       {<<"loading", "starting">>, <<"starting", "evaluating">>, <<"evaluating", "committing">>,
        <<"committing", "reading">>, <<"evaluating", "failing">>, <<"committing", "failing">>,
        <<"reading", "failing">>}

\* The holder of the job gives it back.
GivesBack(x, to) ==
  /\ Moves(x) /\ exec'[x] = Idle
  /\ owner[exec[x].run] = x =>
       job' = [job EXCEPT ![exec[x].run] = to] /\ owner' = [owner EXCEPT ![exec[x].run] = Nobody]
  /\ owner[exec[x].run] # x => UNCHANGED <<job, owner, attempts>>

\* ... because the processor resolved,
Completes(x) == GivesBack(x, "completed") /\ attempts' = attempts

\* ... or because it rejected.
Rejects(x) ==
  /\ GivesBack(x, IF attempts[exec[x].run] + 1 < MaxAttempts THEN "waiting" ELSE "failed")
  /\ owner[exec[x].run] = x =>
       attempts' = [attempts EXCEPT ![exec[x].run] = attempts[exec[x].run] + 1]

LEMMA ExecutorsMove ==
  ASSUME IInv, NEW x \in Executors
  PROVE  /\ LoadRun(x) => Completes(x) \/ (GoesOn(x) /\ exec'[x].step = "starting")
         /\ MarkRunning(x) => GoesOn(x) /\ exec'[x].step = "evaluating"
         /\ Evaluate(x) => GoesOn(x) /\ exec'[x].step = "committing"
         /\ CommitResults(x) => GoesOn(x) /\ exec'[x].step = "reading"
         /\ ExecutionFails(x) => GoesOn(x) /\ exec'[x].step = "failing"
         /\ ReadBack(x) => Completes(x)
         /\ StartFails(x) \/ MarkFailed(x) => Rejects(x)
         /\ ExecutorDies(x) => Moves(x) /\ exec'[x] = Idle /\ UNCHANGED jobVars
<1> USE DEF IInv
<1>1. ASSUME exec[x] # Idle, NEW step \in {"starting", "evaluating", "reading", "failing"}, Goto(x, step),
             <<exec[x].step, step>> \in
               {<<"loading", "starting">>, <<"starting", "evaluating">>, <<"committing", "reading">>,
                <<"evaluating", "failing">>, <<"committing", "failing">>, <<"reading", "failing">>},
             UNCHANGED jobVars
      PROVE  GoesOn(x) /\ exec'[x].step = step
  BY <1>1, GotoStep, WorkerShape DEF GoesOn, Moves, Idle, jobVars
<1>2. ASSUME exec[x] # Idle, JobSucceeds(x)
      PROVE  Completes(x)
  BY <1>2, LeaveStep, WorkerShape DEF JobSucceeds, Release, Completes, GivesBack, Moves
<1>3. ASSUME exec[x] # Idle, AttemptFails(x)
      PROVE  Rejects(x)
  BY <1>3, LeaveStep, WorkerShape DEF AttemptFails, Release, Rejects, GivesBack, Moves
<1>4. LoadRun(x) => Completes(x) \/ (GoesOn(x) /\ exec'[x].step = "starting")
  BY <1>1, <1>2 DEF LoadRun, At, Idle
<1>5. MarkRunning(x) => GoesOn(x) /\ exec'[x].step = "evaluating"
  BY <1>1 DEF MarkRunning, At, Idle
<1>6. Evaluate(x) => GoesOn(x) /\ exec'[x].step = "committing"
  <2> SUFFICES ASSUME Evaluate(x) PROVE GoesOn(x) /\ exec'[x].step = "committing"
    OBVIOUS
  <2>1. PICK outcome \in [Rules -> Outcomes \cup {"none"}] :
          exec' = [exec EXCEPT ![x] =
            [step |-> "committing", run |-> exec[x].run, outcome |-> outcome]]
    BY EvaluateStep
  <2>2. exec[x] # Idle /\ exec[x].step = "evaluating" /\ UNCHANGED jobVars
    BY DEF Evaluate, At, Idle
  <2>3. /\ exec'[x] = [step |-> "committing", run |-> exec[x].run, outcome |-> outcome]
        /\ \A y \in Executors \ {x} : exec'[y] = exec[y]
    BY <2>1 DEF TypeOK
  <2>4. exec'[x].step = "committing" /\ exec'[x].run = exec[x].run /\ exec'[x] # Idle
    BY <2>3 DEF Idle
  <2> QED
    BY <2>2, <2>3, <2>4, WorkerShape DEF GoesOn, Moves, jobVars
<1>7. CommitResults(x) => GoesOn(x) /\ exec'[x].step = "reading"
  BY <1>1 DEF CommitResults, At, Idle
<1>8. ExecutionFails(x) => GoesOn(x) /\ exec'[x].step = "failing"
  BY <1>1 DEF ExecutionFails, At, Idle
<1>9. ReadBack(x) => Completes(x)
  BY <1>2 DEF ReadBack, At, Idle
<1>10. StartFails(x) \/ MarkFailed(x) => Rejects(x)
  BY <1>3 DEF StartFails, MarkFailed, At, Idle
<1>11. ExecutorDies(x) => Moves(x) /\ exec'[x] = Idle /\ UNCHANGED jobVars
  BY LeaveStep, WorkerShape DEF ExecutorDies, Moves, jobVars
<1> QED
  BY <1>4, <1>5, <1>6, <1>7, <1>8, <1>9, <1>10, <1>11

\* Of the failures that are counted, none is forgotten.
LEMMA CountsGrow ==
  ASSUME IInv, [Next]_vars
  PROVE  /\ \A k \in Faults : faults[k] \in Nat /\ faults'[k] \in Nat /\ faults'[k] >= faults[k]
         /\ Failures \in Nat /\ Failures' \in Nat /\ Failures' >= Failures
         /\ Losses \in Nat /\ Losses' \in Nat /\ Losses' >= Losses
         /\ Failures + faults["crash"] = 0 <=>
              faults["infra"] = 0 /\ faults["readback"] = 0 /\ faults["crash"] = 0
         /\ Failures' + faults'["crash"] = 0 <=>
              faults'["infra"] = 0 /\ faults'["readback"] = 0 /\ faults'["crash"] = 0
<1> USE DEF IInv
<1>1. \A k \in Faults : faults[k] \in Nat
  BY ValidationRunAssumption DEF TypeOK
<1>2. \/ faults' = faults
      \/ \E kind \in Faults : Fault(kind)
  <2>1. CASE UNCHANGED runVars
    BY <2>1 DEF runVars
  <2>2. ASSUME NEW r \in Runs, CreateRun(r) \/ EnqueueRun(r) \/ ReclaimAbandoned(r)
                               \/ \E x \in Executors : TakeJob(x, r)
        PROVE  faults' = faults
    BY <2>2 DEF CreateRun, EnqueueRun, ReclaimAbandoned, TakeJob
  <2>3. ASSUME NEW r \in Runs, TriggerFails(r) \/ JobStalls(r)
        PROVE  \E kind \in Faults : Fault(kind)
    BY <2>3 DEF TriggerFails, JobStalls, Faults
  <2>4. ASSUME NEW x \in Executors, LoadRun(x) \/ MarkRunning(x) \/ Evaluate(x)
                                    \/ CommitResults(x) \/ ReadBack(x)
        PROVE  faults' = faults
    BY <2>4 DEF LoadRun, MarkRunning, Evaluate, CommitResults, ReadBack
  <2>5. ASSUME NEW x \in Executors, MarkFailed(x)
        PROVE  faults' = faults \/ \E kind \in Faults : Fault(kind)
    BY <2>5 DEF MarkFailed, Faults
  <2>6. ASSUME NEW x \in Executors, StartFails(x) \/ ExecutionFails(x) \/ ExecutorDies(x)
        PROVE  \E kind \in Faults : Fault(kind)
    BY <2>6 DEF StartFails, ExecutionFails, ExecutorDies, Faults
  <2> QED
    BY <2>1, <2>2, <2>3, <2>4, <2>5, <2>6, RunsUntouched DEF Next, ExecutorStep
<1>3. \A k \in Faults : faults[k] \in Nat /\ faults'[k] \in Nat /\ faults'[k] >= faults[k]
  <2>1. CASE faults' = faults
    BY <1>1, <2>1
  <2>2. CASE \E kind \in Faults : Fault(kind)
    BY <2>2, FaultCounts
  <2> QED
    BY <1>2, <2>1, <2>2
<1>4. /\ faults["infra"] \in Nat /\ faults'["infra"] \in Nat /\ faults'["infra"] >= faults["infra"]
      /\ faults["readback"] \in Nat /\ faults'["readback"] \in Nat
      /\ faults'["readback"] >= faults["readback"]
      /\ faults["crash"] \in Nat /\ faults'["crash"] \in Nat /\ faults'["crash"] >= faults["crash"]
      /\ faults["stall"] \in Nat /\ faults'["stall"] \in Nat /\ faults'["stall"] >= faults["stall"]
  BY <1>3 DEF Faults
<1> DEFINE i == faults["infra"]   i1 == faults'["infra"]
           b == faults["readback"] b1 == faults'["readback"]
           c == faults["crash"]   c1 == faults'["crash"]
           s == faults["stall"]   s1 == faults'["stall"]
<1>5. /\ Failures = i + b /\ Failures' = i1 + b1
      /\ Losses = c + s /\ Losses' = c1 + s1
  BY DEF Failures, Losses
<1>6. /\ i \in Nat /\ b \in Nat /\ c \in Nat /\ s \in Nat
      /\ i1 \in Nat /\ b1 \in Nat /\ c1 \in Nat /\ s1 \in Nat
      /\ i1 >= i /\ b1 >= b /\ c1 >= c /\ s1 >= s
  BY <1>4
<1> HIDE DEF i, i1, b, b1, c, c1, s, s1
<1>7. /\ i + b \in Nat /\ i1 + b1 \in Nat /\ i1 + b1 >= i + b
      /\ c + s \in Nat /\ c1 + s1 \in Nat /\ c1 + s1 >= c + s
      /\ i + b + c = 0 <=> i = 0 /\ b = 0 /\ c = 0
      /\ i1 + b1 + c1 = 0 <=> i1 = 0 /\ b1 = 0 /\ c1 = 0
  BY <1>6
<1>8. /\ \A k \in Faults : faults[k] \in Nat /\ faults'[k] \in Nat /\ faults'[k] >= faults[k]
      /\ Failures \in Nat /\ Failures' \in Nat /\ Failures' >= Failures
      /\ Losses \in Nat /\ Losses' \in Nat /\ Losses' >= Losses
  BY <1>3, <1>5, <1>7
<1>9. /\ Failures + c = 0 <=> i = 0 /\ b = 0 /\ c = 0
      /\ Failures' + c1 = 0 <=> i1 = 0 /\ b1 = 0 /\ c1 = 0
  BY <1>5, <1>7
<1> QED
  BY <1>8, <1>9 DEF i, i1, b, b1, c, c1

LEMMA FailuresCounted ==
  ASSUME IInv
  PROVE  /\ \A x \in Executors : StartFails(x) \/ ExecutionFails(x) => Failures' = Failures + 1
         /\ \A x \in Executors : ExecutorDies(x) => Losses' = Losses + 1 /\ faults'["crash"] > 0
         /\ \A r \in Runs : JobStalls(r) => Losses' = Losses + 1 /\ faults'["stall"] > 0
         /\ \A r \in Runs : TriggerFails(r) => faults'["trigger"] > 0
<1> USE DEF IInv
<1>1. ASSUME NEW kind \in Faults, Fault(kind)
      PROVE  /\ faults'[kind] > 0
             /\ kind \in {"infra", "readback"} => Failures' = Failures + 1
             /\ kind \in {"crash", "stall"} => Losses' = Losses + 1
  <2>1. /\ faults'[kind] = faults[kind] + 1 /\ faults[kind] \in Nat
        /\ \A k \in Faults \ {kind} : faults'[k] = faults[k]
        /\ \A k \in Faults : faults[k] \in Nat
    BY <1>1, FaultCounts
  <2>2. kind = "infra" => faults'["infra"] = faults["infra"] + 1 /\ faults'["readback"] = faults["readback"]
    BY <2>1 DEF Faults
  <2>3. kind = "readback" => faults'["infra"] = faults["infra"] /\ faults'["readback"] = faults["readback"] + 1
    BY <2>1 DEF Faults
  <2>4. kind = "crash" => faults'["crash"] = faults["crash"] + 1 /\ faults'["stall"] = faults["stall"]
    BY <2>1 DEF Faults
  <2>5. kind = "stall" => faults'["crash"] = faults["crash"] /\ faults'["stall"] = faults["stall"] + 1
    BY <2>1 DEF Faults
  <2>6. /\ faults["infra"] \in Nat /\ faults["readback"] \in Nat
        /\ faults["crash"] \in Nat /\ faults["stall"] \in Nat
    BY <2>1 DEF Faults
  <2>7. kind \in {"infra", "readback"} => Failures' = Failures + 1
    BY <2>2, <2>3, <2>6 DEF Failures
  <2>8. kind \in {"crash", "stall"} => Losses' = Losses + 1
    BY <2>4, <2>5, <2>6 DEF Losses
  <2> QED
    BY <2>1, <2>7, <2>8
<1>2. \A x \in Executors : StartFails(x) \/ ExecutionFails(x) => Failures' = Failures + 1
  BY <1>1 DEF StartFails, ExecutionFails, Faults
<1>3. \A x \in Executors : ExecutorDies(x) => Losses' = Losses + 1 /\ faults'["crash"] > 0
  BY <1>1 DEF ExecutorDies, Faults
<1>4. \A r \in Runs : JobStalls(r) => Losses' = Losses + 1 /\ faults'["stall"] > 0
  BY <1>1 DEF JobStalls, Faults
<1>5. \A r \in Runs : TriggerFails(r) => faults'["trigger"] > 0
  BY <1>1 DEF TriggerFails, Faults
<1> QED
  BY <1>2, <1>3, <1>4, <1>5

\* An executor touches the status of its own run only.
LEMMA StatusMoves ==
  ASSUME IInv, NEW x \in Executors
  PROVE  /\ LoadRun(x) \/ Evaluate(x) \/ ReadBack(x) => status' = status
         /\ StartFails(x) \/ ExecutionFails(x) \/ ExecutorDies(x) => status' = status
         /\ MarkRunning(x) \/ CommitResults(x) \/ MarkFailed(x) =>
              \A r \in Runs \ {exec[x].run} : status'[r] = status[r]
         /\ MarkRunning(x) => status'[exec[x].run] = "RUNNING"
         /\ CommitResults(x) => status'[exec[x].run] \in Terminal
         /\ MarkFailed(x) => status' = status \/ status'[exec[x].run] = "FAILED"
<1>1. ASSUME \/ LoadRun(x) \/ Evaluate(x) \/ ReadBack(x)
             \/ StartFails(x) \/ ExecutionFails(x) \/ ExecutorDies(x)
      PROVE  status' = status
  BY <1>1 DEF LoadRun, Evaluate, ReadBack, StartFails, ExecutionFails, ExecutorDies, rowVars
<1>2. MarkRunning(x) \/ CommitResults(x) \/ MarkFailed(x) => exec[x] # Idle
  BY DEF MarkRunning, CommitResults, MarkFailed, At, Idle
<1>3. MarkRunning(x) \/ CommitResults(x) \/ MarkFailed(x) => exec[x].run \in Runs
  BY <1>2, WorkerShape DEF IInv
<1>4. status \in [Runs -> Statuses \cup {"none"}]
  BY DEF IInv, TypeOK
<1>5. MarkRunning(x) \/ CommitResults(x) \/ MarkFailed(x) =>
        \A r \in Runs \ {exec[x].run} : status'[r] = status[r]
  BY <1>4 DEF MarkRunning, CommitResults, MarkFailed, SetStatus
<1>6. MarkRunning(x) => status'[exec[x].run] = "RUNNING"
  BY <1>3, <1>4 DEF MarkRunning, SetStatus
<1>7. CommitResults(x) => status'[exec[x].run] \in Terminal
  BY <1>3, <1>4 DEF CommitResults, SetStatus, FinalStatus, Terminal
<1>8. MarkFailed(x) => status' = status \/ status'[exec[x].run] = "FAILED"
  BY <1>3, <1>4 DEF MarkFailed, SetStatus
<1> QED
  BY <1>1, <1>5, <1>6, <1>7, <1>8

LEMMA OwnStatusOnly ==
  ASSUME IInv, NEW x \in Executors, NEW r \in Runs,
         ExecutorStep(x) \/ StartFails(x) \/ ExecutionFails(x) \/ ExecutorDies(x),
         status'[r] # status[r]
  PROVE  r = exec[x].run /\ status'[r] \in {"RUNNING", "FAILED"} \cup Terminal
<1>1. MarkRunning(x) \/ CommitResults(x) \/ MarkFailed(x)
  BY StatusMoves DEF ExecutorStep
<1>2. r = exec[x].run
  BY <1>1, StatusMoves
<1>3. status'[r] \in {"RUNNING", "FAILED"} \cup Terminal
  <2>1. CASE MarkRunning(x)
    BY <1>2, <2>1, StatusMoves
  <2>2. CASE CommitResults(x)
    BY <1>2, <2>2, StatusMoves
  <2>3. CASE MarkFailed(x)
    BY <1>2, <2>3, StatusMoves
  <2> QED
    BY <1>1, <2>1, <2>2, <2>3
<1> QED
  BY <1>2, <1>3

LEMMA AttemptsPaidForKept ==
  ASSUME IInv, ReachInv, [Next]_vars PROVE AttemptsPaidFor'
<1> USE DEF IInv
<1>0. /\ attempts \in [Runs -> Nat] /\ owner \in [Runs -> Executors \cup {Nobody}]
      /\ Failures \in Nat /\ Failures' \in Nat /\ Failures' >= Failures
      /\ Nobody \notin Executors /\ AttemptsPaidFor
  BY CountsGrow, ValidationRunAssumption DEF TypeOK, ReachInv
<1>1. ASSUME attempts' = attempts, \A r \in Runs : owner'[r] \in {owner[r], Nobody},
             \A y \in Executors : exec'[y].step = "failing" => exec'[y] = exec[y]
      PROVE  AttemptsPaidFor'
  BY <1>0, <1>1 DEF AttemptsPaidFor
<1>2. CASE UNCHANGED runVars
  BY <1>1, <1>2 DEF runVars, jobVars
<1>3. ASSUME NEW r \in Runs, CreateRun(r) \/ EnqueueRun(r) \/ TriggerFails(r)
      PROVE  AttemptsPaidFor'
  BY <1>1, <1>3 DEF CreateRun, EnqueueRun, TriggerFails
<1>4. ASSUME NEW r \in Runs, ReclaimAbandoned(r) \/ JobStalls(r)
      PROVE  AttemptsPaidFor'
  BY <1>0, <1>1, <1>4 DEF ReclaimAbandoned, JobStalls, LockExpires, Release
<1>5. ASSUME NEW r \in Runs, NEW x \in Executors, TakeJob(x, r)
      PROVE  AttemptsPaidFor'
  <2>1. /\ attempts' = attempts /\ owner' = [owner EXCEPT ![r] = x]
        /\ exec' = [exec EXCEPT ![x] = [step |-> "loading", run |-> r]] /\ exec[x] = Idle
    BY <1>5 DEF TakeJob
  <2>2. exec'[x].step = "loading" /\ \A y \in Executors \ {x} : exec'[y] = exec[y]
    BY <2>1 DEF TypeOK
  <2> QED
    BY <1>0, <2>1, <2>2 DEF AttemptsPaidFor
<1>6. ASSUME NEW x \in Executors, GoesOn(x), exec'[x].step # "failing" PROVE AttemptsPaidFor'
  BY <1>0, <1>1, <1>6 DEF GoesOn, Moves, jobVars
<1>7. ASSUME NEW x \in Executors, GoesOn(x), Failures' = Failures + 1 PROVE AttemptsPaidFor'
  BY <1>0, <1>7 DEF AttemptsPaidFor, GoesOn, Moves, jobVars
<1>8. ASSUME NEW x \in Executors, Completes(x) PROVE AttemptsPaidFor'
  BY <1>0, <1>1, <1>8 DEF Completes, GivesBack, Moves, Idle
<1>9. ASSUME NEW x \in Executors, Rejects(x),
             exec[x].step = "failing" \/ Failures' = Failures + 1
      PROVE  AttemptsPaidFor'
  <2> DEFINE q == exec[x].run
  <2>1. /\ q \in Runs /\ exec'[x] = Idle
        /\ \A y \in Executors \ {x} : exec'[y] = exec[y]
        /\ owner[q] = x => /\ owner' = [owner EXCEPT ![q] = Nobody]
                           /\ attempts' = [attempts EXCEPT ![q] = attempts[q] + 1]
        /\ owner[q] # x => UNCHANGED <<owner, attempts>>
    BY <1>9 DEF Rejects, GivesBack, Moves
  <2>2. CASE owner[q] # x
    BY <1>0, <1>1, <2>1, <2>2 DEF Idle
  <2>3. CASE owner[q] = x
    <3>1. attempts[q] + 1 <= Failures'
      BY <1>0, <1>9, <2>1, <2>3 DEF AttemptsPaidFor
    <3> HIDE DEF q
    <3> QED
      BY <1>0, <2>1, <2>3, <3>1 DEF AttemptsPaidFor, Idle
  <2> QED
    BY <2>2, <2>3
<1>10. ASSUME NEW x \in Executors, ExecutorDies(x) PROVE AttemptsPaidFor'
  BY <1>0, <1>1, <1>10, ExecutorsMove DEF Moves, jobVars, Idle
<1>11. ASSUME NEW x \in Executors, ExecutorStep(x) \/ StartFails(x) \/ ExecutionFails(x)
       PROVE  AttemptsPaidFor'
  <2>1. CASE LoadRun(x) \/ MarkRunning(x) \/ Evaluate(x) \/ CommitResults(x) \/ ReadBack(x)
    BY <1>6, <1>8, <2>1, ExecutorsMove
  <2>2. CASE MarkFailed(x) \/ StartFails(x)
    BY <1>9, <2>2, ExecutorsMove, FailuresCounted DEF MarkFailed, At
  <2>3. CASE ExecutionFails(x)
    BY <1>7, <2>3, ExecutorsMove, FailuresCounted
  <2> QED
    BY <1>11, <2>1, <2>2, <2>3 DEF ExecutorStep
<1> QED
  BY <1>2, <1>3, <1>4, <1>5, <1>10, <1>11, RunsUntouched DEF Next

\* A job loses its executor, without being given back, by the executor's death only.
LEMMA AbandonedByDeath ==
  ASSUME IInv, ReachInv, NEW r \in Runs, [Next]_vars, Abandoned(r)', ~Abandoned(r)
  PROVE  \E x \in Executors : ExecutorDies(x)
<1> USE DEF IInv, Abandoned
<1>0. /\ owner \in [Runs -> Executors \cup {Nobody}] /\ job \in [Runs -> JobStates]
      /\ job'[r] = "active" /\ ~ (exec'[owner'[r]] # Idle /\ exec'[owner'[r]].run = r)
      /\ job[r] = "active" => owner[r] \in Executors /\ exec[owner[r]] # Idle /\ exec[owner[r]].run = r
  BY DEF TypeOK, ReachInv, JobsAreExplained
<1>1. ASSUME job'[r] = job[r], owner'[r] = owner[r],
             job[r] = "active" => exec'[owner[r]] # Idle /\ exec'[owner[r]].run = exec[owner[r]].run
      PROVE  FALSE
  BY <1>0, <1>1
<1>2. ~UNCHANGED runVars
  BY <1>0 DEF runVars, jobVars
<1>3. ASSUME NEW q \in Runs, CreateRun(q) \/ EnqueueRun(q) \/ TriggerFails(q)
      PROVE  FALSE
  BY <1>0, <1>3 DEF CreateRun, EnqueueRun, TriggerFails
<1>4. ASSUME NEW q \in Runs, ReclaimAbandoned(q) \/ JobStalls(q)
      PROVE  FALSE
  BY <1>0, <1>4 DEF ReclaimAbandoned, JobStalls, LockExpires, Release
<1>5. ASSUME NEW q \in Runs, NEW x \in Executors, TakeJob(x, q)
      PROVE  FALSE
  <2>1. /\ job' = [job EXCEPT ![q] = "active"] /\ owner' = [owner EXCEPT ![q] = x]
        /\ exec' = [exec EXCEPT ![x] = [step |-> "loading", run |-> q]] /\ exec[x] = Idle
    BY <1>5 DEF TakeJob
  <2>2. /\ exec'[x].run = q /\ exec'[x] # Idle
        /\ \A y \in Executors \ {x} : exec'[y] = exec[y]
    BY <2>1 DEF TypeOK, Idle
  <2>3. CASE r = q
    BY <1>0, <2>1, <2>2, <2>3
  <2>4. CASE r # q
    BY <1>0, <2>1, <2>2, <2>4
  <2> QED
    BY <2>3, <2>4
<1>6. ASSUME NEW x \in Executors, GoesOn(x) PROVE FALSE
  BY <1>0, <1>1, <1>6 DEF GoesOn, Moves, jobVars
<1>7. ASSUME NEW x \in Executors, NEW to \in {"completed", "waiting", "failed"}, GivesBack(x, to)
      PROVE  FALSE
  <2> DEFINE q == exec[x].run
  <2>1. /\ q \in Runs /\ \A y \in Executors \ {x} : exec'[y] = exec[y]
        /\ owner[q] = x => job' = [job EXCEPT ![q] = to] /\ owner' = [owner EXCEPT ![q] = Nobody]
        /\ owner[q] # x => job' = job /\ owner' = owner
    BY <1>7 DEF GivesBack, Moves
  <2>2. CASE owner[q] # x
    BY <1>0, <1>1, <2>1, <2>2
  <2>3. CASE owner[q] = x
    <3>1. r # q
      BY <1>0, <2>1, <2>3
    <3> QED
      BY <1>0, <1>1, <2>1, <2>3, <3>1
  <2> QED
    BY <2>2, <2>3
<1>8. ASSUME NEW x \in Executors, Completes(x) \/ Rejects(x) PROVE FALSE
  BY <1>7, <1>8 DEF Completes, Rejects
<1>9. ASSUME NEW x \in Executors, ExecutorStep(x) \/ StartFails(x) \/ ExecutionFails(x)
      PROVE  FALSE
  BY <1>6, <1>8, <1>9, ExecutorsMove DEF ExecutorStep
<1> QED
  BY <1>2, <1>3, <1>4, <1>5, <1>9, RunsUntouched DEF Next

LEMMA LocksPaidForKept ==
  ASSUME IInv, ReachInv, [Next]_vars PROVE LocksPaidFor'
<1> USE DEF IInv
<1>0. Losses \in Nat /\ Losses' \in Nat /\ Losses' >= Losses /\ LocksPaidFor
  BY CountsGrow DEF ReachInv
<1> SUFFICES ASSUME NEW r \in Runs
             PROVE  /\ r \in stalled' \/ Abandoned(r)' => Losses' >= 1
                    /\ r \in stalled' /\ Abandoned(r)' => Losses' >= 2
  BY DEF LocksPaidFor
<1>1. (r \in stalled \/ Abandoned(r) => Losses >= 1) /\ (r \in stalled /\ Abandoned(r) => Losses >= 2)
  BY <1>0 DEF LocksPaidFor
<1>2. ASSUME NEW q \in Runs, ReclaimAbandoned(q) \/ JobStalls(q), q = r
      PROVE  /\ ~Abandoned(r)' /\ Losses' >= 1
  <2>1. job'[r] # "active"
    BY <1>2 DEF ReclaimAbandoned, JobStalls, LockExpires, Release, TypeOK
  <2>2. Losses' >= 1
    BY <1>0, <1>1, <1>2, FailuresCounted DEF ReclaimAbandoned
  <2> QED
    BY <2>1, <2>2 DEF Abandoned
<1>3. ASSUME r \in stalled', r \notin stalled
      PROVE  \E q \in Runs : (ReclaimAbandoned(q) \/ JobStalls(q)) /\ q = r
  <2>1. ASSUME stalled' = stalled PROVE FALSE
    BY <1>3, <2>1
  <2>2. ASSUME NEW x \in Executors, ExecutorStep(x) \/ StartFails(x) \/ ExecutionFails(x) \/ ExecutorDies(x)
        PROVE  FALSE
    BY <2>1, <2>2, ExecutorsMove DEF ExecutorStep, GoesOn, Completes, Rejects, GivesBack, Moves
  <2>3. ASSUME NEW q \in Runs, \/ CreateRun(q) \/ EnqueueRun(q) \/ TriggerFails(q)
                               \/ \E x \in Executors : TakeJob(x, q)
        PROVE  FALSE
    BY <2>1, <2>3 DEF CreateRun, EnqueueRun, TriggerFails, TakeJob
  <2>4. ASSUME NEW q \in Runs, ReclaimAbandoned(q) \/ JobStalls(q)
        PROVE  q = r
    BY <1>3, <2>4 DEF ReclaimAbandoned, JobStalls, LockExpires
  <2>5. ~UNCHANGED runVars
    BY <2>1 DEF runVars, jobVars
  <2> QED
    BY <2>2, <2>3, <2>4, <2>5, RunsUntouched DEF Next
<1>4. CASE r \in stalled' /\ r \notin stalled
  BY <1>2, <1>3, <1>4
<1>5. CASE r \in stalled' => r \in stalled
  <2>1. CASE Abandoned(r)' /\ ~Abandoned(r)
    <3>1. Losses' = Losses + 1
      BY <2>1, AbandonedByDeath, FailuresCounted
    <3> QED
      BY <1>0, <1>1, <1>5, <3>1
  <2>2. CASE Abandoned(r)' => Abandoned(r)
    BY <1>0, <1>1, <1>5, <2>2
  <2> QED
    BY <2>1, <2>2
<1> QED
  BY <1>4, <1>5

\* Once it is marked, a run is never pending again.
LEMMA MarkStays ==
  ASSUME IInv, ReachInv, [Next]_vars, NEW r \in Runs, status[r] # "none"
  PROVE  /\ status'[r] # "none"
         /\ status[r] # "PENDING" => status'[r] # "PENDING"
<1> USE DEF IInv
<1>1. ASSUME status'[r] = status[r] PROVE status'[r] # "none" /\ (status[r] # "PENDING" => status'[r] # "PENDING")
  BY <1>1
<1>2. CASE UNCHANGED runVars
  BY <1>1, <1>2 DEF runVars
<1>3. ASSUME NEW q \in Runs, CreateRun(q) PROVE status'[r] = status[r]
  BY <1>3 DEF CreateRun, SetStatus, TypeOK
<1>4. ASSUME NEW q \in Runs,
             \/ EnqueueRun(q) \/ TriggerFails(q) \/ ReclaimAbandoned(q) \/ JobStalls(q)
             \/ \E x \in Executors : TakeJob(x, q)
      PROVE  status' = status
  BY <1>4 DEF EnqueueRun, TriggerFails, ReclaimAbandoned, JobStalls, LockExpires, TakeJob, rowVars
<1>5. ASSUME NEW x \in Executors,
             ExecutorStep(x) \/ StartFails(x) \/ ExecutionFails(x) \/ ExecutorDies(x)
      PROVE  status'[r] = status[r] \/ status'[r] \notin {"none", "PENDING"}
  BY <1>5, OwnStatusOnly DEF Terminal
<1> QED
  BY <1>1, <1>2, <1>3, <1>4, <1>5, RunsUntouched DEF Next

LEMMA BegunIsMarkedKept ==
  ASSUME IInv, ReachInv, [Next]_vars PROVE BegunIsMarked'
<1> USE DEF IInv
<1>0. BegunIsMarked
  BY DEF ReachInv
<1> SUFFICES ASSUME NEW y \in Executors
             PROVE  /\ exec'[y] # Idle => status'[exec'[y].run] # "none"
                    /\ exec'[y].step \in Begun => status'[exec'[y].run] \notin {"none", "PENDING"}
  BY DEF BegunIsMarked
<1>1. ASSUME exec'[y] = exec[y]
      PROVE  /\ exec'[y] # Idle => status'[exec'[y].run] # "none"
             /\ exec'[y].step \in Begun => status'[exec'[y].run] \notin {"none", "PENDING"}
  <2>1. CASE exec[y] = Idle
    BY <1>1, <2>1 DEF Idle, Begun
  <2>2. CASE exec[y] # Idle
    BY <1>0, <1>1, <2>2, MarkStays, WorkerShape DEF BegunIsMarked
  <2> QED
    BY <2>1, <2>2
<1>2. CASE UNCHANGED runVars
  BY <1>1, <1>2 DEF runVars
<1>3. ASSUME NEW q \in Runs, \/ CreateRun(q) \/ EnqueueRun(q) \/ TriggerFails(q)
                             \/ ReclaimAbandoned(q) \/ JobStalls(q)
      PROVE  exec' = exec
  BY <1>3 DEF CreateRun, EnqueueRun, TriggerFails, ReclaimAbandoned, JobStalls, LockExpires
<1>4. ASSUME NEW q \in Runs, NEW x \in Executors, TakeJob(x, q)
      PROVE  \/ exec'[y] = exec[y]
             \/ /\ exec'[y].step = "loading" /\ exec'[y].run = q
                /\ status'[q] # "none"
  <2>1. /\ exec' = [exec EXCEPT ![x] = [step |-> "loading", run |-> q]]
        /\ job[q] = "waiting" /\ status' = status
    BY <1>4 DEF TakeJob, rowVars
  <2>2. status[q] # "none"
    BY <2>1 DEF JobsFollowRuns
  <2>3. CASE y = x
    BY <2>1, <2>2, <2>3 DEF TypeOK
  <2>4. CASE y # x
    BY <2>1, <2>4 DEF TypeOK
  <2> QED
    BY <2>3, <2>4
<1>5. ASSUME NEW x \in Executors,
             ExecutorStep(x) \/ StartFails(x) \/ ExecutionFails(x) \/ ExecutorDies(x),
             exec'[y] # exec[y]
      PROVE  /\ exec'[y] # Idle => status'[exec'[y].run] # "none"
             /\ exec'[y].step \in Begun => status'[exec'[y].run] \notin {"none", "PENDING"}
  <2>1. GoesOn(x) \/ (Moves(x) /\ exec'[x] = Idle)
    BY <1>5, ExecutorsMove DEF ExecutorStep, Completes, Rejects, GivesBack
  <2>2. y = x
    BY <1>5, <2>1 DEF GoesOn, Moves
  <2>3. CASE exec'[x] = Idle
    BY <2>2, <2>3 DEF Idle, Begun
  <2>4. CASE exec'[x] # Idle
    <3>1. GoesOn(x) /\ exec[x] # Idle /\ exec[x].run \in Runs /\ exec'[x].run = exec[x].run
      BY <2>1, <2>4 DEF GoesOn, Moves
    <3>2. status[exec[x].run] # "none" /\ status'[exec'[x].run] # "none"
      BY <1>0, <3>1, MarkStays DEF BegunIsMarked
    <3>3. ASSUME exec'[x].step \in Begun, exec[x].step \in Begun
          PROVE  status'[exec'[x].run] # "PENDING"
      BY <1>0, <3>1, <3>3, MarkStays DEF BegunIsMarked
    <3>4. ASSUME exec'[x].step \in Begun, exec[x].step \notin Begun
          PROVE  status'[exec'[x].run] # "PENDING"
      <4>1. exec[x].step = "starting"
        BY <3>1, <3>4 DEF GoesOn, Begun
      <4>2. MarkRunning(x)
        BY <1>5, <2>4, <3>1, <4>1, ExecutorsMove
           DEF ExecutorStep, LoadRun, Evaluate, CommitResults, ReadBack, MarkFailed, ExecutionFails,
               At, Rejects, GivesBack
      <4> QED
        BY <3>1, <4>2, StatusMoves
    <3> QED
      BY <2>2, <3>2, <3>3, <3>4
  <2> QED
    BY <2>3, <2>4
<1>6. CASE Next
  BY <1>1, <1>2, <1>3, <1>4, <1>5, <1>6, RunsUntouched DEF Next, Idle, Begun
<1> QED
  BY <1>2, <1>6, RunsUntouched

LEMMA JobsAreExplainedKept ==
  ASSUME IInv, ReachInv, [Next]_vars PROVE JobsAreExplained'
<1> USE DEF IInv
<1>0. /\ JobsAreExplained /\ BegunIsMarked /\ LocksPaidFor /\ JobsFollowRuns
      /\ Losses \in Nat /\ Losses' \in Nat /\ Losses' >= Losses
      /\ faults["trigger"] \in Nat /\ faults'["trigger"] \in Nat /\ faults'["trigger"] >= faults["trigger"]
      /\ job \in [Runs -> JobStates] /\ owner \in [Runs -> Executors \cup {Nobody}]
      /\ attempts \in [Runs -> 0 .. MaxAttempts] /\ status \in [Runs -> Statuses \cup {"none"}]
  BY CountsGrow DEF ReachInv, TypeOK, Faults
<1> SUFFICES ASSUME NEW r \in Runs
             PROVE  /\ job'[r] = "failed" => attempts'[r] = MaxAttempts \/ Losses' >= 2
                    /\ job'[r] = "none" => status'[r] = "none" \/ r \in triggering' \/ faults'["trigger"] > 0
                    /\ job'[r] = "active" => owner'[r] \in Executors
                    /\ job'[r] = "completed" => status'[r] # "PENDING"
  BY DEF JobsAreExplained
<1> DEFINE Explained ==
      /\ job'[r] = "failed" => attempts'[r] = MaxAttempts \/ Losses' >= 2
      /\ job'[r] = "none" => status'[r] = "none" \/ r \in triggering' \/ faults'["trigger"] > 0
      /\ job'[r] = "active" => owner'[r] \in Executors
      /\ job'[r] = "completed" => status'[r] # "PENDING"
<1>1. /\ job[r] = "failed" => attempts[r] = MaxAttempts \/ Losses >= 2
      /\ job[r] = "none" => status[r] = "none" \/ r \in triggering \/ faults["trigger"] > 0
      /\ job[r] = "active" => owner[r] \in Executors
      /\ job[r] = "completed" => status[r] # "PENDING" /\ status'[r] # "PENDING"
      /\ status[r] = "none" => job[r] = "none"
  BY <1>0, MarkStays DEF JobsAreExplained, JobsFollowRuns
<1>2. ASSUME job'[r] = job[r], attempts'[r] = attempts[r], owner'[r] = owner[r],
             \/ status'[r] = status[r] \/ status[r] # "none" \/ r \in triggering',
             r \in triggering => r \in triggering'
      PROVE  Explained
  BY <1>0, <1>1, <1>2
<1>3. CASE UNCHANGED runVars
  BY <1>2, <1>3 DEF runVars, jobVars
<1>4. ASSUME NEW q \in Runs, CreateRun(q) PROVE Explained
  BY <1>2, <1>4 DEF CreateRun, SetStatus, TypeOK
<1>5. ASSUME NEW q \in Runs, EnqueueRun(q) PROVE Explained
  BY <1>0, <1>2, <1>5 DEF EnqueueRun, rowVars
<1>6. ASSUME NEW q \in Runs, TriggerFails(q) PROVE Explained
  BY <1>0, <1>1, <1>6, FailuresCounted DEF TriggerFails, rowVars
<1>7. ASSUME NEW q \in Runs, ReclaimAbandoned(q) \/ JobStalls(q) PROVE Explained
  <2>1. /\ job' = [job EXCEPT ![q] = IF q \in stalled THEN "failed" ELSE "waiting"]
        /\ owner' = [owner EXCEPT ![q] = Nobody]
        /\ UNCHANGED <<attempts, status, triggering>>
    BY <1>7 DEF ReclaimAbandoned, JobStalls, LockExpires, Release, rowVars
  <2>2. CASE q # r
    BY <1>0, <1>2, <2>1, <2>2
  <2>3. CASE q = r
    <3>1. r \in stalled => Losses' >= 2
      <4>1. CASE ReclaimAbandoned(q)
        BY <1>0, <2>3, <4>1 DEF ReclaimAbandoned, LocksPaidFor
      <4>2. CASE JobStalls(q)
        BY <1>0, <2>3, <4>2, FailuresCounted DEF LocksPaidFor
      <4> QED
        BY <1>7, <4>1, <4>2
    <3>2. job'[r] = (IF r \in stalled THEN "failed" ELSE "waiting")
      BY <1>0, <2>1, <2>3
    <3>3. job'[r] \notin {"none", "active", "completed"} /\ (job'[r] = "failed" => r \in stalled)
      BY <3>2
    <3> QED
      BY <3>1, <3>3
  <2> QED
    BY <2>2, <2>3
<1>8. ASSUME NEW q \in Runs, NEW x \in Executors, TakeJob(x, q) PROVE Explained
  <2>1. /\ job' = [job EXCEPT ![q] = "active"] /\ owner' = [owner EXCEPT ![q] = x]
        /\ UNCHANGED <<attempts, status, triggering>>
    BY <1>8 DEF TakeJob, rowVars
  <2>2. CASE q # r
    BY <1>0, <1>2, <2>1, <2>2
  <2>3. CASE q = r
    BY <1>0, <2>1, <2>3
  <2> QED
    BY <2>2, <2>3
<1>9. ASSUME NEW x \in Executors,
             ExecutorStep(x) \/ StartFails(x) \/ ExecutionFails(x) \/ ExecutorDies(x)
      PROVE  exec[x] # Idle /\ triggering' = triggering /\ (status'[r] = status[r] \/ status[r] # "none")
  <2>1. exec[x] # Idle /\ triggering' = triggering
    BY <1>9, ExecutorsMove DEF ExecutorStep, GoesOn, Completes, Rejects, GivesBack, Moves
  <2>2. status[exec[x].run] # "none"
    BY <1>0, <2>1 DEF BegunIsMarked
  <2> QED
    BY <1>9, <2>1, <2>2, OwnStatusOnly
<1>10. ASSUME NEW x \in Executors, UNCHANGED jobVars,
              status'[r] = status[r] \/ status[r] # "none"
       PROVE  Explained
  BY <1>2, <1>10 DEF jobVars
<1>11. ASSUME NEW x \in Executors, Completes(x), status[exec[x].run] # "PENDING",
              status'[r] = status[r], triggering' = triggering
       PROVE  Explained
  <2> DEFINE q == exec[x].run
  <2>1. /\ q \in Runs /\ attempts' = attempts /\ status[q] # "PENDING"
        /\ owner[q] = x => job' = [job EXCEPT ![q] = "completed"] /\ owner' = [owner EXCEPT ![q] = Nobody]
        /\ owner[q] # x => job' = job /\ owner' = owner
    BY <1>11 DEF Completes, GivesBack, Moves
  <2> HIDE DEF q
  <2>2. CASE owner[q] # x \/ q # r
    BY <1>0, <1>2, <1>11, <2>1, <2>2
  <2>3. CASE owner[q] = x /\ q = r
    BY <1>0, <1>11, <2>1, <2>3
  <2> QED
    BY <2>2, <2>3
<1>12. ASSUME NEW x \in Executors, Rejects(x),
              status'[r] = status[r] \/ status[r] # "none", triggering' = triggering
       PROVE  Explained
  <2> DEFINE q == exec[x].run
             to == IF attempts[q] + 1 < MaxAttempts THEN "waiting" ELSE "failed"
  <2>1. /\ q \in Runs
        /\ owner[q] = x => /\ job' = [job EXCEPT ![q] = to] /\ owner' = [owner EXCEPT ![q] = Nobody]
                           /\ attempts' = [attempts EXCEPT ![q] = attempts[q] + 1]
        /\ owner[q] # x => job' = job /\ owner' = owner /\ attempts' = attempts
    BY <1>12 DEF Rejects, GivesBack, Moves
  <2>2. to \in {"waiting", "failed"} /\ (to = "failed" => ~(attempts[q] + 1 < MaxAttempts))
    OBVIOUS
  <2> HIDE DEF q, to
  <2>3. CASE owner[q] # x \/ q # r
    BY <1>0, <1>2, <1>12, <2>1, <2>3
  <2>4. CASE owner[q] = x /\ q = r
    <3>1. job[r] = "active" /\ attempts[r] < MaxAttempts
      BY <1>0, <2>4, ValidationRunAssumption DEF JobsFollowRuns
    <3>2. job'[r] = to /\ attempts'[r] = attempts[r] + 1
      BY <1>0, <2>1, <2>4
    <3>3. to = "failed" => attempts[r] + 1 = MaxAttempts
      BY <1>0, <2>2, <2>4, <3>1, ValidationRunAssumption
    <3> QED
      BY <2>2, <3>2, <3>3
  <2> QED
    BY <2>3, <2>4
<1>13. ASSUME NEW x \in Executors,
              ExecutorStep(x) \/ StartFails(x) \/ ExecutionFails(x) \/ ExecutorDies(x)
       PROVE  Explained
  <2> HIDE DEF Explained
  <2>1. CASE LoadRun(x)
    <3>1. Completes(x) => status[exec[x].run] \in Terminal
      BY <2>1 DEF LoadRun, Completes, GivesBack, Goto, Idle, At, TypeOK
    <3>2. status' = status /\ exec[x] # Idle /\ triggering' = triggering
      BY <1>9, <1>13, <2>1, StatusMoves
    <3>3. CASE Completes(x)
      BY <1>11, <3>1, <3>2, <3>3 DEF Terminal
    <3>4. CASE GoesOn(x)
      BY <1>10, <3>2, <3>4 DEF GoesOn
    <3> QED
      BY <2>1, <3>3, <3>4, ExecutorsMove
  <2>2. CASE MarkRunning(x) \/ Evaluate(x) \/ CommitResults(x) \/ ExecutionFails(x) \/ ExecutorDies(x)
    BY <1>9, <1>10, <1>13, <2>2, ExecutorsMove DEF GoesOn
  <2>3. CASE ReadBack(x)
    <3>1. status[exec[x].run] # "PENDING"
      BY <1>0, <2>3 DEF ReadBack, At, BegunIsMarked, Begun
    <3>2. status' = status /\ triggering' = triggering /\ Completes(x)
      BY <1>9, <1>13, <2>3, StatusMoves, ExecutorsMove
    <3> QED
      BY <1>11, <3>1, <3>2
  <2>4. CASE StartFails(x) \/ MarkFailed(x)
    BY <1>9, <1>12, <1>13, <2>4, ExecutorsMove
  <2> QED
    BY <1>13, <2>1, <2>2, <2>3, <2>4 DEF ExecutorStep
<1> QED
  BY <1>3, <1>4, <1>5, <1>6, <1>7, <1>8, <1>13, RunsUntouched DEF Next

\* Two executors have the same run only after a lock expired under one of them.
LEMMA CompletedWithRunKept ==
  ASSUME IInv, ReachInv, [Next]_vars PROVE CompletedWithRun'
<1> USE DEF IInv
<1>0. /\ job \in [Runs -> JobStates] /\ owner \in [Runs -> Executors \cup {Nobody}]
      /\ status \in [Runs -> Statuses \cup {"none"}] /\ Nobody \notin Executors
      /\ \A y \in Executors : exec[y] # Idle => exec[y].run \in Runs
  BY WorkerShape, ValidationRunAssumption DEF TypeOK
<1> DEFINE Reading == \A y \in Executors : exec[y].step = "reading" => status[exec[y].run] \in Terminal
           Ended   == \A r \in Runs : job[r] = "completed" => status[r] \in Terminal
<1> SUFFICES ASSUME faults'["stall"] = 0
             PROVE  WorkerHoldsJob' /\ Reading' /\ Ended'
  BY DEF CompletedWithRun
<1>1. faults["stall"] = 0
  BY CountsGrow DEF Faults
<1>2. WorkerHoldsJob /\ Reading /\ Ended
  BY <1>1 DEF ReachInv, CompletedWithRun
<1>3. CASE UNCHANGED runVars
  BY <1>2, <1>3 DEF runVars, jobVars, WorkerHoldsJob
<1>4. ASSUME NEW r \in Runs, CreateRun(r) PROVE WorkerHoldsJob' /\ Reading' /\ Ended'
  <2>1. /\ status[r] = "none" /\ status' = [status EXCEPT ![r] = "PENDING"]
        /\ UNCHANGED <<job, owner, exec>>
    BY <1>4 DEF CreateRun, SetStatus
  <2>2. Reading' /\ Ended'
    BY <1>0, <1>2, <2>1 DEF Terminal, Idle
  <2> QED
    BY <1>2, <2>1, <2>2 DEF WorkerHoldsJob
<1>5. ASSUME NEW r \in Runs, EnqueueRun(r) \/ TriggerFails(r) PROVE WorkerHoldsJob' /\ Reading' /\ Ended'
  <2>1. /\ job[r] = "none" /\ job' \in {job, [job EXCEPT ![r] = "waiting"]}
        /\ UNCHANGED <<status, owner, exec>>
    BY <1>5 DEF EnqueueRun, TriggerFails, rowVars, JobsFollowRuns
  <2>2. WorkerHoldsJob'
    BY <1>0, <1>2, <2>1 DEF WorkerHoldsJob
  <2>3. Reading' /\ Ended'
    BY <1>0, <1>2, <2>1
  <2> QED
    BY <2>2, <2>3
<1>6. ASSUME NEW r \in Runs, ReclaimAbandoned(r) PROVE WorkerHoldsJob' /\ Reading' /\ Ended'
  <2>1. /\ Abandoned(r) /\ UNCHANGED <<status, exec>>
        /\ job' = [job EXCEPT ![r] = IF r \in stalled THEN "failed" ELSE "waiting"]
        /\ owner' = [owner EXCEPT ![r] = Nobody]
    BY <1>6 DEF ReclaimAbandoned, LockExpires, Release, rowVars
  <2>2. \A y \in Executors : exec[y] # Idle => exec[y].run # r
    BY <1>2, <2>1 DEF Abandoned, WorkerHoldsJob
  <2>3. WorkerHoldsJob'
    BY <1>0, <1>2, <2>1, <2>2 DEF WorkerHoldsJob
  <2>4. Reading' /\ Ended'
    BY <1>0, <1>2, <2>1
  <2> QED
    BY <2>3, <2>4
<1>7. ASSUME NEW r \in Runs, JobStalls(r) PROVE FALSE
  BY <1>7, FailuresCounted
<1>8. ASSUME NEW r \in Runs, NEW x \in Executors, TakeJob(x, r)
      PROVE  WorkerHoldsJob' /\ Reading' /\ Ended'
  <2>1. /\ job[r] = "waiting" /\ job' = [job EXCEPT ![r] = "active"]
        /\ owner' = [owner EXCEPT ![r] = x] /\ status' = status
        /\ exec' = [exec EXCEPT ![x] = [step |-> "loading", run |-> r]]
    BY <1>8 DEF TakeJob, rowVars
  <2>2. /\ exec'[x].run = r /\ exec'[x].step = "loading"
        /\ \A y \in Executors \ {x} : exec'[y] = exec[y]
    BY <2>1 DEF TypeOK
  <2>3. \A y \in Executors : exec[y] # Idle => exec[y].run # r
    BY <1>2, <2>1 DEF WorkerHoldsJob
  <2>4. WorkerHoldsJob'
    BY <1>0, <1>2, <2>1, <2>2, <2>3 DEF WorkerHoldsJob
  <2>5. Reading' /\ Ended'
    BY <1>0, <1>2, <2>1, <2>2
  <2> QED
    BY <2>4, <2>5
<1>9. ASSUME NEW x \in Executors,
             ExecutorStep(x) \/ StartFails(x) \/ ExecutionFails(x) \/ ExecutorDies(x)
      PROVE  WorkerHoldsJob' /\ Reading' /\ Ended'
  <2> DEFINE q == exec[x].run
  <2>0. Moves(x) /\ (GoesOn(x) \/ exec'[x] = Idle)
    BY <1>9, ExecutorsMove DEF ExecutorStep, GoesOn, Completes, Rejects, GivesBack
  <2>1. /\ q \in Runs /\ job[q] = "active" /\ owner[q] = x
        /\ \A y \in Executors \ {x} : exec'[y] = exec[y] /\ (exec[y] # Idle => exec[y].run # q)
    BY <1>2, <2>0 DEF Moves, WorkerHoldsJob
  <2>2. \A r \in Runs \ {q} : status'[r] = status[r]
    BY <1>9, OwnStatusOnly
  <2>3. CASE GoesOn(x)
    <3>1. UNCHANGED <<job, owner>> /\ exec'[x].run = q /\ exec[x] # Idle
      BY <2>3 DEF GoesOn, Moves, jobVars
    <3>2. exec'[x].step = "reading" => status'[q] \in Terminal
      <4>1. exec'[x].step = "reading" => CommitResults(x)
        BY <1>9, <2>3, <3>1, ExecutorsMove
           DEF GoesOn, ExecutorStep, LoadRun, MarkRunning, Evaluate, ReadBack, MarkFailed, StartFails,
               ExecutionFails, ExecutorDies, At, Completes, Rejects, GivesBack
      <4> QED
        BY <4>1, StatusMoves
    <3> HIDE DEF q
    <3>3. WorkerHoldsJob'
      BY <1>0, <1>2, <2>1, <3>1 DEF WorkerHoldsJob
    <3>4. Reading' /\ Ended'
      BY <1>0, <1>2, <2>1, <2>2, <3>1, <3>2 DEF Idle
    <3> QED
      BY <3>3, <3>4
  <2>4. ASSUME NEW to \in {"completed", "waiting", "failed"}, GivesBack(x, to),
               to = "completed" => status'[q] \in Terminal
        PROVE  WorkerHoldsJob' /\ Reading' /\ Ended'
    <3>1. /\ exec'[x] = Idle
          /\ job' = [job EXCEPT ![q] = to] /\ owner' = [owner EXCEPT ![q] = Nobody]
      BY <2>1, <2>4 DEF GivesBack
    <3> HIDE DEF q
    <3>2. WorkerHoldsJob'
      BY <1>0, <1>2, <2>1, <3>1 DEF WorkerHoldsJob
    <3>3. Reading'
      BY <1>0, <1>2, <2>1, <2>2, <3>1 DEF Idle
    <3>4. Ended'
      BY <1>0, <1>2, <2>1, <2>2, <2>4, <3>1
    <3> QED
      BY <3>2, <3>3, <3>4
  <2>5. CASE LoadRun(x) /\ ~GoesOn(x)
    <3>1. Completes(x) /\ status' = status
      BY <2>5, ExecutorsMove, StatusMoves
    <3>2. status[q] \in Terminal
      BY <2>5, <3>1 DEF LoadRun, Completes, GivesBack, Goto, Idle, At, TypeOK
    <3> QED
      BY <2>4, <3>1, <3>2 DEF Completes
  <2>6. CASE ReadBack(x)
    <3>1. Completes(x) /\ status' = status /\ status[q] \in Terminal
      BY <1>2, <2>6, ExecutorsMove, StatusMoves DEF ReadBack, At
    <3> QED
      BY <2>4, <3>1 DEF Completes
  <2>7. CASE StartFails(x) \/ MarkFailed(x)
    <3>1. Rejects(x)
      BY <2>7, ExecutorsMove
    <3> QED
      BY <2>4, <3>1 DEF Rejects
  <2>8. CASE ExecutorDies(x)
    <3>1. UNCHANGED <<job, owner, status>> /\ exec'[x] = Idle
      BY <2>8, ExecutorsMove, StatusMoves DEF jobVars
    <3>2. WorkerHoldsJob'
      BY <1>2, <2>1, <3>1 DEF WorkerHoldsJob
    <3>3. Reading' /\ Ended'
      BY <1>2, <2>1, <3>1 DEF Idle
    <3> QED
      BY <3>2, <3>3
  <2> QED
    BY <1>9, <2>3, <2>5, <2>6, <2>7, <2>8, ExecutorsMove DEF ExecutorStep
<1> QED
  BY <1>3, <1>4, <1>5, <1>6, <1>7, <1>8, <1>9, RunsUntouched DEF Next

LEMMA RunningIsExecutedKept ==
  ASSUME IInv, ReachInv, [Next]_vars PROVE RunningIsExecuted'
<1> USE DEF IInv
<1> DEFINE Calm  == \A y \in Executors : exec[y].step # "failing"
           Works(r, y) == exec[y].step \in {"evaluating", "committing"} /\ exec[y].run = r
           Live  == \A r \in Runs :
                      /\ status[r] # "FAILED"
                      /\ status[r] = "RUNNING" => \E y \in Executors : Works(r, y)
<1>0. status \in [Runs -> Statuses \cup {"none"}]
  BY DEF TypeOK
<1> SUFFICES ASSUME Failures' + faults'["crash"] = 0 PROVE Calm' /\ Live'
  BY DEF RunningIsExecuted
<1>1. /\ Failures + faults["crash"] = 0
      /\ Failures \in Nat /\ Failures' \in Nat /\ faults'["crash"] \in Nat
      /\ Failures' = 0 /\ faults'["crash"] = 0 /\ Failures = 0
  <2>1. faults'["infra"] = 0 /\ faults'["readback"] = 0 /\ faults'["crash"] = 0
    BY CountsGrow
  <2>2. faults["infra"] = 0 /\ faults["readback"] = 0 /\ faults["crash"] = 0
    <3>1. /\ faults["infra"] \in Nat /\ faults'["infra"] >= faults["infra"]
          /\ faults["readback"] \in Nat /\ faults'["readback"] >= faults["readback"]
          /\ faults["crash"] \in Nat /\ faults'["crash"] >= faults["crash"]
      BY CountsGrow DEF Faults
    <3> QED
      BY <2>1, <3>1
  <2>3. Failures + faults["crash"] = 0
    BY <2>2, CountsGrow
  <2>4. Failures = 0 /\ Failures' = 0
    BY <2>1, <2>2 DEF Failures
  <2> QED
    BY <2>1, <2>3, <2>4
<1>2. Calm /\ Live
  BY <1>1 DEF ReachInv, RunningIsExecuted
<1>3. CASE UNCHANGED runVars
  BY <1>2, <1>3 DEF runVars
<1>4. ASSUME NEW r \in Runs, CreateRun(r) PROVE Calm' /\ Live'
  <2>1. status' = [status EXCEPT ![r] = "PENDING"] /\ exec' = exec
    BY <1>4 DEF CreateRun, SetStatus
  <2> QED
    BY <1>0, <1>2, <2>1
<1>5. ASSUME NEW r \in Runs,
             EnqueueRun(r) \/ TriggerFails(r) \/ ReclaimAbandoned(r) \/ JobStalls(r)
      PROVE  Calm' /\ Live'
  <2>1. status' = status /\ exec' = exec
    BY <1>5 DEF EnqueueRun, TriggerFails, ReclaimAbandoned, JobStalls, LockExpires, rowVars
  <2> QED
    BY <1>2, <2>1
<1>6. ASSUME NEW r \in Runs, NEW x \in Executors, TakeJob(x, r) PROVE Calm' /\ Live'
  <2>1. /\ status' = status /\ exec[x] = Idle
        /\ exec' = [exec EXCEPT ![x] = [step |-> "loading", run |-> r]]
    BY <1>6 DEF TakeJob, rowVars
  <2>2. exec'[x].step = "loading" /\ \A y \in Executors \ {x} : exec'[y] = exec[y]
    BY <2>1 DEF TypeOK
  <2> QED
    BY <1>2, <2>1, <2>2 DEF Idle
<1>7. ASSUME NEW x \in Executors,
             ExecutorStep(x) \/ StartFails(x) \/ ExecutionFails(x) \/ ExecutorDies(x)
      PROVE  Calm' /\ Live'
  <2>0. ~ (StartFails(x) \/ ExecutionFails(x) \/ ExecutorDies(x) \/ MarkFailed(x))
    BY <1>1, <1>2, FailuresCounted DEF MarkFailed, At
  <2>1. Moves(x) /\ (GoesOn(x) \/ Completes(x))
    BY <1>7, <2>0, ExecutorsMove DEF ExecutorStep, GoesOn, Completes, GivesBack
  <2> PICK q \in Runs : q = exec[x].run
    BY <2>1 DEF GoesOn, Completes, GivesBack, Moves
  <2>2. \A y \in Executors \ {x} : exec'[y] = exec[y]
    BY <2>1 DEF Moves
  <2>3. \A r \in Runs \ {q} : status'[r] = status[r]
    BY <1>7, OwnStatusOnly
  <2>4. exec'[x].step # "failing"
    BY <1>7, <2>0, ExecutorsMove DEF ExecutorStep, Completes, GivesBack, Idle
  <2>5. \A r \in Runs \ {q} : \A y \in Executors : Works(r, y) => Works(r, y)'
    BY <2>2
  <2>6. status'[q] # "FAILED" /\ (status'[q] = "RUNNING" => \E y \in Executors : Works(q, y)')
    <3>1. CASE MarkRunning(x) \/ Evaluate(x)
      <4>1. GoesOn(x) /\ exec'[x].step \in {"evaluating", "committing"}
        BY <3>1, ExecutorsMove
      <4>2. exec'[x].run = q /\ Works(q, x)'
        BY <4>1 DEF GoesOn
      <4>3. status'[q] # "FAILED"
        BY <1>2, <2>2, <3>1, StatusMoves
      <4> QED
        BY <4>2, <4>3
    <3>2. CASE CommitResults(x)
      BY <3>2, StatusMoves DEF Terminal
    <3>3. CASE LoadRun(x) \/ ReadBack(x)
      <4>1. status' = status
        BY <3>3, StatusMoves
      <4>2. ~Works(q, x)
        BY <3>3 DEF LoadRun, ReadBack, At
      <4>3. \A y \in Executors : Works(q, y) => Works(q, y)'
        BY <2>2, <4>2
      <4> QED
        BY <1>2, <2>2, <4>1, <4>3
    <3> QED
      BY <1>7, <2>0, <3>1, <3>2, <3>3 DEF ExecutorStep
  <2>7. Calm'
    BY <1>2, <2>2, <2>4
  <2>8. Live'
    BY <1>2, <2>2, <2>3, <2>5, <2>6
  <2> QED
    BY <2>7, <2>8
<1> QED
  BY <1>3, <1>4, <1>5, <1>6, <1>7, RunsUntouched DEF Next

LEMMA SpecReachInv == Spec => []ReachInv
<1>1. Init => ReachInv
  <2> SUFFICES ASSUME Init PROVE ReachInv
    OBVIOUS
  <2> USE ValidationRunAssumption DEF Init, Idle
  <2>1. AttemptsPaidFor
    <3>1. \A r \in Runs : attempts[r] = 0 /\ \A x \in Executors : exec[x].step # "failing"
      OBVIOUS
    <3>2. Failures = 0
      BY DEF Failures, Faults
    <3>3. 0 <= Failures
      BY <3>2
    <3> HIDE DEF Init, Idle
    <3> QED
      BY ONLY <3>1, <3>3 DEF AttemptsPaidFor
  <2>2. LocksPaidFor /\ JobsAreExplained
    BY DEF LocksPaidFor, JobsAreExplained, Abandoned
  <2>3. BegunIsMarked
    BY DEF BegunIsMarked, Begun
  <2>4. CompletedWithRun
    BY DEF CompletedWithRun, WorkerHoldsJob
  <2>5. RunningIsExecuted
    BY DEF RunningIsExecuted
  <2> QED
    BY <2>1, <2>2, <2>3, <2>4, <2>5 DEF ReachInv
<1>2. IInv /\ ReachInv /\ [Next]_vars => ReachInv'
  <2> SUFFICES ASSUME IInv, ReachInv, [Next]_vars PROVE ReachInv'
    OBVIOUS
  <2> QED
    BY AttemptsPaidForKept, LocksPaidForKept, JobsAreExplainedKept, BegunIsMarkedKept,
       CompletedWithRunKept, RunningIsExecutedKept DEF ReachInv
<1> QED
  BY <1>1, <1>2, SpecIInv, PTL DEF Spec

\* No order of the steps leaves a run behind by itself: a run that is neither
\* finished nor in hand was left by failures, and by as many of them as the
\* queue's retries and its second chance after a lost lock are there to absorb.
THEOREM StrandedOnlyByFaultsAlways == Spec => []StrandedOnlyByFaults
<1>1. ASSUME IInv, ReachInv PROVE StrandedOnlyByFaults
  <2> SUFFICES ASSUME NEW r \in Runs, status[r] \notin Terminal \cup {"none"}, ~InHand(r)
               PROVE  \/ job[r] = "none" /\ faults["trigger"] > 0
                      \/ /\ job[r] = "failed"
                         /\ \/ faults["infra"] + faults["readback"] >= MaxAttempts
                            \/ faults["crash"] + faults["stall"] >= 2
                      \/ /\ faults["stall"] > 0
                         /\ faults["infra"] + faults["readback"] + faults["crash"] > 0
    BY DEF StrandedOnlyByFaults
  <2>1. /\ faults["infra"] \in Nat /\ faults["readback"] \in Nat /\ faults["crash"] \in Nat
        /\ faults["stall"] \in Nat
    BY <1>1, ValidationRunAssumption DEF IInv, TypeOK, Faults
  <2>2. job[r] \in {"none", "completed", "failed"} /\ r \notin triggering
    BY <1>1 DEF InHand, IInv, TypeOK, JobStates
  <2>3. CASE job[r] = "none"
    BY <1>1, <2>2, <2>3 DEF ReachInv, JobsAreExplained
  <2>4. CASE job[r] = "failed"
    <3>1. attempts[r] = MaxAttempts \/ Losses >= 2
      BY <1>1, <2>4 DEF ReachInv, JobsAreExplained
    <3>2. attempts[r] <= Failures
      BY <1>1 DEF ReachInv, AttemptsPaidFor
    <3> QED
      BY <2>4, <3>1, <3>2 DEF Failures, Losses
  <2>5. CASE job[r] = "completed"
    <3>1. faults["stall"] > 0
      BY <1>1, <2>1, <2>5 DEF ReachInv, CompletedWithRun
    <3>2. status[r] \in {"RUNNING", "FAILED"}
      BY <1>1, <2>5 DEF ReachInv, JobsAreExplained, IInv, TypeOK, Statuses
    <3>3. ~RunningIsExecuted \/ Failures + faults["crash"] # 0
      BY <3>2 DEF RunningIsExecuted, InHand, Idle
    <3> QED
      BY <1>1, <2>1, <3>1, <3>3 DEF ReachInv, Failures
  <2> QED
    BY <2>2, <2>3, <2>4, <2>5
<1> QED
  BY <1>1, SpecIInv, SpecReachInv, PTL

---------------------------------------------------------------------------
(* What a status says of the rows                                          *)

\* A rule that was active ever since the run was created is active, and every
\* execution has evaluated it.
SteadyIsEvaluated ==
  /\ \A r \in Runs : steady[r] \cap inactive = {}
  /\ \A x \in Executors : exec[x].step = "committing" =>
       \A u \in steady[exec[x].run] : exec[x].outcome[u] # "none"

LEMMA SteadyIsEvaluatedKept ==
  ASSUME IInv, ReachInv, SteadyIsEvaluated, [Next]_vars PROVE SteadyIsEvaluated'
<1> USE DEF IInv
<1>0. /\ steady \in [Runs -> SUBSET Rules] /\ inactive \subseteq Rules
      /\ \A y \in Executors : exec[y].step = "committing" => exec[y] # Idle /\ exec[y].run \in Runs
      /\ \A y \in Executors : exec[y] # Idle => status[exec[y].run] # "none"
  BY WorkerShape DEF TypeOK, Idle, ReachInv, BegunIsMarked
<1>1. ASSUME UNCHANGED <<inactive, steady>>,
             \A y \in Executors : exec'[y].step = "committing" => exec'[y] = exec[y]
      PROVE  SteadyIsEvaluated'
  BY <1>1 DEF SteadyIsEvaluated
<1>2. CASE UNCHANGED vars
  BY <1>1, <1>2 DEF vars, rowVars
<1>3. ASSUME NEW u \in Rules, SwitchRule(u) PROVE SteadyIsEvaluated'
  <2>1. /\ exec' = exec
        /\ \A r \in Runs : steady'[r] \subseteq steady[r] /\ steady'[r] \cap inactive' = {}
    BY <1>0, <1>3 DEF SwitchRule, SteadyIsEvaluated
  <2> QED
    BY <1>0, <2>1 DEF SteadyIsEvaluated
<1>4. ASSUME NEW r \in Runs, CreateRun(r) PROVE SteadyIsEvaluated'
  <2>1. /\ exec' = exec /\ inactive' = inactive /\ status[r] = "none"
        /\ steady' = [steady EXCEPT ![r] = Rules \ inactive]
    BY <1>4 DEF CreateRun
  <2>2. \A q \in Runs : steady'[q] = IF q = r THEN Rules \ inactive ELSE steady[q]
    BY <1>0, <2>1
  <2>3. \A y \in Executors : exec[y].step = "committing" => exec[y].run # r
    BY <1>0, <2>1
  <2> QED
    BY <1>0, <2>1, <2>2, <2>3 DEF SteadyIsEvaluated
<1>5. ASSUME NEW r \in Runs,
             EnqueueRun(r) \/ TriggerFails(r) \/ ReclaimAbandoned(r) \/ JobStalls(r)
      PROVE  SteadyIsEvaluated'
  BY <1>1, <1>5 DEF EnqueueRun, TriggerFails, ReclaimAbandoned, JobStalls, LockExpires, rowVars
<1>6. ASSUME NEW r \in Runs, NEW x \in Executors, TakeJob(x, r) PROVE SteadyIsEvaluated'
  <2>1. /\ exec' = [exec EXCEPT ![x] = [step |-> "loading", run |-> r]]
        /\ UNCHANGED <<inactive, steady>>
    BY <1>6 DEF TakeJob, rowVars
  <2>2. exec'[x].step = "loading" /\ \A y \in Executors \ {x} : exec'[y] = exec[y]
    BY <2>1 DEF TypeOK
  <2> QED
    BY <1>1, <2>1, <2>2
<1>7. ASSUME NEW x \in Executors, Evaluate(x) PROVE SteadyIsEvaluated'
  <2>1. PICK outcome \in [Rules -> Outcomes \cup {"none"}] :
          /\ \A u \in Rules : outcome[u] = "none" <=> u \in inactive
          /\ exec' = [exec EXCEPT ![x] =
               [step |-> "committing", run |-> exec[x].run, outcome |-> outcome]]
    BY <1>7, EvaluateStep
  <2>2. /\ exec'[x].run = exec[x].run /\ exec'[x].outcome = outcome
        /\ \A y \in Executors \ {x} : exec'[y] = exec[y]
    BY <2>1 DEF TypeOK
  <2>3. UNCHANGED <<inactive, steady>> /\ exec[x].run \in Runs
    BY <1>7, WorkerShape DEF Evaluate, At, Idle, rowVars
  <2>4. \A u \in steady[exec[x].run] : outcome[u] # "none"
    BY <1>0, <2>1, <2>3 DEF SteadyIsEvaluated
  <2> QED
    BY <2>2, <2>3, <2>4 DEF SteadyIsEvaluated
<1>8. ASSUME NEW x \in Executors,
             \/ LoadRun(x) \/ MarkRunning(x) \/ CommitResults(x) \/ ReadBack(x) \/ MarkFailed(x)
             \/ StartFails(x) \/ ExecutionFails(x) \/ ExecutorDies(x)
      PROVE  SteadyIsEvaluated'
  <2>1. /\ \A y \in Executors \ {x} : exec'[y] = exec[y]
        /\ exec'[x].step # "committing"
    BY <1>8, ExecutorsMove DEF GoesOn, Moves, Completes, Rejects, GivesBack, Idle
  <2>2. UNCHANGED <<inactive, steady>>
    BY <1>8 DEF LoadRun, MarkRunning, CommitResults, ReadBack, MarkFailed, StartFails,
                ExecutionFails, ExecutorDies, rowVars
  <2> QED
    BY <1>1, <2>1, <2>2
<1> QED
  BY <1>2, <1>3, <1>4, <1>5, <1>6, <1>7, <1>8 DEF Next, ExecutorStep

\* What a step must leave alone for the status to go on summing up the rows.
LEMMA SummedUp ==
  ASSUME StatusSumsUpResults, results' = results, NoOverlap' => NoOverlap,
         \A r \in Runs : status'[r] \in Terminal =>
           status'[r] = status[r] /\ steady'[r] \subseteq steady[r]
  PROVE  StatusSumsUpResults'
BY DEF StatusSumsUpResults, NoOverlap

\* A row that a commit does not replace was written by an earlier execution,
\* and its rule has been switched off since.
LEMMA CommitSumsUp ==
  ASSUME IInv, SteadyIsEvaluated, StatusSumsUpResults, NEW x \in Executors, CommitResults(x)
  PROVE  StatusSumsUpResults'
<1> DEFINE r == exec[x].run
           outcome == exec[x].outcome
<1>0. /\ exec[x] # Idle /\ exec[x].step = "committing"
      /\ results' = [results EXCEPT ![r] =
           [u \in Rules |-> IF outcome[u] = "none" THEN results[r][u] ELSE outcome[u]]]
      /\ status' = [status EXCEPT ![r] = FinalStatus(outcome)]
      /\ UNCHANGED <<inactive, steady, faults>>
  BY DEF CommitResults, UpsertResults, SetStatus, At, Idle
<1>1. r \in Runs /\ outcome \in [Rules -> Outcomes \cup {"none"}]
  BY <1>0, WorkerShape DEF IInv
<1>2. \A u \in steady[r] : u \in Rules /\ outcome[u] # "none"
  BY <1>0, <1>1 DEF SteadyIsEvaluated, IInv, TypeOK
<1>3. ASSUME NoOverlap PROVE \A u \in Rules : results[r][u] = "none"
  BY <1>0, <1>1, <1>3 DEF IInv, Alone, GuardStillHolds, PastGuard, OpenRunHasNoRows
<1> HIDE DEF r, outcome
<1>4. /\ status'[r] = FinalStatus(outcome)
      /\ \A u \in Rules :
           results'[r][u] = IF outcome[u] = "none" THEN results[r][u] ELSE outcome[u]
      /\ \A q \in Runs \ {r} : status'[q] = status[q] /\ results'[q] = results[q]
  BY <1>0, <1>1 DEF IInv, TypeOK
<1>5. status'[r] = "PARTIAL" => \E u \in Rules : results'[r][u] = "ERROR"
  BY <1>4 DEF FinalStatus
<1>6. ASSUME status'[r] = "COMPLETED", NEW u \in Rules, results'[r][u] = "ERROR"
      PROVE  u \notin steady'[r] /\ faults'["stall"] + faults'["readback"] # 0
  <2>1. outcome[u] = "none" /\ results[r][u] = "ERROR"
    BY <1>4, <1>6 DEF FinalStatus
  <2> QED
    BY <1>0, <1>2, <1>3, <2>1 DEF NoOverlap
<1>7. \A u \in steady'[r] : results'[r][u] # "none"
  BY <1>0, <1>2, <1>4
<1>8. ASSUME NEW q \in Runs \ {r}, status'[q] \in Terminal
      PROVE  /\ \A u \in steady'[q] : results'[q][u] # "none"
             /\ status'[q] = "PARTIAL" => \E u \in Rules : results'[q][u] = "ERROR"
             /\ status'[q] = "COMPLETED" =>
                  \A u \in Rules : results'[q][u] = "ERROR" =>
                    u \notin steady'[q] /\ faults'["stall"] + faults'["readback"] # 0
  <2>1. status'[q] = status[q] /\ results'[q] = results[q] /\ steady'[q] = steady[q]
    BY <1>0, <1>4
  <2> QED
    BY <1>0, <1>8, <2>1 DEF StatusSumsUpResults
<1> QED
  BY <1>1, <1>5, <1>6, <1>7, <1>8 DEF StatusSumsUpResults

LEMMA StatusSumsUpResultsKept ==
  ASSUME IInv, SteadyIsEvaluated, StatusSumsUpResults, [Next]_vars
  PROVE  StatusSumsUpResults'
<1> USE DEF IInv
<1>0. NoOverlap' => NoOverlap
  BY CountsGrow DEF NoOverlap, Faults
<1>1. CASE UNCHANGED vars
  BY <1>0, <1>1, SummedUp DEF vars, rowVars
<1>2. ASSUME NEW u \in Rules, SwitchRule(u) PROVE StatusSumsUpResults'
  <2>1. UNCHANGED <<status, results>> /\ \A r \in Runs : steady'[r] \subseteq steady[r]
    BY <1>2 DEF SwitchRule
  <2> QED
    BY <1>0, <2>1, SummedUp
<1>3. ASSUME NEW r \in Runs, CreateRun(r) PROVE StatusSumsUpResults'
  <2>1. /\ status' = [status EXCEPT ![r] = "PENDING"] /\ results' = results
        /\ steady' = [steady EXCEPT ![r] = Rules \ inactive]
    BY <1>3 DEF CreateRun, SetStatus
  <2>2. \A q \in Runs : status'[q] \in Terminal =>
          status'[q] = status[q] /\ steady'[q] \subseteq steady[q]
    BY <2>1 DEF TypeOK, Terminal
  <2> QED
    BY <1>0, <2>1, <2>2, SummedUp
<1>4. ASSUME UNCHANGED <<status, results, steady>> PROVE StatusSumsUpResults'
  BY <1>0, <1>4, SummedUp
<1>5. ASSUME NEW r \in Runs,
             \/ EnqueueRun(r) \/ TriggerFails(r) \/ ReclaimAbandoned(r) \/ JobStalls(r)
             \/ \E x \in Executors : TakeJob(x, r)
      PROVE  StatusSumsUpResults'
  BY <1>4, <1>5
     DEF EnqueueRun, TriggerFails, ReclaimAbandoned, JobStalls, LockExpires, TakeJob, rowVars
<1>6. ASSUME NEW x \in Executors,
             \/ LoadRun(x) \/ Evaluate(x) \/ ReadBack(x)
             \/ StartFails(x) \/ ExecutionFails(x) \/ ExecutorDies(x)
      PROVE  StatusSumsUpResults'
  BY <1>4, <1>6
     DEF LoadRun, Evaluate, ReadBack, StartFails, ExecutionFails, ExecutorDies, rowVars
<1>7. ASSUME NEW x \in Executors, MarkRunning(x) \/ MarkFailed(x) PROVE StatusSumsUpResults'
  <2>1. UNCHANGED <<results, steady>>
    BY <1>7 DEF MarkRunning, MarkFailed
  <2>2. \A r \in Runs : status'[r] \in Terminal => status'[r] = status[r]
    BY <1>7, StatusMoves DEF Terminal
  <2> QED
    BY <1>0, <2>1, <2>2, SummedUp
<1>8. ASSUME NEW x \in Executors, CommitResults(x) PROVE StatusSumsUpResults'
  BY <1>8, CommitSumsUp
<1> QED
  BY <1>1, <1>2, <1>3, <1>5, <1>6, <1>7, <1>8 DEF Next, ExecutorStep

\* Whatever rules are switched off between the attempts of a run, and whatever
\* overlaps or fails, a finished run has a row for every rule that was active all
\* along, a PARTIAL one a row that is ERROR, and a COMPLETED one none - but for
\* rows an earlier execution left of rules that were switched off since, which
\* takes a lock that expired or a read-back that failed.
THEOREM StatusSumsUpResultsAlways == Spec => []StatusSumsUpResults
<1> DEFINE SumInv == SteadyIsEvaluated /\ StatusSumsUpResults
<1>1. Init => SumInv
  BY DEF Init, SteadyIsEvaluated, StatusSumsUpResults, Terminal, Idle
<1>2. IInv /\ ReachInv /\ SumInv /\ [Next]_vars => SumInv'
  BY SteadyIsEvaluatedKept, StatusSumsUpResultsKept
<1> QED
  BY <1>1, <1>2, SpecIInv, SpecReachInv, PTL DEF Spec

\* Whatever overlaps or fails, finished runs say what they found, and runs that
\* did not finish are in hand or accounted for by the failures that occurred.
THEOREM RunsAreAccountableAlways == Spec => []RunsAreAccountable
BY StatusSumsUpResultsAlways, StrandedOnlyByFaultsAlways, PTL DEF RunsAreAccountable
=============================================================================
