----------------------------- MODULE JobRequest -----------------------------
(***************************************************************************)
(* Requests a row and a queue carry out together: report generation         *)
(* (ReportService), AI requests (AiService) and notifications               *)
(* (NotificationService), each with its BullMQ worker.                      *)
(*                                                                          *)
(* Reports and AI requests add the job inside the transaction that inserts  *)
(* the row, notifications after it.  The queues are created without default *)
(* options, so a job has one attempt; a job whose lock is not renewed is    *)
(* handed out a second time, and failed when that happens again.            *)
(***************************************************************************)
EXTENDS Naturals

CONSTANTS
  Requests,
  Kinds,    \* of "report", "ai", "notification"
  Workers,  \* job slots of the worker process
  Faulty,   \* whether processes die, calls fail and locks expire
  None

VARIABLES
  row,     \* by request: kind, status, visible (committed), deleted, announcements
  submit,  \* how far the request that creates it is
  job,     \* its job in the queue
  stalls,  \* how often its job's lock expired
  run,     \* by slot: the execution under way
  cancel,  \* how far a request to cancel it is
  late,    \* history: it was being executed when its cancellation removed the job
  excuse   \* history: what went wrong around it

vars == <<row, submit, job, stalls, run, cancel, late, excuse>>

NoRow == [kind |-> None, status |-> "none", visible |-> FALSE, deleted |-> FALSE, announced |-> 0]
Free == [r |-> None, step |-> "free", n |-> 0]

Blame(r, why) == excuse' = [excuse EXCEPT ![r] = @ \cup {why}]

---------------------------------------------------------------------------
(* The request that creates the row                                        *)

Submit(r, kind) ==
  /\ submit[r] = "new"
  /\ row' = [row EXCEPT ![r] = [NoRow EXCEPT !.kind = kind, !.status = "PENDING",
                                             !.visible = kind = "notification"]]
  /\ submit' = [submit EXCEPT ![r] = "inserted"]
  /\ UNCHANGED <<job, stalls, run, cancel, late, excuse>>

AddJob(r) ==
  /\ submit[r] = "inserted"
  /\ job' = [job EXCEPT ![r] = "waiting"]
  /\ submit' = [submit EXCEPT ![r] = IF row[r].visible THEN "done" ELSE "added"]
  /\ UNCHANGED <<row, stalls, run, cancel, late, excuse>>

Commit(r) ==
  /\ submit[r] = "added"
  /\ row' = [row EXCEPT ![r].visible = TRUE]
  /\ submit' = [submit EXCEPT ![r] = "done"]
  /\ UNCHANGED <<job, stalls, run, cancel, late, excuse>>

\* Redis or the database refuses, or the process dies: what is not committed
\* is rolled back, a job that was added stays.
SubmitFails(r) ==
  /\ Faulty
  /\ submit[r] \in {"inserted", "added"}
  /\ row' = [row EXCEPT ![r] = IF row[r].visible THEN @ ELSE NoRow]
  /\ submit' = [submit EXCEPT ![r] = "done"]
  /\ Blame(r, "not submitted")
  /\ UNCHANGED <<job, stalls, run, cancel, late>>

---------------------------------------------------------------------------
(* The workers                                                             *)

\* The outcome reaches the queue only while the execution holds the lock.
Ends(w, outcome) ==
  LET r == run[w].r
  IN  /\ run' = [run EXCEPT ![w] = Free]
      /\ job' = IF job[r] = "active" /\ run[w].n = stalls[r]
                THEN [job EXCEPT ![r] = outcome] ELSE job

TakeJob(w, r) ==
  /\ run[w] = Free /\ job[r] = "waiting"
  /\ job' = [job EXCEPT ![r] = "active"]
  /\ run' = [run EXCEPT ![w] = [r |-> r, step |-> "find", n |-> stalls[r]]]
  /\ UNCHANGED <<row, submit, stalls, cancel, late, excuse>>

\* Deleted rows are found as well.
FindRow(w) ==
  /\ run[w].step = "find"
  /\ LET r == run[w].r
         pending == row[r].kind = "notification" => row[r].status = "PENDING"
     IN  CASE ~row[r].visible ->
                Ends(w, "failed") /\ (IF submit[r] = "added" THEN Blame(r, "too early") ELSE UNCHANGED excuse)
           [] row[r].visible /\ ~pending -> Ends(w, "completed") /\ UNCHANGED excuse
           [] OTHER ->
                /\ run' = [run EXCEPT ![w].step = IF row[r].kind = "notification" THEN "work" ELSE "start"]
                /\ UNCHANGED <<job, excuse>>
  /\ UNCHANGED <<row, submit, stalls, cancel, late>>

\* GENERATING, PROCESSING.
Start(w) ==
  /\ run[w].step = "start"
  /\ row' = [row EXCEPT ![run[w].r].status = "RUNNING"]
  /\ run' = [run EXCEPT ![w].step = "work"]
  /\ UNCHANGED <<submit, job, stalls, cancel, late, excuse>>

\* COMPLETED or SENT, with ReportGenerated, AiSummaryReady or NotificationSent.
Complete(w) ==
  /\ run[w].step = "work"
  /\ row' = [row EXCEPT ![run[w].r].status = "COMPLETED", ![run[w].r].announced = @ + 1]
  /\ Ends(w, "completed")
  /\ UNCHANGED <<submit, stalls, cancel, late, excuse>>

\* Seeded fault: the failure is not written to the row.
Fail_Fault(w) ==
  /\ run[w].step = "work"
  /\ Ends(w, "failed")
  /\ UNCHANGED <<row, submit, stalls, cancel, late, excuse>>

\* Rendering, the model, or the transaction fails.
Fail(w) ==
  /\ run[w].step = "work"
  /\ row' = [row EXCEPT ![run[w].r].status = "FAILED"]
  /\ Ends(w, "failed")
  /\ UNCHANGED <<submit, stalls, cancel, late, excuse>>

\* A query outside the try block, or the one in its catch, fails.
Throws(w) ==
  /\ Faulty
  /\ run[w] # Free
  /\ Ends(w, "failed")
  /\ Blame(run[w].r, "query failed")
  /\ UNCHANGED <<row, submit, stalls, cancel, late>>

Dies(w) ==
  /\ Faulty
  /\ run[w] # Free
  /\ run' = [run EXCEPT ![w] = Free]
  /\ Blame(run[w].r, "worker died")
  /\ UNCHANGED <<row, submit, job, stalls, cancel, late>>

\* Seeded fault: a job is handed out again without limit.
Stall_Fault(r) ==
  /\ Faulty
  /\ job[r] = "active"
  /\ stalls' = [stalls EXCEPT ![r] = @ + 1]
  /\ job' = [job EXCEPT ![r] = "waiting"]
  /\ UNCHANGED <<row, submit, run, cancel, late, excuse>>

\* The lock of an active job expires: its execution is dead, or only slow.
Stall(r) ==
  /\ Faulty
  /\ job[r] = "active" /\ stalls[r] < 2
  /\ stalls' = [stalls EXCEPT ![r] = @ + 1]
  /\ job' = [job EXCEPT ![r] = IF stalls[r] = 0 THEN "waiting" ELSE "failed"]
  /\ UNCHANGED <<row, submit, run, cancel, late, excuse>>

---------------------------------------------------------------------------
(* The other requests on a row                                             *)

MarkRead(r) ==
  /\ row[r].visible /\ row[r].kind = "notification" /\ row[r].status # "READ"
  /\ row' = [row EXCEPT ![r].status = "READ"]
  /\ UNCHANGED <<submit, job, stalls, run, cancel, late, excuse>>

Cancellable(r) == row[r].status \in {"PENDING", "RUNNING"}

Cancel(r) ==
  /\ cancel[r] = "none"
  /\ row[r].kind = "report" /\ row[r].visible /\ ~row[r].deleted /\ Cancellable(r)
  /\ cancel' = [cancel EXCEPT ![r] = "checked"]
  /\ UNCHANGED <<row, submit, job, stalls, run, late, excuse>>

\* Queue.remove leaves a locked job alone.
RemoveJob(r) ==
  /\ cancel[r] = "checked"
  /\ job' = [job EXCEPT ![r] = IF @ = "active" THEN @ ELSE "removed"]
  /\ late' = [late EXCEPT ![r] = @ \/ job[r] = "active" \/ \E w \in Workers : run[w].r = r]
  /\ cancel' = [cancel EXCEPT ![r] = "removed"]
  /\ UNCHANGED <<row, submit, stalls, run, excuse>>

\* Seeded fault: the update does not look at the status again.
MarkCancelled_Fault(r) ==
  /\ cancel[r] = "removed"
  /\ row' = [row EXCEPT ![r].deleted = TRUE]
  /\ cancel' = [cancel EXCEPT ![r] = "none"]
  /\ UNCHANGED <<submit, job, stalls, run, late, excuse>>

MarkCancelled(r) ==
  /\ cancel[r] = "removed"
  /\ row' = [row EXCEPT ![r].deleted = @ \/ Cancellable(r)]
  /\ cancel' = [cancel EXCEPT ![r] = "none"]
  /\ UNCHANGED <<submit, job, stalls, run, late, excuse>>

CancelFails(r) ==
  /\ Faulty
  /\ cancel[r] # "none"
  /\ cancel' = [cancel EXCEPT ![r] = "none"]
  /\ Blame(r, "not cancelled")
  /\ UNCHANGED <<row, submit, job, stalls, run, late>>

---------------------------------------------------------------------------

Init ==
  /\ row = [r \in Requests |-> NoRow] /\ submit = [r \in Requests |-> "new"]
  /\ job = [r \in Requests |-> "none"] /\ stalls = [r \in Requests |-> 0]
  /\ run = [w \in Workers |-> Free]
  /\ cancel = [r \in Requests |-> "none"] /\ late = [r \in Requests |-> FALSE]
  /\ excuse = [r \in Requests |-> {}]

Execute(w) == FindRow(w) \/ Start(w) \/ Complete(w) \/ Fail(w)

Next ==
  \/ \E r \in Requests :
       \/ \E kind \in Kinds : Submit(r, kind)
       \/ AddJob(r) \/ Commit(r) \/ SubmitFails(r)
       \/ \E w \in Workers : TakeJob(w, r)
       \/ Stall(r) \/ MarkRead(r)
       \/ Cancel(r) \/ RemoveJob(r) \/ MarkCancelled(r) \/ CancelFails(r)
  \/ \E w \in Workers : Execute(w) \/ Throws(w) \/ Dies(w)

Spec == Init /\ [][Next]_vars

---------------------------------------------------------------------------

\* Rows, jobs and executions stay in their types.
TypeOK ==
  \A r \in Requests :
    /\ row[r].kind \in Kinds \cup {None}
    /\ row[r].status \in {"none", "PENDING", "RUNNING", "COMPLETED", "FAILED", "READ"}
    /\ job[r] \in {"none", "waiting", "active", "completed", "failed", "removed"}
    /\ stalls[r] \in 0 .. 2 /\ row[r].announced <= 3
    /\ \A w \in Workers : run[w].step \in {"free", "find", "start", "work"}

Settled(r) ==
  /\ submit[r] = "done" /\ cancel[r] = "none"
  /\ job[r] \notin {"waiting", "active"} /\ \A w \in Workers : run[w].r # r

\* A row that nothing will ever move on was hit by a fault, or by a worker that
\* was faster than the commit: no order of the steps of submitting, executing
\* and cancelling it strands it otherwise.
StrandedHasExcuse ==
  \A r \in Requests :
    Settled(r) /\ row[r].visible /\ ~row[r].deleted /\ row[r].status \in {"PENDING", "RUNNING"}
      => excuse[r] # {}

\* A cancelled report is announced only when the cancellation met an execution:
\* one that was announced before cannot be cancelled any more, unless its job was
\* handed out a second time and the second execution made it GENERATING again.
CancelledWasRunning ==
  \A r \in Requests : row[r].deleted /\ row[r].announced > 0 => late[r] \/ stalls[r] > 0
=============================================================================
