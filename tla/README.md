# DPDPOS backend: TLA+ specifications and proofs

This directory holds TLA+ models of the DPDPOS backend (`src/` is the repository, the TypeScript
sources are in `src/src/`), the TLC configurations that check them and the proofs that TLAPS
checks. `PROJECT.json` maps every definition to the source lines it models and lists the runs,
the seeded faults, the findings, the hazards and the theorems.

## 1. The system

DPDPOS is a multi-tenant compliance platform. Two Node processes share a PostgreSQL database
(Prisma, interactive transactions at READ COMMITTED) and a Redis (BullMQ queues, caches):

* the **API process** (`server.ts`) serves HTTP requests and runs an outbox relay;
* the **worker process** (`worker.ts`) consumes the BullMQ queues, runs the event handlers and runs
  a second outbox relay.

Several copies of each may run. Within a process everything interleaves at `await`.

### Components

| component | state it keeps | operations | what is hard, what must hold |
|---|---|---|---|
| transactional outbox and relay (`events/outbox`) | `outbox_events`: published_at, attempts, lock_token, locked_at, available_at | write with the business transaction; claim a batch, publish, mark, fail | several relays, stale locks, crashes between publish and mark; nothing marked published that never reached the bus, nothing lost |
| event bus and subscribers (`events/event-bus*`, `bootstrap`) | BullMQ jobs with jobId = event id | deliver to every registered handler | redelivery of stalled jobs, one rejecting handler |
| validation runs (`modules/validations`) | `validation_runs`, `validation_results` | trigger, daily sweep, execute, retry | a retry of what was done, two executors on one run, a run left behind |
| violations (`modules/violations`) | `violations` with status and version | open (by hand, from an event, from an assessment), PATCH, close | checks on a row read earlier; one violation per cause |
| remediation tasks (`modules/remediation`) | `remediation_tasks` with status, version, assignee, verifier | open (by hand, from an event), PATCH, close | as violations; announcing reassignments; one AUTO task per violation |
| data subject requests, erasure (`modules/rights`) | `data_subject_requests`, `erasure_checklist_items` | submit, PATCH; start erasure, confirm item, hard erase | two workflows on one row, gates checked before the transaction |
| authentication (`modules/auth`) | users, refresh sessions; challenges and counters in Redis | login, email code, resend, TOTP enrolment, refresh, logout, invitation | refresh races, resend against verification, the last guess, a counter without expiry |
| permission cache, roles, users | cached permissions and denied tokens in Redis; roles; status | fill on miss and on login, invalidate on change, guard | a fill with old data after the invalidation; a disabled account that comes back |
| identity federation (`modules/identity`) | linked accounts, mapped roles | sign-in, linking, directory sync | overlapping syncs without a transaction, a directory out of order |
| assessments and audit chain | versions, inputs, findings, evaluations, a hash-chained trail | upload, answer, submit, scan, evaluate, new version | evaluation against a new version, forks of the chain |
| questionnaire and control engine | the catalog; answers, evidence | gate of an evaluation, status of a control, score with ceilings | a gate and an engine that read answers differently; order of conditions |
| vendors (`modules/vendors`) | supply-chain edges, agreements, reviews, risk scores | create, update, offboard, sign, review, relate, acknowledge | a cycle closed by two links; stale scores |
| reports, AI requests, notifications | one status column each, a job each | request, execute, cancel, fail, deliver, read | job added before the row is committed or lost after it; cancel against completion |
| consent records and notices | grants and withdrawals; versioned notices | grant, withdraw, publish, delete | double withdrawal, version numbers |
| evidence | status, control, approval | upload, tag, map, review, approve, lock | transitions checked on a row read earlier |
| framework, controls, requirements | drafts and a published framework per tenant | generate, publish, archive, map | concurrent publication |
| audit log, departments, inventory, organizations, analytics, subject locator | plain rows | append, CRUD, aggregation, search | little concurrency beyond single-row writes |

Components interact in four ways: a service calls another service or repository in the same
request; a transaction writes an outbox row, which the relay turns into a bus job, which the worker
hands to handlers of other modules; a request adds a job to a queue that a worker of the same module
takes; and requests share rows.

### Behaviours that are hard to test

Every hazard is listed in `PROJECT.json` at its line. They fall into six groups: relays and
executors that lose their lock and go on; check-then-write on a row read before the transaction;
a commit followed by a queue operation (or the reverse) with a crash in between; duplicate and
concurrent delivery to handlers; caches and challenges in Redis that outlive what they were made
from; and side effects that one path to a status has and another has not.

## 2. Modules

```
EventDelivery  <--refines--  Outbox            <--  MCOutbox, Outbox_proofs
     ^-- INSTANCE (the bus) --  IncidentPipeline
Incident       <--refines--  IncidentPipeline  <--  IncidentPipeline_proofs
                             ValidationRun     <--  ValidationRun_proofs
Lifecycle      <--refines--  Violation    \
Lifecycle      <--refines--  Remediation   >   <--  MCRecords     <--  Records_proofs
                             Rights       /
                             Access            <--  Access_proofs
                  Access, Mfa, Federation      <--  MCAccess      <--  AccessRun_proofs (with Access_proofs)
Catalog  <--  ControlEngine, Framework    \
         <--  Questionnaire, Evidence      >   <--  MCCompliance  <--  Vendors_proofs  <--  Compliance_proofs
   Assessment, Vendors, JobRequest, Consent/
```

### Events, runs and records

* **EventDelivery** (abstract): events are recorded, then announced, perhaps repeatedly, then
  settled; none of it is undone. **Outbox** implements it with the table, the relays and the queue.
  One action is one I/O step of `relayOnce`: the claiming UPDATE, `queue.add`, the marking UPDATE, the
  failing UPDATE. A lock is a token, 0 for NULL; time is present only as "the lock has become stale"
  and "the backoff has elapsed", which may happen at any moment. A claim takes any non-empty part
  of the claimable rows, because SKIP LOCKED may skip some. `enqueued` and `handled` are histories.
* **ValidationRun**: the API inserts the run and then adds the job; executors take the job and
  perform `executeRun` one database call at a time; BullMQ retries a failed attempt and hands the
  job of an expired lock to another executor while the first may go on. What an evaluator returns is
  a free choice. An event is counted per failed rule and run. An administrator switches rules off and
  on at any time (SwitchRule); every attempt evaluates the rules that are active when it reads them, and
  the upsert keeps the rows of those it does not evaluate. `steady` is a history: the rules that were active
  ever since a run was created. A rule that is created later is one that was off before.
* **Incident** (abstract): at most one violation per cause and one automatic task per violation.
  **IncidentPipeline** implements it: the bus is an instance of EventDelivery, a slot is a handler
  run or a request, a lookup and an insert are separate steps, and only the unique indexes are
  atomic. A violation opened by hand for a result and an assessment's FAIL control race with the
  handlers.
* **Lifecycle** (abstract): a status column moves along the edges of a state machine, deciding
  and writing at once. **Violation** and **Remediation** implement it with `findById`, the checks and a
  transaction whose UPDATE compares the version the *client* sent. A client is any API caller with one
  request in flight; it sends a version it has seen, which is at most the current one. **Rights** has
  the same PATCH and, beside it, the erasure workflow, whose writes do not compare versions; it does
  not refine Lifecycle, because the hard erase closes a request from any status.

### Access

* **Access**: one account, its row, its refresh sessions, its permission cache entry and the deny
  list. A *slot* is a request in flight; it keeps what it read (status, version of the permissions)
  until its transaction writes. Permissions are abstracted to the number of role changes committed,
  so "stale" is "an older number". `issueSessionInTx` is one action, IssueSession; the fire-and-forget
  writes to Redis are `BestEffort`, which leaves the value or the old entry.
* **Mfa**: one email challenge in Redis, replaced by resends, checked and deleted by scripts (one
  action each); a resend is CheckResendEligibility, CountResend, SetCounterExpiry, RotateForResend,
  QueueEmailOtp, and the roll-back RestoreAfterQueueFailure and the counter's release. TOTP
  enrolment shares the module: a secret is stored, its code checked, and the flag set by the user's id.
* **Federation**: a sign-in and a directory sync find the account, link or create it, read the roles,
  and add and remove them one write at a time; an administrator changes the status in between.

### Compliance work

* **Assessment**: the versions of one assessment, what each version collected, the evaluations and
  the audit chain. A request reads, locks the row (most of them), reads the head of the chain and
  appends; an event's hash is its position in the chain, `prev` the position it was hashed over.
* **Catalog** (constants of the code): which questions each control asks, the core questionnaire, the
  industry packs, the follow-ups, and the templates of a framework. **ControlEngine** is `evaluateOne`
  and the score with its ceilings as operators of the evidence, which grows step by step.
  **Questionnaire** is the gate before an evaluation: normalisation of the industry's text, the
  required questions, the strict comparison of a parent's answer, and requests that answer, change the
  industry or start a version between the reads.
* **Vendors**: the supply-chain graph with checks outside the transaction, agreements, reviews, and the
  risk score, recomputed after the commit and stored only under an unchanged version. A score is
  abstracted to the facts `computeVendorRisk` reads: the vendor's criticality class and its *profile*
  (everything else the function takes from the row and the date: LOW or MEDIUM, HIGH or CRITICAL, data
  categories, countries, a scheduled review that is past), the latest review with its residual floor, the
  agreement in force and whether it ends within 30 days, and the critical and unacknowledged children. Two
  rows with different facts may have equal scores, so a score that is current here is current in the
  code. Requests may fail at every step (RequestFails) and dates pass (DatePasses). `overlooked` is a
  history of the vendors whose facts changed without anybody going to store a score: `ScoresAreCurrent`
  lists the ways into it, and says that there is no other. An agreement is named by the request slot that signed
  it and a number no agreement in force or known to a request has (the proof shows that one is left).
* **JobRequest**: a row and a job each for reports, AI requests and notifications: insert, add,
  commit (in the order of each service), find, start, finish, fail, cancel, lock lost, handed out again.
* **Consent**, **Evidence**, **Framework**: a read and a transaction per request. Framework generates
  its content from Catalog.

### Composition for TLC

**MCRecords**, **MCAccess** and **MCCompliance** put components that share no state side by side. In a
behaviour one of them is at work and the others stay as they are, so that the state space is the
sum of theirs. A component may occur as several instances, each with the requests one question needs
(PATCH alone, erasure, both; the permission cache, the account's row, rotation). The modules for
these and **MCOutbox** hold nothing but instances, symmetry and names for the instances' properties;
which controls and questions are under consideration and which vendors each registry has are constants
of MCCompliance, so that the theorems hold for any choice.

A status value the body may leave out is `NoChange`; titles, descriptions, due dates and severities
are left out, a resolution is null, blank or a text. A tenant is left out: every row a module shows
belongs to one organization, and no operation modelled reads across.

Definitions named `X_Fault` (or `X_` and a word for the mistake) below the comment "Seeded fault" are
mutated forms of `X`; no specification uses them. They show that each property can be broken by a
plausible mistake.

## 3. Runs

| run | configuration | checks |
|---|---|---|
| outbox_safety | 2 relays, 2 events, 2 attempts, any 2 failures | types, OneMarkerPerRow, StuckOnlyByFaults, PublishedIsFinal, refinement of EventDelivery |
| outbox_live | the same, 1 failure that is not a rejecting handler | every event handled, every lock released |
| outbox_handler | 1 rejecting handler | *violated*: the event is lost |
| validation | 1 run, 2 rules, one of which is switched off and on, 2 executors, 3 attempts, any 3 failures | types, RunsAreAccountable, FailureReportedOnce, CompletedRunIsKept, every queued run completes for good |
| validation_readback | 1 failing read-back | *violated*: a completed run is marked FAILED and executed again |
| pipeline | 1 result, 1 control, 2 violation ids, 2 slots, 2 deliveries per event, 1 crash, 1 violation by hand | types, NoDuplicates, RowsMatchEvents, refinement of Incident, a failed result gets its violation and its task |
| records | 2 clients; 1 violation with 7 versions; 1 task, 2 users, 5 versions; 1 data subject request, 1 internal system, 1 vendor, 4 versions under PATCH and 3 with the erasure | types; ClosedOnce, TerminalIsImmutable, RecordsFollowLifecycles (violations and tasks refine Lifecycle); AssigneeWasAnnounced, VerifiedAndCompletedOnce; RequestsAreAccountable, LifecycleOrErase, ConfirmationsAreKept |
| access | 2 slots; 2 tokens (4 for rotation), 2 role changes; one challenge with 2 guesses, 2 resends and 3 codes; 1 or 2 directory identities, 2 mapped roles | types; RotationForksBounded, ChallengesAreSound (one session per challenge, guesses bounded, stored codes were queued, the resend limit ends), DisabledStaysDisabled, DirectoryRolesSettle, StaleEntriesExpire |
| compliance | 2 slots, 2 workers; 2 versions and 4 chained events; 2 + 2 controls; vendors: 3 in the graph, 2 with one request at a time that may fail, 1 whose agreements are signed while requests fail and dates pass, 2 offboarded, linked and reviewed at once, each with 2 profiles and 1 review outcome; 1 job row; 3 notices; 2 frameworks; 2 + 2 questions, 3 texts for an industry | types; HeldEventsAreChained, TrailsAreComplete, JobsAreAccountable, CyclesNeedTwoRacingEdges, RegistryIsSound, GateIsSound, EvidenceNeverLowersScore |
| engine_children | 2 controls | *violated*: policy text takes a consent control from PARTIAL to UNKNOWN |
| violation_close | 1 client | *violated*: PATCH closes without the effects of close() |
| rights_gate | 1 request, 2 clients, erasure only | *violated*: hard erase during a cooling-off period or with a pending item |

### Bounds

*Two of everything that races.* Two relays, executors, slots or clients are enough for a lost
lock, an overlap or a lost update between two of them; rows are independent of each other except in
a claimed batch, so one row (two events in Outbox) is enough.
*Versions* (`MaxVersion` and its like) stop clients from sending more requests. 7 for violations
reaches CLOSED along the longest path without a detour; 5 for tasks and 4 for data subject requests
reach CLOSED, and the shorter terminal paths (CANCELLED, REJECTED) leave room for requests sent
afterwards; 3 with the erasure leaves room for a PATCH before and after a hard erase, or two erases.
*Failures* (`MaxFaults`, `MaxCrashes`) reach the second lost lock of a job and exhausted attempts (2 of
2 in outbox_safety, 3 of 3 in validation). Liveness is claimed for fewer failures than attempts only:
outbox_live allows fewer, and QueuedRunsComplete names what makes BullMQ or the code give up.
*Deliveries* of one event are bounded by 2, which is one duplicate. *Identifiers* of violations are
bounded by 2 in pipeline, so `FailureIsRemediated` excepts behaviours that use them up for other
causes (`OutOfIdentifiers`).
*Tokens*: two are enough for a cache filled by an older request; rotation has four, so that a token
can be exchanged twice and each of its children once more. *Role changes* (2) let an entry be stale
twice. *Challenges*: two guesses and two resends reach the last guess, the last resend and a restored
challenge that is rotated again; three codes tell the original, the first and the second replacement
apart. *Vendors*: three, for a cycle that is not just a pair; two elsewhere, a parent and a child. Two
*profiles* are a change and the way back; one *outcome* of a review differs from none. Each of the four
registries has the requests and disturbances one question needs, as `Scope` lists; signing, offboarding
and linking requests really overlap there, and Lone's never do. *Rules*: one that is always active and one that is
switched (`Switchable`), which is what a row left over needs. *Chain events* (4) and *versions* (2) let
two requests append on either side of a new version. *Questions*: a parent and its follow-up, once
from the core set and once from an industry's pack; every other question counts as answered.
The three *texts* are an industry's key, a text matching two industries, and one matching none.
An organization with and without processors, which decides whether a generated framework has the
PROCESSOR control. `CHECK_DEADLOCK FALSE` is set everywhere because a bounded instance does stop when
the requests and failures are used up.

### Fairness

Outbox assumes weak fairness of each relay's tick (setInterval), of each pending I/O call, of the
clocks and of the BullMQ worker; ValidationRun of each executor's next call, of the queue handing
out jobs and of the stalled-job check; IncidentPipeline of handler runs and, strongly, of the
delivery of an event until a handler run has finished. The last is what outbox_live shows of the
outbox for handlers that do not reject: a handler run that dies with its process is a stalled job, and
is redelivered. It needs strong fairness because all slots may be taken again and again. Access
assumes that a cache entry expires (it is written with a time to live) and that a request that has
started goes on. Nothing is assumed of requests, failures, evictions or crashes.

## 4. Findings

Five runs end with a counterexample to something the repository says of itself; `PROJECT.json`
quotes the lines.

1. `event-bus.ts:21` adds bus jobs without attempts. One rejecting handler loses the event; the
   documents promise retries.
2. `violation.service.ts:322`: PATCH to CLOSED is legal for the state machine, and skips closed_at and
   the closing event of close(). `remediation-task.service.ts:220` does the same.
3. `validation-execution.service.ts:200`: a failing read after the commit turns a completed run into a
   FAILED one that is executed again.
4. `erasure-evidence.service.ts:193`: the gates of the hard erase are checked before its transaction.
5. `control-engine.service.ts:223`: the branch that should leave a consent control with children's data
   PARTIAL is out of reach; adding policy text to an affirmative answer lowers the control to UNKNOWN.

Properties that hold carry the following limits of the code in their statements:

* `violation.service.ts:306`: the terminal check is covered by the version only when clients send
  versions they have seen (`Ahead = 0`). A client that counts versions itself edits a violation that
  was archived after the check; `TerminalIsImmutable` fails with `Ahead = 1`.
* `validation-execution.service.ts:85`: two executors that run one job at once report a failed rule
  twice, and the one that lost the lock may mark the run FAILED after the other completed it.
* BullMQ gives up on a job that lost its lock twice; the run then stays PENDING or RUNNING.
* `erasure-evidence.service.ts:199`: the hard erase closes a request from any status and writes no
  RightsRequestClosed event, although rights-request-lifecycle.state-machine.ts:13 calls it an
  invariant that CLOSED is reachable from RESPONDED only (`LifecycleOrErase`).
* `auth.service.ts:360`: one refresh token yields as many sessions as requests that had read it before
  the first of them committed (`RotationForksBounded`).
* `auth.repository.ts:147`: an account that was read as invited is activated after an administrator
  has disabled it (`DisabledStaysDisabled`); linking a directory identity has the same race.
* `role.service.ts:124`: invalidation before the commit lets a request put the old permissions back.
  README.md:142 of the repository says guards pick up new permissions immediately; what holds is that
  an old entry runs out (`StaleEntriesExpire`).
* `oidc.service.ts:245`: a directory that answers with an error counts as one that reports no groups, and
  the sign-in takes the mapped roles away until a later one (`DirectoryRolesSettle` asks for one that
  saw the directory as it is).
* `federated-user.service.ts:132`: an account without roles is given the default role even when the
  directory maps groups to that role and the user is in none of them; `SettledRolesMatch` leaves the
  default role out. It speaks of one directory identity with mapped groups: two identities that link one
  account, both with maps, take each other's roles away.
* `validation-execution.service.ts:107`: an attempt evaluates the rules that are active when it starts, and
  leaves the rows of rules switched off since. Attempt 1 commits an ERROR row of A as PARTIAL, its
  read-back fails, A is switched off, and attempt 2 commits COMPLETED beside the ERROR row
  (`StatusSumsUpResults` names the case).
* `assessment-audit.service.ts:17`: confirming a document, issuing a CLI token and starting a scan append to
  the chain without the assessment's row lock, so such an event may share its predecessor with another
  (`HeldEventsAreChained` speaks of those appended under the lock; the others, the CLI batch among them,
  update the assessment first).
* `evidence.service.ts:113`: transitions are checked on a row read earlier and written by id. A LOCKED file was
  approved once (`LockedWasApproved`), but a slower request may take it back to the status it had
  read as legal, and a confirmation may rewrite the hash of a locked file; no property forbids that.
* `assessment.service.ts:747`: the gate takes a parent for affirmed only when it is the boolean true; the
  engine takes the text "yes" as well, so a follow-up a control needs may be missing (`GateFitsEngine`
  names the case).
* `vendor.service.ts:315`: two relationships checked at the same time can close a cycle together;
  two signatures can leave two ACTIVE agreements.
* `vendor.service.ts:107`: a PATCH never stores the score it computes: it is read over another connection,
  which sees neither the PATCH nor the version it gave the row, so the second UPDATE matches nothing. Nor
  does it score the vendors above one whose criticality class changed. `vendor.service.ts:254` (and 191,
  285, 352, 378): after the commit of the other requests a failure, or a write of the row in between, leaves
  the old score; so do dates that pass (`ScoresAreCurrent` names each).
* `framework.service.ts:191`: two publications that overlap may leave two published frameworks
  (`OneFrameworkPublished` excepts them).
* `notice.service.ts:35`: after a soft delete of the latest version every further publication of the
  title meets the unique index. The history has no gap (`NoticeHistory`), but it has ended.
* `report.service.ts:29`: a worker faster than the commit fails the job's only attempt, and a
  cancellation that meets an execution is overwritten by it (`JobsAreAccountable`).

## 5. Proofs

Eight modules hold theorems of the specifications for all values of the constants: any number of
records, clients, slots, workers, tokens, vendors, versions and failures. Every safety invariant and
every action property a passing run checks, and the refinements of EventDelivery, Incident and Lifecycle, are
stated by a theorem; the runs show them on a small instance first. So do the inductive invariants,
which TLC finds to hold of the same configurations (but for some conjuncts on types, where the
values a field may take are not comparable for TLC).

**Assumptions.** They are named in the module that declares the constants, and TLC evaluates them:
`OutboxAssumption`, `ValidationRunAssumption`, `ViolationAssumption`, `PipelineAssumption`,
`AccessAssumption`, `RecordsAssumption`, `MCAccessAssumption`, `MCComplianceAssumption`. They give the
limits their type (an attempt limit is at least 1), make the sets that are counted finite, and
keep placeholders such as `None` out of the sets they stand beside. Nothing else is assumed of
constants. One hypothesis is about clients: `Ahead = 0` (a client sends versions it has seen) in what is
said of violations; with `Ahead = 1` it is false, see section 4.

**Outbox_proofs.** TypeOK and the safety properties are not inductive: that a relay's mark cannot hit
a row of another relay rests on tokens being fresh. `IInv` adds that every token in use
is older than `nextToken`, that a relay marks only rows it has put on the bus, that the row it
works on is one of its batch, and that two relays in a batch hold different tokens. From it follow
`PublishedReachedBusAlways`, `OneMarkerPerRowAlways`, the action property `PublishedIsFinalAlways`
(a published row has no lock, and tokens are never 0) and `OutboxImplementsDelivery` (a claim, a
failure and every step of a job stutter, publishing announces, a matching mark settles).
`GivenUpOnlyByFaultsAlways` counts: the attempts of an event that never reached the bus are at most the
failures so far and the relays that carry it (`AttemptsPaidFor`), because a relay that puts a row down
without publishing it has met a failure of its own. It is one half of `StuckOnlyByFaultsAlways`. The other
half is what LocksAreReleased and DeliveredAtLeastOnce need beside fairness: while nothing failed, a lock
has a relay that will mark or release the row (`LocksHeld`), and a job is handed back to the worker or has
run the handlers, so an event on the bus that is not handled is waiting or in hand (`JobsHandled`).

**ValidationRun_proofs.** Rows and status are written by one transaction. The commit of an execution
covers every rule that was active since the run was created (`SteadyIsEvaluated`), and a row it does
not write is of a rule switched off since; a run that has rows before its commit was committed
before, which takes a failed read-back or a second executor. Hence `StatusSumsUpResultsAlways`, with its
exception, whatever overlaps and is switched. Events are a matter of exclusion: unless a
job was executed twice at once, an executor that works on a run holds its job (`WorkerHoldsJob`), what the
terminal guard found still holds (`GuardStillHolds`), and a run that is open has no rows yet
(`OpenRunHasNoRows`); so the commit that reports a failed rule is the first and only one. Double
executions and read-backs that fail are counted, and the theorems speak of runs that met neither.
`StrandedOnlyByFaultsAlways`, the other half of `RunsAreAccountable`, is an argument by accounts (`ReachInv`):
each spent attempt of a job, and each expired lock, met a failure of its own (`AttemptsPaidFor`,
`LocksPaidFor`; a job loses its executor only by the executor's death, `AbandonedByDeath`); a job that was
never executed twice at once completes with its run (`CompletedWithRun`); and while nothing failed, what
is marked RUNNING has an executor (`RunningIsExecuted`). So no order of the steps leaves a run
behind, which is the part of `QueuedRunsComplete` that needs no fairness.

**Records_proofs.** For violations, `IInv` says that a
request's version is at most the row's and that, where it equals it, what was checked still holds:
whoever changes the row increments the version, so an old check cannot match. `ClosedOnce` needs in
addition that `closed_at` and the event go together with status CLOSED. Tasks are as violations
(their model has no clients that send unseen versions), with the fields an announcement and a
verification depend on and `StampedWhenVerified`, the verifier's stamp is there from VERIFIED on. Data subject requests add the
erasure workflow, which does not compare versions but moves them on: what a PATCH was allowed holds of the row it
writes (`AllowedStillHolds`), one checked before an erasure cannot match after it (`LifecycleOrEraseAlways`), and every mark in the
checklist comes from a confirmation (`MarksAreConfirmed`; `ConfirmationsAreKeptAlways`,
`RequestsAreAccountableAlways`). The composition implements Violation
(`RecordsImplementViolations`), which carries the theorems on Violation over, and
implements Lifecycle twice (`RecordsFollowLifecyclesAlways`).

**IncidentPipeline_proofs.** What a lookup found is never relied upon: an insert consults the unique index in
the step that writes, and a violation is written with its event. `IInv` is the type invariant,
NoDuplicates and `RowsHaveEvents`, strengthened by `WorkAnnounced`: a handler works only on an event
that reached the bus, so the violation an automatic task is created for exists. Rows stay (`RowsStay`),
and a handler run finishes only when its row is there (`FinishedWithRow`), hence the second half of
RowsMatchEvents, `HandledTookEffect`. Theorems:
`NoDuplicatesAlways`, `RowsMatchEventsAlways` and `PipelineImplementsIncident` (an insert
that the index lets through opens a violation or a task, every other step stutters).

**Access_proofs, AccessRun_proofs.** A request writes the account's status only as its own read allows,
and accepting an invitation writes ACTIVE unconditionally; `IInv` says that whoever gets that far had
read the account as invited, from which `DisabledStaysDisabledAlways` follows. `ForksBoundedAlways`
relates each successor of a token to a request that had read the token while it was active: the first of them
to commit revokes it, so no request that reads it later is among them (`ForkInv`). `OldReadsRunOutAlways` is the part of
StaleEntriesExpire that needs no fairness: while the role does not change, no request comes to
hold old permissions, and one that does writes them to the cache at most once and is over. In the composition the
same theorems hold of each instance of Access. The e-mail challenge (`MailInv`): guesses and resends only count
up, a waiting resend remembers a record that was in force, and whoever exchanges a challenge
deletes it in the same script. The directory (`SettleInv`): after the last change of membership, a
request that began after all older ones were over plans with the groups the directory has, and
every other request in flight does too, so the mapped roles differ from the directory's only by what is still
planned.

**Vendors_proofs.** `VendorInv` types the rows and requests. `ScoreInv` adds an account of every vendor
that was not overlooked (`Account`). Either the vendor is settled: its stored score is that of its facts,
and whoever may still store one under an unchanged version has read the same facts (`Settled`). Or a request
promises it: it is going to compute the score, or it holds the facts as they are, or it will find
another version and leave the vendor overlooked (`Promises`). `Known` says that requests and relationships name
registered vendors and that a vendor being created is named by nobody else. There is one lemma per action.
A vendor that is neither overlooked nor to be scored is settled, which is `ScoresAreCurrent`; requests
that overlap are no exception. `QuietInv` says what holds while they did not, for `OneAgreementInForce`: a
signature has seen every agreement in force. For the graph, `GraphInv` says that a check that met no other request misses
no relationship, and one that did misses none that was added alone; then a relationship added alone
closes no cycle (`AddEdge`), and `CyclesNeedTwoRacingEdgesAlways` follows. Reachability is defined by sets
closed under the edges, so the lemmas on it (`AcyclicEdge`, `AddEdge`, `FewerEdges`) need no induction
over paths.

**Compliance_proofs.** One component is at work in a behaviour (`OneMoves`), so each property rests on the
invariant of its component. Evidence: `approvedBy` is never reset, so a request on its way to LOCKED has
read an approved file. Notices: the version a request has read is one there was, and the unique
index refuses the same successor twice. Assessment: a request that holds the row lock adds the version
after the last, and no other held event is appended between the head it reads and its own. Jobs: each
time a job is handed out it is executed once, and a row is in the hands of the queue, of a worker or
of a cancellation unless a fault has hit it. Questionnaire: within a version answers are replaced but
never removed (`Kept`), and two facts of the catalog are used - the questions controls ask are core
questions, and so are their parents, which follow no others. Framework: the publication under way
finds what it has read unless two overlapped, and a framework being generated is named by nobody else.
ControlEngine: no control is judged worse for another document or finding; the score is a count of
controls, and rounding and ceilings are monotone (`QuotientsGrow`). Vendors: as above.

Only model-checked are the liveness properties, which are out of the prover's reach:
`DeliveredAtLeastOnce`, `LocksAreReleased`, `QueuedRunsComplete`, `FailureIsRemediated` and
`StaleEntriesExpire`, and the findings, which are counterexamples. Nothing is proved by induction
over data: where a definition could call for it (paths of the supply chain, the sum of a score) the models
count sets or quantify over them, so that what is needed follows from set and arithmetic reasoning.

## 6. Plan

Modelled, checked and proved is the core and every component with concurrency of its own. What is left, in
this order:

1. A composition of ValidationRun with IncidentPipeline in place of its `ResultFails`, with the
   refinement of Incident carried over.
2. The fairness-free half of FailureIsRemediated (what must have happened for a violation to stay
   without its task) as an invariant with a proof, as `StuckOnlyByFaults` is for the outbox and
   `StrandedOnlyByFaults` for runs.
3. The evaluators of the validation rules, against reference definitions over small registries.

## 7. Not modelled, and why

Content of messages, prompts, reports and questionnaires; HTTP routing, schema validation of
bodies and permissions on routes (a request is a call with a value its schema accepts, by a caller
who may make it); object storage, e-mail, directories and identity providers (calls that may fail where a
module says so), with the OIDC and SAML exchanges (state, nonce, signatures); hashing of passwords and
signing of tokens. CRUD modules whose operations write one row (organizations, departments, inventory);
the audit log, an append whose errors are swallowed and which nothing reads back; read-only modules
(analytics, subject locator); seeding, scripts and the demo page. Time is present as steps that may
happen at any moment: a cooling-off period ends, a lock becomes stale, a review of a vendor falls due, an agreement
nears its end or expires. Of vendors, DRAFT agreements and agreements that have expired already when they are
signed are left out, and the five queries of `buildScorecard` are one step: a change between two of them
counts as one after all of them, whose request still has a score to store or leaves the vendor
overlooked. Soft
deletion is modelled where an operation of a modelled service performs it (notices, reports, vendors,
drafts of frameworks).
