------------------------------- MODULE Rights -------------------------------
(***************************************************************************)
(* Data subject requests: PATCH requests that move a request along its     *)
(* lifecycle, and the erasure workflow (soft delete, cooling-off, a        *)
(* checklist of systems, hard erase with an evidence pack) that runs       *)
(* beside them on the same row.                                            *)
(*                                                                         *)
(* PATCH checks what it read and writes under the version the client sent. *)
(* The erasure operations read first and write later without looking at    *)
(* the version again; only the hard erase increments it.                   *)
(***************************************************************************)
EXTENDS Naturals

CONSTANTS
  Requests,     \* ids of ERASURE requests
  Clients,      \* concurrent API callers, one call in flight each
  Internal,     \* internal systems on every checklist
  Vendors,      \* vendors that may be ACTIVE
  MaxVersion,   \* bound on the versions explored
  Workflows     \* which of "patch", "erasure" and "vendors" take part

VARIABLES
  status,       \* status column
  version,      \* version column
  resolution,   \* resolution_summary column
  closings,     \* number of times closed_at was written
  closeEvents,  \* RightsRequestClosed rows in the outbox
  softDeleted,  \* requests whose soft_deleted_at is set
  coolingOff,   \* requests whose cooling_off_until is in the future
  hardDeleted,  \* requests whose hard_deleted_at is set
  checklist,    \* status of each request's checklist item, or "absent"
  evidence,     \* erasure_evidence_json: the items it lists
  confirmed,    \* history: items that were ever confirmed
  active,       \* vendors that are ACTIVE
  call          \* what each client's call is doing

patchVars   == <<status, version, resolution, closings, closeEvents>>
erasureVars == <<softDeleted, coolingOff, hardDeleted, checklist, evidence, confirmed>>
vars        == <<patchVars, erasureVars, active, call>>

Statuses == {"SUBMITTED", "ASSIGNED", "IN_PROGRESS", "RESPONDED", "REJECTED", "CLOSED"}

Terminal == {"REJECTED", "CLOSED"}

Edges ==
  {<<"SUBMITTED", "ASSIGNED">>, <<"SUBMITTED", "IN_PROGRESS">>, <<"SUBMITTED", "REJECTED">>,
   <<"ASSIGNED", "IN_PROGRESS">>, <<"ASSIGNED", "REJECTED">>,
   <<"IN_PROGRESS", "RESPONDED">>, <<"IN_PROGRESS", "REJECTED">>,
   <<"RESPONDED", "CLOSED">>}

Systems == Internal \cup Vendors

Marks == {"DONE", "SKIPPED", "FAILED"}

Checklists == [Systems -> {"absent", "PENDING"} \cup Marks]

\* A resolution is null, blank after trimming, or a text.
Resolutions == {"null", "blank", "text"}

NoChange == "no change"

Idle == [op |-> "idle"]

Calls ==
  [op : {"update"}, d : Requests, to : Statuses \cup {NoChange},
   resolution : Resolutions \cup {NoChange}, expected : Nat \ {0}]
  \cup
  [op : {"write update"}, d : Requests, to : Statuses \cup {NoChange},
   resolution : Resolutions \cup {NoChange}, expected : Nat \ {0},
   entering : BOOLEAN]
  \cup [op : {"write start"}, d : Requests, immediate : BOOLEAN, vendors : SUBSET Vendors]
  \cup [op : {"read items"}, d : Requests, resolution : Resolutions]
  \cup [op : {"write erase"}, d : Requests, resolution : Resolutions, items : Checklists]

TypeOK ==
  /\ status \in [Requests -> Statuses]
  /\ version \in [Requests -> Nat \ {0}]
  /\ resolution \in [Requests -> Resolutions]
  /\ closings \in [Requests -> Nat]
  /\ closeEvents \in [Requests -> Nat]
  /\ coolingOff \subseteq softDeleted /\ hardDeleted \subseteq softDeleted
  /\ softDeleted \subseteq Requests
  /\ checklist \in [Requests -> Checklists]
  /\ evidence \in [Requests -> Checklists]
  /\ confirmed \in [Requests -> SUBSET Systems]
  /\ active \subseteq Vendors
  /\ call \in [Clients -> Calls \cup {Idle}]

NoItems == [s \in Systems |-> "absent"]

Init ==
  /\ status = [d \in Requests |-> "SUBMITTED"]
  /\ version = [d \in Requests |-> 1]
  /\ resolution = [d \in Requests |-> "null"]
  /\ closings = [d \in Requests |-> 0]
  /\ closeEvents = [d \in Requests |-> 0]
  /\ softDeleted = {} /\ coolingOff = {} /\ hardDeleted = {}
  /\ checklist = [d \in Requests |-> NoItems]
  /\ evidence = [d \in Requests |-> NoItems]
  /\ confirmed = [d \in Requests |-> {}]
  /\ active \in SUBSET Vendors
  /\ call = [c \in Clients |-> Idle]

Begin(c, next) == call[c] = Idle /\ call' = [call EXCEPT ![c] = next]

Continue(c, next) == call' = [call EXCEPT ![c] = next]

Reply(c) == call' = [call EXCEPT ![c] = Idle]

Doing(c, op) == call[c].op = op

---------------------------------------------------------------------------
(* PATCH /data-subject-requests/:id *)

SendUpdate(c) ==
  /\ "patch" \in Workflows
  /\ \E d \in Requests, to \in Statuses \cup {NoChange},
        res \in Resolutions \cup {NoChange} :
       /\ version[d] < MaxVersion
       /\ \E expected \in 1 .. version[d] :
            Begin(c, [op |-> "update", d |-> d, to |-> to, resolution |-> res,
                      expected |-> expected])
  /\ UNCHANGED <<patchVars, erasureVars, active>>

\* What update() refuses on the row it read: a status for a terminal request,
\* an illegal transition, CLOSED without a resolution in the same PATCH.
Allowed(from, q) ==
  /\ q.to # NoChange => from \notin Terminal /\ (q.to = from \/ <<from, q.to>> \in Edges)
  /\ (IF q.to = NoChange THEN from ELSE q.to) = "CLOSED" => q.resolution = "text"

CheckUpdate(c) ==
  LET q    == call[c]
      from == status[q.d]
  IN
  /\ Doing(c, "update")
  /\ IF Allowed(from, q)
     THEN Continue(c, [op |-> "write update", d |-> q.d, to |-> q.to,
                       resolution |-> q.resolution, expected |-> q.expected,
                       entering |-> q.to \in Terminal \ {from}])
     ELSE Reply(c)
  /\ UNCHANGED <<patchVars, erasureVars, active>>

\* Seeded fault: the UPDATE matches the row by id alone.
Matches_AnyVersion(c) == TRUE

\* The repository's optimistic-lock UPDATE matches a row.
Matches(c) == version[call[c].d] = call[c].expected

Bump(d) == version' = [version EXCEPT ![d] = @ + 1]

WriteUpdate(c) ==
  LET q == call[c] IN
  /\ Doing(c, "write update")
  /\ IF Matches(c)
     THEN /\ Bump(q.d)
          /\ status' = [status EXCEPT ![q.d] = IF q.to = NoChange THEN @ ELSE q.to]
          /\ resolution' = [resolution EXCEPT ![q.d] =
               IF q.resolution = NoChange THEN @ ELSE q.resolution]
          /\ closings' = [closings EXCEPT ![q.d] = IF q.entering THEN @ + 1 ELSE @]
          /\ closeEvents' = [closeEvents EXCEPT ![q.d] =
               IF q.entering /\ q.to = "CLOSED" THEN @ + 1 ELSE @]
     ELSE UNCHANGED patchVars
  /\ Reply(c)
  /\ UNCHANGED <<erasureVars, active>>

---------------------------------------------------------------------------
(* The erasure workflow *)

\* startErasure reads the request and the ACTIVE vendors, ...
BeginStart(c) ==
  /\ "erasure" \in Workflows
  /\ \E d \in Requests, immediate \in BOOLEAN :
       Begin(c, [op |-> "write start", d |-> d, immediate |-> immediate, vendors |-> active])
  /\ UNCHANGED <<patchVars, erasureVars, active>>

\* Seeded fault: the upsert resets items that exist.
WriteStart_ResetsItems(c) ==
  LET q == call[c] IN
  /\ Doing(c, "write start")
  /\ softDeleted' = softDeleted \cup {q.d}
  /\ coolingOff' = IF q.immediate THEN coolingOff \ {q.d} ELSE coolingOff \cup {q.d}
  /\ checklist' = [checklist EXCEPT ![q.d] =
       [s \in Systems |-> IF s \in Internal \cup q.vendors THEN "PENDING" ELSE @[s]]]
  /\ Reply(c)
  /\ UNCHANGED <<patchVars, hardDeleted, evidence, confirmed, active>>

\* ... then soft-deletes, restarts the cooling-off period and adds the
\* checklist items that are missing, whatever happened to the request.
WriteStart(c) ==
  LET q == call[c] IN
  /\ Doing(c, "write start")
  /\ softDeleted' = softDeleted \cup {q.d}
  /\ coolingOff' = IF q.immediate THEN coolingOff \ {q.d} ELSE coolingOff \cup {q.d}
  /\ checklist' = [checklist EXCEPT ![q.d] =
       [s \in Systems |->
          IF @[s] = "absent" /\ s \in Internal \cup q.vendors THEN "PENDING" ELSE @[s]]]
  /\ Reply(c)
  /\ UNCHANGED <<patchVars, hardDeleted, evidence, confirmed, active>>

ConfirmChecklistItem(d, s, mark) ==
  /\ checklist[d][s] # "absent"
  /\ checklist' = [checklist EXCEPT ![d][s] = mark]
  /\ confirmed' = [confirmed EXCEPT ![d] = @ \cup {s}]
  /\ UNCHANGED <<patchVars, softDeleted, coolingOff, hardDeleted, evidence, active, call>>

\* completeHardErase: read the request and check the cooling-off period, ...
BeginErase(c) ==
  /\ "erasure" \in Workflows
  /\ \E d \in softDeleted \ coolingOff :
       Begin(c, [op |-> "read items", d |-> d, resolution |-> resolution[d]])
  /\ UNCHANGED <<patchVars, erasureVars, active>>

\* Seeded fault: pending items are not looked at.
ReadItems_IgnoresPending(c) ==
  LET q == call[c] IN
  /\ Doing(c, "read items")
  /\ Continue(c, [op |-> "write erase", d |-> q.d, resolution |-> q.resolution,
                  items |-> checklist[q.d]])
  /\ UNCHANGED <<patchVars, erasureVars, active>>

\* ... read the checklist, refuse when an item is pending, ...
ReadItems(c) ==
  LET q == call[c] IN
  /\ Doing(c, "read items")
  /\ IF \E s \in Systems : checklist[q.d][s] = "PENDING"
     THEN Reply(c)
     ELSE Continue(c, [op |-> "write erase", d |-> q.d, resolution |-> q.resolution,
                       items |-> checklist[q.d]])
  /\ UNCHANGED <<patchVars, erasureVars, active>>

\* Seeded fault: the hard erase forgets version + 1.
WriteErase_KeepsVersion(c) ==
  LET q == call[c] IN
  /\ Doing(c, "write erase")
  /\ status' = [status EXCEPT ![q.d] = "CLOSED"]
  /\ hardDeleted' = hardDeleted \cup {q.d}
  /\ evidence' = [evidence EXCEPT ![q.d] = q.items]
  /\ Reply(c)
  /\ UNCHANGED <<version, resolution, closings, closeEvents, softDeleted,
                 coolingOff, checklist, confirmed, active>>

\* ... and close the request by id, from whatever status it has by then.  The
\* resolution that was read wins over a later one; null becomes a default.
WriteErase(c) ==
  LET q == call[c] IN
  /\ Doing(c, "write erase")
  /\ version[q.d] < MaxVersion
  /\ Bump(q.d)
  /\ status' = [status EXCEPT ![q.d] = "CLOSED"]
  /\ resolution' = [resolution EXCEPT ![q.d] =
       IF q.resolution = "null" THEN "text" ELSE q.resolution]
  /\ closings' = [closings EXCEPT ![q.d] = @ + 1]
  /\ hardDeleted' = hardDeleted \cup {q.d}
  /\ evidence' = [evidence EXCEPT ![q.d] = q.items]
  /\ Reply(c)
  /\ UNCHANGED <<closeEvents, softDeleted, coolingOff, checklist, confirmed, active>>

---------------------------------------------------------------------------
CoolingOffElapses(d) ==
  /\ d \in coolingOff
  /\ coolingOff' = coolingOff \ {d}
  /\ UNCHANGED <<patchVars, softDeleted, hardDeleted, checklist, evidence, confirmed, active, call>>

\* A vendor is onboarded or offboarded (vendors module).
VendorChanges(v) ==
  /\ "vendors" \in Workflows
  /\ active' = IF v \in active THEN active \ {v} ELSE active \cup {v}
  /\ UNCHANGED <<patchVars, erasureVars, call>>

Next ==
  \/ \E c \in Clients :
       \/ SendUpdate(c) \/ CheckUpdate(c) \/ WriteUpdate(c)
       \/ BeginStart(c) \/ WriteStart(c)
       \/ BeginErase(c) \/ ReadItems(c) \/ WriteErase(c)
  \/ \E d \in Requests :
       \/ CoolingOffElapses(d)
       \/ \E s \in Systems, mark \in Marks : ConfirmChecklistItem(d, s, mark)
  \/ \E v \in Vendors : VendorChanges(v)

Spec == Init /\ [][Next]_vars

---------------------------------------------------------------------------
(* Properties *)

\* Until an erasure closes it: closed_at is written once, when the request
\* enters a terminal status; CLOSED is announced exactly once and always with
\* a resolution, whatever PATCH requests race.
ClosedOnceWithResolution ==
  \A d \in Requests \ hardDeleted :
    /\ closings[d] = IF status[d] \in Terminal THEN 1 ELSE 0
    /\ closeEvents[d] = IF status[d] = "CLOSED" THEN 1 ELSE 0
    /\ status[d] = "CLOSED" => resolution[d] = "text"

\* A request moves along the state machine or is closed by a hard erase: a
\* PATCH that was checked before an erasure never reopens what it closed.
LifecycleOrErase ==
  [][\A d \in Requests :
       \/ status'[d] = status[d]
       \/ <<status[d], status'[d]>> \in Edges
       \/ status'[d] = "CLOSED" /\ d \in hardDeleted' \ hardDeleted]_vars

\* An evidence pack never claims a system nobody confirmed, although the
\* checklist it is made from was read before the transaction that stores it
\* and the workflow may be restarted meanwhile.
EvidenceOnlyConfirmed ==
  \A d \in Requests, s \in Systems :
    evidence[d][s] # "absent" => s \in confirmed[d] /\ evidence[d][s] \in Marks

\* Restarting the workflow, also at the same time as confirmations, never
\* makes a confirmed system pending again.
ConfirmationsAreKept ==
  [][\A d \in Requests, s \in Systems :
       checklist[d][s] \in Marks => checklist'[d][s] \in Marks]_vars

\* "soft-delete with cooling-off, multi-system checklist, then hard-delete":
\* a request is hard-erased when no cooling-off period runs and no item of
\* its checklist is pending.
EraseWaitsForGate ==
  [][\A d \in hardDeleted' \ hardDeleted :
       d \notin coolingOff /\ \A s \in Systems : checklist[d][s] # "PENDING"]_vars
=============================================================================
