----------------------------- MODULE Assessment -----------------------------
(***************************************************************************)
(* One gap assessment (AssessmentService): its versions, the inputs each    *)
(* version collects (documents, questionnaire answers, CLI findings), its   *)
(* evaluations, and the audit chain, in which every event carries the hash  *)
(* of the one before it.                                                    *)
(*                                                                          *)
(* A request reads the assessment and what it needs, then runs one          *)
(* READ COMMITTED transaction: most update the assessment's row before they  *)
(* read the head of the chain, and hold it until they commit; all but one   *)
(* append to the chain.  An event's hash is abstracted to its place.        *)
(***************************************************************************)
EXTENDS Naturals, Sequences

CONSTANTS
  Slots,        \* requests in flight
  Ops,          \* the requests this instance sends
  MaxVersions,  \* bound: versions
  MaxEvents,    \* bound: audit events
  None

\* The transactions that update the assessment's row before they read the head.
Locking == {"upload", "initiate", "answer", "submit", "evaluate", "version"}

AllOps == Locking \cup {"confirm", "token", "scan"}

VARIABLES
  current, status,  \* the assessment's row
  frozen,           \* assessment_versions: number, and the report it froze
  inputs,           \* by version: the kinds of input it has
  report,           \* by version: the inputs its report was computed from
  scans,            \* by version: the scan's status, and its AI classification
  chain,            \* audit events: the place of the predecessor, and whether
                    \* its transaction held the assessment's row
  slot              \* requests in flight

assessment == <<current, status, frozen, inputs, report, scans>>
vars == <<assessment, chain, slot>>

Versions == 1 .. MaxVersions
Inputs == {"pending", "doc", "answers", "finding"}

Idle == [op |-> "idle", step |-> "read", version |-> 1, read |-> None, head |-> 0]

---------------------------------------------------------------------------
(* What a request reads before its transaction                             *)

\* Evaluate needs a READY document and the required answers; a batch needs a
\* scan of the version that is current; createVersion reads the report.  A
\* document is confirmed in the version it was announced in.
Accepts(op) ==
  CASE op = "evaluate" -> {"doc", "answers"} \subseteq inputs[current]
    [] op = "submit" -> scans[current].status # None
    [] OTHER -> TRUE

VersionFor(op) ==
  IF op = "confirm" THEN {v \in Versions : "pending" \in inputs[v]} ELSE {current}

Reads(op) ==
  CASE op = "evaluate" -> inputs[current]
    [] op = "version" -> report[current]
    [] OTHER -> None

Receive(s, op) ==
  /\ slot[s] = Idle
  /\ Len(chain) < MaxEvents /\ current < MaxVersions + (IF op = "version" THEN 0 ELSE 1)
  /\ Accepts(op)
  /\ \E v \in VersionFor(op) :
       slot' = [slot EXCEPT ![s] = [Idle EXCEPT !.op = op, !.version = v, !.read = Reads(op)]]
  /\ UNCHANGED <<assessment, chain>>

---------------------------------------------------------------------------
(* The transaction                                                         *)

InTransaction(s) == slot[s].step \in {"locked", "head"}

\* Seeded fault: the assessment's row is not updated first any more.
Holds_Fault(s) == FALSE

Holds(s) == InTransaction(s) /\ slot[s].op \in Locking

\* Seeded fault: the version's row is not unique by its number.
VersionExists_Fault(v) == FALSE

VersionExists(v) == \E i \in 1 .. Len(frozen) : frozen[i].number = v

\* The UPDATE of the assessment waits for the transaction that holds the row;
\* createVersion inserts its version first and breaks on the unique number.
Open(s) ==
  /\ slot[s].op # "idle" /\ slot[s].step = "read"
  /\ slot[s].op \in Locking => \A t \in Slots : ~Holds(t)
  /\ IF slot[s].op = "version" /\ VersionExists(slot[s].version + 1)
     THEN slot' = [slot EXCEPT ![s] = Idle]
     ELSE slot' = [slot EXCEPT ![s].step = "locked"]
  /\ UNCHANGED <<assessment, chain>>

\* appendAssessmentAudit finds the committed event with the latest createdAt.
\* An event created while the row was not held may be committed after one that
\* was created later, so it need not be found.
Latest == {i \in 1 .. Len(chain) : \A j \in i + 1 .. Len(chain) : ~chain[j].held}

ReadHead(s) ==
  /\ slot[s].step = "locked"
  /\ \E i \in Latest : slot' = [slot EXCEPT ![s].step = "head", ![s].head = i]
  /\ UNCHANGED <<assessment, chain>>

AppendAudit(s) ==
  chain' = Append(chain, [prev |-> slot[s].head, held |-> slot[s].op \in Locking])

Adds(s, kind) == inputs' = [inputs EXCEPT ![slot[s].version] = @ \cup {kind}]

Reopens == status' = "IN_PROGRESS"

Ready(s, op) == slot[s].step = "head" /\ slot[s].op = op

Done(s) == slot' = [slot EXCEPT ![s] = Idle]

UploadDocument(s) ==
  /\ Ready(s, "upload")
  /\ Adds(s, "doc") /\ Reopens /\ AppendAudit(s) /\ Done(s)
  /\ UNCHANGED <<current, frozen, report, scans>>

\* The only one that appends nothing.
InitiateDocumentUpload(s) ==
  /\ Ready(s, "initiate")
  /\ Adds(s, "pending") /\ Reopens /\ Done(s)
  /\ UNCHANGED <<current, frozen, report, scans, chain>>

ConfirmDocumentUpload(s) ==
  /\ Ready(s, "confirm")
  /\ Adds(s, "doc") /\ AppendAudit(s) /\ Done(s)
  /\ UNCHANGED <<current, status, frozen, report, scans>>

SaveQuestionnaire(s) ==
  /\ Ready(s, "answer")
  /\ Adds(s, "answers") /\ Reopens /\ AppendAudit(s) /\ Done(s)
  /\ UNCHANGED <<current, frozen, report, scans>>

CreateCliToken(s) ==
  /\ Ready(s, "token")
  /\ AppendAudit(s) /\ Done(s)
  /\ UNCHANGED assessment

CreateScan(s) ==
  /\ Ready(s, "scan")
  /\ scans' = [scans EXCEPT ![slot[s].version] = [status |-> "RUNNING", ai |-> None]]
  /\ AppendAudit(s) /\ Done(s)
  /\ UNCHANGED <<current, status, frozen, inputs, report>>

\* Nothing asks whether the scan is completed: a batch may be sent again.
SubmitEvidenceBatch(s) ==
  /\ Ready(s, "submit")
  /\ Adds(s, "finding")
  /\ status' = "READY_FOR_EVALUATION"
  /\ scans' = [scans EXCEPT ![slot[s].version].status = "COMPLETED"]
  /\ AppendAudit(s)
  /\ \E next \in {Idle, [slot[s] EXCEPT !.step = "classify"]} : slot' = [slot EXCEPT ![s] = next]
  /\ UNCHANGED <<current, frozen, report>>

\* After the commit, when the CLI asked for it; storing the marker may fail too.
ClassifyFindings(s) ==
  /\ slot[s].step = "classify"
  /\ \E ai \in {"COMPLETED", "FAILED", scans[slot[s].version].ai} :
       scans' = [scans EXCEPT ![slot[s].version].ai = ai]
  /\ Done(s)
  /\ UNCHANGED <<current, status, frozen, inputs, report, chain>>

\* The FAIL controls open their violations afterwards (IncidentPipeline).
Evaluate(s) ==
  /\ Ready(s, "evaluate")
  /\ report' = [report EXCEPT ![slot[s].version] = slot[s].read]
  /\ status' = "EVALUATED"
  /\ AppendAudit(s) /\ Done(s)
  /\ UNCHANGED <<current, frozen, inputs, scans>>

CreateVersion(s) ==
  /\ Ready(s, "version")
  /\ frozen' = Append(frozen, [number |-> slot[s].version + 1, pack |-> slot[s].read])
  /\ current' = slot[s].version + 1
  /\ Reopens /\ AppendAudit(s) /\ Done(s)
  /\ UNCHANGED <<inputs, report, scans>>

---------------------------------------------------------------------------

\* Just created: version 1, and the event of its creation.
Init ==
  /\ current = 1 /\ status = "IN_PROGRESS"
  /\ frozen = <<[number |-> 1, pack |-> None]>>
  /\ inputs = [v \in Versions |-> {}]
  /\ report = [v \in Versions |-> None]
  /\ scans = [v \in Versions |-> [status |-> None, ai |-> None]]
  /\ chain = <<[prev |-> 0, held |-> FALSE]>>
  /\ slot = [s \in Slots |-> Idle]

Commit(s) ==
  \/ UploadDocument(s) \/ InitiateDocumentUpload(s) \/ ConfirmDocumentUpload(s)
  \/ SaveQuestionnaire(s) \/ CreateCliToken(s) \/ CreateScan(s)
  \/ SubmitEvidenceBatch(s) \/ Evaluate(s) \/ CreateVersion(s)

Next ==
  \E s \in Slots :
    \/ \E op \in Ops : Receive(s, op)
    \/ Open(s) \/ ReadHead(s) \/ Commit(s) \/ ClassifyFindings(s)

Spec == Init /\ [][Next]_vars

---------------------------------------------------------------------------

\* The rows, the chain and the requests stay in their types.
TypeOK ==
  /\ current \in Versions
  /\ status \in {"IN_PROGRESS", "READY_FOR_EVALUATION", "EVALUATED"}
  /\ inputs \in [Versions -> SUBSET Inputs]
  /\ report \in [Versions -> (SUBSET Inputs) \cup {None}]
  /\ \A i \in 1 .. Len(frozen) :
       frozen[i].number \in Versions /\ frozen[i].pack \in (SUBSET Inputs) \cup {None}
  /\ \A v \in Versions :
       /\ scans[v].status \in {None, "RUNNING", "COMPLETED"}
       /\ scans[v].ai \in {None, "COMPLETED", "FAILED"}
  /\ \A i \in 1 .. Len(chain) : chain[i].prev < i /\ chain[i].held \in BOOLEAN
  /\ \A s \in Slots :
       /\ slot[s].op \in Ops \cup {"idle"}
       /\ slot[s].step \in {"read", "locked", "head", "classify"}
       /\ slot[s].version \in Versions
       /\ slot[s].read \in (SUBSET Inputs) \cup {None}

\* The history of versions has neither gaps nor duplicates, and the assessment
\* is at its end, however many requests create the next version at once.
VersionsNumbered ==
  /\ \A i \in 1 .. Len(frozen) : frozen[i].number = i
  /\ current = Len(frozen)

\* "Audit events remain hash-chained": two events share a predecessor only when
\* one of them was appended without holding the assessment's row.
HeldEventsAreChained ==
  \A i, j \in 1 .. Len(chain) :
    i # j /\ chain[i].held /\ chain[j].held => chain[i].prev # chain[j].prev
=============================================================================
