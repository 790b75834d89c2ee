------------------------------ MODULE MCRecords ------------------------------
(***************************************************************************)
(* Violation, Remediation and Rights for TLC, side by side: in a behaviour *)
(* one of them is at work and the others stay as they are, so that the     *)
(* state space is the sum of theirs and not the product.  The components   *)
(* share no state in the code either.                                      *)
(***************************************************************************)
EXTENDS Violation, TLC

CONSTANTS
  Tasks, Users, Null,          \* Remediation
  Requests, Internal, Vendors, \* Rights
  MaxTaskVersion, MaxPatchVersion, MaxEraseVersion

ASSUME RecordsAssumption ==
  /\ Null \notin Clients
  /\ MaxPatchVersion \in Nat /\ MaxEraseVersion \in Nat

VARIABLES
  component,  \* the component at work
  taskStatus, taskVersion, assignedTo, verifiedBy, taskClosedAt,
  announcedTo, completedEvents, taskRequest,
  dsrStatus, dsrVersion, resolution, closings, dsrCloseEvents,
  softDeleted, coolingOff, hardDeleted, checklist, evidence, confirmed,
  active, call

taskVars == <<taskStatus, taskVersion, assignedTo, verifiedBy, taskClosedAt,
              announcedTo, completedEvents, taskRequest>>
dsrVars  == <<dsrStatus, dsrVersion, resolution, closings, dsrCloseEvents,
              softDeleted, coolingOff, hardDeleted, checklist, evidence,
              confirmed, active, call>>

Task == INSTANCE Remediation WITH
  MaxVersion <- MaxTaskVersion, status <- taskStatus, version <- taskVersion,
  closedAt <- taskClosedAt, request <- taskRequest

\* Tasks move along their state machine as violations do.
TaskMachine == INSTANCE Lifecycle WITH
  Rows <- Tasks, InitialStatus <- "PENDING", Edges <- Task!Edges, status <- taskStatus

Patch == INSTANCE Rights WITH
  Workflows <- {"patch"}, MaxVersion <- MaxPatchVersion,
  status <- dsrStatus, version <- dsrVersion, closeEvents <- dsrCloseEvents

Erasure == INSTANCE Rights WITH
  Workflows <- {"erasure", "vendors"}, MaxVersion <- MaxEraseVersion,
  status <- dsrStatus, version <- dsrVersion, closeEvents <- dsrCloseEvents

Mixed == INSTANCE Rights WITH
  Workflows <- {"patch", "erasure"}, MaxVersion <- MaxEraseVersion,
  status <- dsrStatus, version <- dsrVersion, closeEvents <- dsrCloseEvents

RecordsInit ==
  /\ component \in {"violation", "task", "patch", "erasure", "mixed"}
  /\ Init /\ Task!Init /\ Patch!Init
  /\ component # "task" => \A t \in Tasks : assignedTo[t] = Null
  /\ component # "erasure" => active = {}

AtWork(c) == component = c /\ UNCHANGED component

ViolationStep == AtWork("violation") /\ Next /\ UNCHANGED <<taskVars, dsrVars>>
TaskStep      == AtWork("task") /\ Task!Next /\ UNCHANGED <<vars, dsrVars>>
PatchStep     == AtWork("patch") /\ Patch!Next /\ UNCHANGED <<vars, taskVars>>
ErasureStep   == AtWork("erasure") /\ Erasure!Next /\ UNCHANGED <<vars, taskVars>>
MixedStep     == AtWork("mixed") /\ Mixed!Next /\ UNCHANGED <<vars, taskVars>>

RecordsNext == ViolationStep \/ TaskStep \/ PatchStep \/ ErasureStep \/ MixedStep

RecordsSpec == RecordsInit /\ [][RecordsNext]_<<component, vars, taskVars, dsrVars>>

Symmetry == Permutations(Clients) \cup Permutations(Users)

---------------------------------------------------------------------------
(* The properties of the instances, under names a configuration can use    *)

\* The columns and the requests in flight of every component stay in their
\* types.
RecordsTypeOK == TypeOK /\ Task!TypeOK /\ Erasure!TypeOK

\* See Remediation.
AssigneeWasAnnounced == Task!AssigneeWasAnnounced

\* See Remediation: one verifier, one completion.
VerifiedAndCompletedOnce ==
  [][Task!CompletedOnce' /\ \A t \in Tasks : verifiedBy[t] # Null => verifiedBy'[t] = verifiedBy[t]]_taskVars

\* Concurrent requests move each violation and each task along its state machine
\* only (see Violation).
RecordsFollowLifecycles == FollowsLifecycle /\ TaskMachine!Spec

\* See Rights: a request is closed once, with its resolution, and an erasure's
\* evidence lists confirmed systems only.
RequestsAreAccountable == Mixed!ClosedOnceWithResolution /\ Erasure!EvidenceOnlyConfirmed

\* See Rights.
LifecycleOrErase == Mixed!LifecycleOrErase

\* See Rights.
ConfirmationsAreKept == Erasure!ConfirmationsAreKept
=============================================================================
