------------------------------ MODULE Evidence ------------------------------
(***************************************************************************)
(* One evidence file (EvidenceService).  A request reads the file, asks the *)
(* lifecycle whether the step is allowed, and then writes by id alone: the  *)
(* status it writes may belong to a file that others have moved on.         *)
(***************************************************************************)
EXTENDS Naturals

CONSTANTS
  Slots,      \* requests in flight
  MaxEvents,  \* bound: approvals
  None

Statuses == {"UPLOADED", "TAGGED", "MAPPED", "UNDER_REVIEW", "APPROVED", "LOCKED"}

VARIABLES
  file,      \* status, whether a control is mapped, approvedBy, lockedAt, hash
  approved,  \* EvidenceApproved events
  slot       \* requests in flight: the status to write, "confirm" or "idle"

vars == <<file, approved, slot>>

\* Seeded fault: a file under review can be locked at once.
ValidTransitions_Fault(from) ==
  CASE from = "UPLOADED" -> {"TAGGED", "MAPPED", "UNDER_REVIEW"}
    [] from = "TAGGED" -> {"MAPPED"}
    [] from = "MAPPED" -> {"UNDER_REVIEW"}
    [] from = "UNDER_REVIEW" -> {"APPROVED", "LOCKED"}
    [] from = "APPROVED" -> {"LOCKED"}
    [] from = "LOCKED" -> {}

ValidTransitions(from) ==
  CASE from = "UPLOADED" -> {"TAGGED", "MAPPED", "UNDER_REVIEW"}
    [] from = "TAGGED" -> {"MAPPED"}
    [] from = "MAPPED" -> {"UNDER_REVIEW"}
    [] from = "UNDER_REVIEW" -> {"APPROVED"}
    [] from = "APPROVED" -> {"LOCKED"}
    [] from = "LOCKED" -> {}

CanTransition(from, to) == from = to \/ to \in ValidTransitions(from)

Check(s, to) ==
  /\ slot[s] = "idle"
  /\ CanTransition(file.status, to)
  /\ slot' = [slot EXCEPT ![s] = to]
  /\ UNCHANGED <<file, approved>>

Done(s) == slot' = [slot EXCEPT ![s] = "idle"]

TagEvidence(s) ==
  /\ slot[s] = "TAGGED" /\ Done(s)
  /\ file' = [file EXCEPT !.status = "TAGGED"]
  /\ UNCHANGED approved

MapToControl(s) ==
  /\ slot[s] = "MAPPED" /\ Done(s)
  /\ file' = [file EXCEPT !.status = "MAPPED", !.mapped = TRUE]
  /\ UNCHANGED approved

SubmitForReview(s) ==
  /\ slot[s] = "UNDER_REVIEW" /\ Done(s)
  /\ file' = [file EXCEPT !.status = "UNDER_REVIEW"]
  /\ UNCHANGED approved

Approve(s) ==
  /\ slot[s] = "APPROVED" /\ Done(s)
  /\ approved < MaxEvents
  /\ file' = [file EXCEPT !.status = "APPROVED", !.approvedBy = TRUE]
  /\ approved' = approved + 1

LockFile(s) ==
  /\ slot[s] = "LOCKED" /\ Done(s)
  /\ file' = [file EXCEPT !.status = "LOCKED", !.lockedAt = TRUE]
  /\ UNCHANGED approved

\* confirmUpload asks for no status at all.
FindFile(s) ==
  /\ slot[s] = "idle"
  /\ slot' = [slot EXCEPT ![s] = "confirm"]
  /\ UNCHANGED <<file, approved>>

ConfirmUpload(s) ==
  /\ slot[s] = "confirm" /\ Done(s)
  /\ file' = [file EXCEPT !.hash = TRUE]
  /\ UNCHANGED approved

\* A new framework draft replaces the old one and its controls: the file's
\* control is set to null by the database.
ControlDeleted ==
  /\ file.mapped
  /\ file' = [file EXCEPT !.mapped = FALSE]
  /\ UNCHANGED <<approved, slot>>

\* After initiateUpload, with or without a control.
Init ==
  /\ file \in [status : {"UPLOADED"}, mapped : BOOLEAN, approvedBy : {FALSE}, lockedAt : {FALSE},
               hash : {FALSE}]
  /\ approved = 0
  /\ slot = [s \in Slots |-> "idle"]

Next ==
  \/ \E s \in Slots :
       \/ \E to \in Statuses \ {"UPLOADED"} : Check(s, to)
       \/ TagEvidence(s) \/ MapToControl(s) \/ SubmitForReview(s) \/ Approve(s) \/ LockFile(s)
       \/ FindFile(s) \/ ConfirmUpload(s)
  \/ ControlDeleted

Spec == Init /\ [][Next]_vars

---------------------------------------------------------------------------

\* The file and the requests stay in their types.
TypeOK ==
  /\ file.status \in Statuses
  /\ approved \in 0 .. MaxEvents
  /\ slot \in [Slots -> Statuses \cup {"idle", "confirm"}]

\* However stale the requests in flight are, a file that was ever locked was
\* approved and announced before, and so was one that counts as approved.
LockedWasApproved ==
  /\ file.lockedAt \/ file.status \in {"APPROVED", "LOCKED"} => file.approvedBy
  /\ file.approvedBy => approved > 0
=============================================================================
