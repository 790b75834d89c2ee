-------------------------- MODULE Compliance_proofs --------------------------
(***************************************************************************)
(* Theorems about MCCompliance, for every value of the constants.  One      *)
(* component is at work in a behaviour, so each property rests on the       *)
(* invariant of its component, which the steps of the others leave alone    *)
(* (OneMoves).  The invariant of the vendors is that of Vendors_proofs.     *)
(***************************************************************************)
EXTENDS Vendors_proofs, Sequences

\* The least-number principle, for sets.
LEMMA LeastElement ==
  ASSUME NEW T \in SUBSET Nat, T # {}
  PROVE  \E m \in T : \A k \in T : m <= k
<1> DEFINE R == {p \in Nat \X Nat : p[1] < p[2]}
<1>1. IsWellFoundedOn(R, Nat)
  BY NatLessThanWellFounded DEF OpToRel
<1>2. PICK m \in T : \A k \in T : ~(<<k, m>> \in R)
  <2> HIDE DEF R
  <2> QED BY <1>1, WFMin
<1>3. ASSUME NEW k \in T PROVE m <= k
  <2>1. ~(k < m)
    BY <1>2
  <2> QED
    BY <2>1
<1> QED
  BY <1>3

LEMMA GreatestElement ==
  ASSUME NEW n \in Nat, NEW T \in SUBSET (0 .. n), T # {}
  PROVE  \E m \in T : \A k \in T : k <= m
<1> DEFINE U == {n - k : k \in T}
<1>1. PICK k \in T : TRUE
  OBVIOUS
<1>2. U \subseteq Nat /\ n - k \in U
  OBVIOUS
<1>3. PICK u \in U : \A w \in U : u <= w
  BY <1>2, LeastElement
<1>4. PICK m \in T : u = n - m
  OBVIOUS
<1>5. ASSUME NEW l \in T PROVE l <= m
  <2>1. n - l \in U
    OBVIOUS
  <2>2. n - m <= n - l
    BY <2>1, <1>3, <1>4
  <2>3. l \in Nat /\ m \in Nat
    OBVIOUS
  <2> QED
    BY <2>2, <2>3
<1> QED
  BY <1>5

---------------------------------------------------------------------------
(* Evidence: what a request found in the file's status when it asked the    *)
(* lifecycle still holds of approvedBy when it writes: approvedBy is never   *)
(* reset, so a request on its way to LOCKED has read an approved file.       *)

FileType == [status : Files!Statuses, mapped : BOOLEAN, approvedBy : BOOLEAN, lockedAt : BOOLEAN,
            hash : BOOLEAN]

FilesType ==
  /\ file \in FileType
  /\ approved \in 0 .. Approvals
  /\ collecting \in [Slots -> Files!Statuses \cup {"idle", "confirm"}]

LocksReadApproved == \A s \in Slots : collecting[s] = "LOCKED" => file.approvedBy

FilesInv == FilesType /\ Files!LockedWasApproved /\ LocksReadApproved

LEMMA FilesInit == Files!Init => FilesInv
<1> SUFFICES ASSUME Files!Init PROVE FilesInv
  OBVIOUS
<1>1. file \in FileType /\ file.status = "UPLOADED" /\ ~file.approvedBy /\ ~file.lockedAt
  BY DEF Files!Init, FileType, Files!Statuses
<1>2. FilesType
  BY <1>1, MCComplianceAssumption DEF Files!Init, FilesType
<1>3. Files!LockedWasApproved
  BY <1>1 DEF Files!LockedWasApproved
<1>4. LocksReadApproved
  BY DEF Files!Init, LocksReadApproved
<1> QED
  BY <1>2, <1>3, <1>4 DEF FilesInv

\* The lifecycle lets a request write LOCKED only over APPROVED or LOCKED.
LEMMA LockNeedsApproval ==
  ASSUME NEW from \in Files!Statuses, Files!CanTransition(from, "LOCKED")
  PROVE  from \in {"APPROVED", "LOCKED"}
BY DEF Files!CanTransition, Files!ValidTransitions, Files!Statuses

\* What a request writes when it is done.
LEMMA FilesWrite ==
  ASSUME FilesInv, NEW s \in Slots, Files!Done(s), NEW written \in FileType, file' = written,
         file.approvedBy => written.approvedBy,
         written.lockedAt \/ written.status \in {"APPROVED", "LOCKED"} => written.approvedBy,
         approved' \in 0 .. Approvals, approved' >= approved, written.approvedBy => approved' > 0
  PROVE  FilesInv'
<1>1. collecting' \in [Slots -> Files!Statuses \cup {"idle", "confirm"}]
  BY DEF Files!Done, FilesInv, FilesType
<1>2. LocksReadApproved'
  BY DEF Files!Done, FilesInv, FilesType, LocksReadApproved
<1> QED
  BY <1>1, <1>2 DEF FilesInv, FilesType, Files!LockedWasApproved

LEMMA FilesNext == FilesInv /\ (Files!Next \/ UNCHANGED evidenceVars) => FilesInv'
<1> SUFFICES ASSUME FilesInv, (Files!Next \/ UNCHANGED evidenceVars) PROVE FilesInv'
  OBVIOUS
<1>a. file \in FileType /\ approved \in 0 .. Approvals /\ Files!LockedWasApproved
  BY DEF FilesInv, FilesType
<1>1. ASSUME NEW s \in Slots, NEW to \in Files!Statuses \ {"UPLOADED"}, Files!Check(s, to) PROVE FilesInv'
  <2>1. collecting' \in [Slots -> Files!Statuses \cup {"idle", "confirm"}] /\ UNCHANGED <<file, approved>>
    BY <1>1 DEF Files!Check, FilesInv, FilesType
  <2>2. to = "LOCKED" => file.approvedBy
    BY <1>1, <1>a, LockNeedsApproval DEF Files!Check, FileType, Files!LockedWasApproved
  <2>3. LocksReadApproved'
    BY <1>1, <2>2 DEF Files!Check, FilesInv, FilesType, LocksReadApproved
  <2> QED
    BY <2>1, <2>3 DEF FilesInv, FilesType, Files!LockedWasApproved
<1>2. ASSUME NEW s \in Slots, Files!TagEvidence(s) \/ Files!MapToControl(s) \/ Files!SubmitForReview(s) \/ Files!ConfirmUpload(s)
      PROVE  FilesInv'
  <2>1. file' \in FileType /\ file'.approvedBy = file.approvedBy /\ file'.lockedAt = file.lockedAt
    BY <1>2, <1>a DEF Files!TagEvidence, Files!MapToControl, Files!SubmitForReview, Files!ConfirmUpload, FileType, Files!Statuses
  <2>2. file'.status \in {"APPROVED", "LOCKED"} => file.status \in {"APPROVED", "LOCKED"}
    BY <1>2, <1>a DEF Files!TagEvidence, Files!MapToControl, Files!SubmitForReview, Files!ConfirmUpload, FileType, Files!Statuses
  <2>3. Files!Done(s) /\ approved' = approved
    BY <1>2 DEF Files!TagEvidence, Files!MapToControl, Files!SubmitForReview, Files!ConfirmUpload
  <2> QED
    BY <1>a, <2>1, <2>2, <2>3, FilesWrite DEF Files!LockedWasApproved
<1>3. ASSUME NEW s \in Slots, Files!Approve(s) PROVE FilesInv'
  <2>1. file' \in FileType /\ file'.approvedBy
    BY <1>3, <1>a DEF Files!Approve, FileType, Files!Statuses
  <2>2. approved < Approvals /\ approved' = approved + 1 /\ Files!Done(s)
    BY <1>3 DEF Files!Approve
  <2>3. approved' \in 0 .. Approvals /\ approved' >= approved /\ approved' > 0
    BY <1>a, <2>2, MCComplianceAssumption
  <2> QED
    BY <2>1, <2>2, <2>3, FilesWrite
<1>4. ASSUME NEW s \in Slots, Files!LockFile(s) PROVE FilesInv'
  <2>1. file.approvedBy
    BY <1>4 DEF Files!LockFile, FilesInv, LocksReadApproved
  <2>2. file' \in FileType /\ file'.approvedBy
    BY <1>4, <1>a, <2>1 DEF Files!LockFile, FileType, Files!Statuses
  <2>3. Files!Done(s) /\ approved' = approved
    BY <1>4 DEF Files!LockFile
  <2>4. approved' \in 0 .. Approvals /\ approved' >= approved /\ approved' > 0
    BY <1>a, <2>1, <2>3 DEF Files!LockedWasApproved
  <2> QED
    BY <2>2, <2>3, <2>4, FilesWrite
<1>5. ASSUME NEW s \in Slots, Files!FindFile(s) PROVE FilesInv'
  BY <1>5 DEF Files!FindFile, FilesInv, FilesType, Files!LockedWasApproved, LocksReadApproved
<1>6. CASE Files!ControlDeleted
  <2>1. file' \in FileType /\ file'.approvedBy = file.approvedBy
        /\ file'.lockedAt = file.lockedAt /\ file'.status = file.status
    BY <1>6, <1>a DEF Files!ControlDeleted, FileType
  <2>2. UNCHANGED <<approved, collecting>>
    BY <1>6 DEF Files!ControlDeleted
  <2>3. FilesType'
    BY <2>1, <2>2 DEF FilesInv, FilesType
  <2>4. Files!LockedWasApproved'
    BY <1>a, <2>1, <2>2 DEF Files!LockedWasApproved
  <2>5. LocksReadApproved'
    BY <2>1, <2>2 DEF FilesInv, LocksReadApproved
  <2> QED
    BY <2>3, <2>4, <2>5 DEF FilesInv
<1>7. CASE UNCHANGED evidenceVars
  BY <1>7 DEF evidenceVars, FilesInv, FilesType, Files!LockedWasApproved, LocksReadApproved
<1> QED
  BY <1>1, <1>2, <1>3, <1>4, <1>5, <1>6, <1>7 DEF Files!Next

---------------------------------------------------------------------------
(* Consent: a notice that does not break the unique index is the next one,  *)
(* since the version a request has read is one there was; and a withdrawal   *)
(* on its way, unless two have met on its record, is the only one and still  *)
(* finds the record granted.                                                 *)

NoticeType == [version : Nat, deleted : BOOLEAN]
ConsentType == [notice : Nat, state : {"GRANTED", "WITHDRAWN"}]
ConsentEvent == [type : {"ConsentRecorded", "ConsentWithdrawn"}, row : Nat]
ConsentRequest == [op : {"idle", "publish", "record", "withdraw"}, row : Nat, read : Nat]

TrailType ==
  /\ notices \in Seq(NoticeType)
  /\ consents \in Seq(ConsentType)
  /\ events \in Seq(ConsentEvent)
  /\ consenting \in [Slots -> ConsentRequest]
  /\ withdrawnTwice \subseteq Nat

\* What a request has read of the notices was there.
NoticesRead ==
  /\ Len(notices) <= NoticeVersions
  /\ \A s \in Slots :
       /\ consenting[s].op = "publish" =>
            consenting[s].read <= Len(notices) /\ consenting[s].read < NoticeVersions
       /\ consenting[s].op = "record" => consenting[s].row \in Trail!Rows(notices)
  /\ \A i \in Trail!Rows(consents) : consents[i].notice \in Trail!Rows(notices)

Withdraws(s, i) == consenting[s].op = "withdraw" /\ consenting[s].row = i

\* What a request has read of a consent is there, and still holds unless two met.
WithdrawalsRead ==
  \A s \in Slots : consenting[s].op = "withdraw" =>
    /\ consenting[s].row \in Trail!Rows(consents)
    /\ consenting[s].row \notin withdrawnTwice =>
         /\ consents[consenting[s].row].state = "GRANTED"
         /\ \A t \in Slots : Withdraws(t, consenting[s].row) => t = s

EventsHaveRows == \A e \in Trail!Rows(events) : events[e].row \in Trail!Rows(consents)

TrailInv ==
  /\ TrailType /\ NoticesRead /\ WithdrawalsRead /\ EventsHaveRows
  /\ Trail!NoticeHistory /\ Trail!WithdrawalsAreAnnounced

LEMMA TrailInit == Trail!Init => TrailInv
BY MCComplianceAssumption
DEF Trail!Init, TrailInv, TrailType, NoticesRead, WithdrawalsRead, EventsHaveRows,
    Trail!NoticeHistory, Trail!WithdrawalsAreAnnounced, Trail!Rows, Trail!Idle, ConsentRequest

LEMMA LatestVersionWasThere ==
  ASSUME TrailInv
  PROVE  Trail!LatestVersion \in 0 .. Len(notices)
<1> DEFINE kept == {notices[i].version : i \in {j \in Trail!Rows(notices) : ~notices[j].deleted}}
<1>1. kept \subseteq 0 .. Len(notices)
  BY DEF TrailInv, Trail!NoticeHistory, Trail!Rows, TrailType
<1>2. CASE kept = {}
  BY <1>2 DEF Trail!LatestVersion, TrailInv, TrailType
<1>3. CASE kept # {}
  <2>1. Len(notices) \in Nat
    BY DEF TrailInv, TrailType
  <2>2. \E v \in kept : \A w \in kept : w <= v
    <3> HIDE DEF kept
    <3> QED BY <1>1, <1>3, <2>1, GreatestElement
  <2>3. (CHOOSE v \in kept : \A w \in kept : w <= v) \in kept
    BY <2>2
  <2>4. Trail!LatestVersion = CHOOSE v \in kept : \A w \in kept : w <= v
    BY <1>3 DEF Trail!LatestVersion
  <2> QED
    BY <1>1, <2>3, <2>4
<1> QED
  BY <1>2, <1>3


LEMMA TrailDelete ==
  ASSUME TrailInv, NEW i \in Trail!Rows(notices), Trail!DeleteNotice(i)
  PROVE  TrailInv'
<1>1. /\ notices' \in Seq(NoticeType) /\ Len(notices') = Len(notices)
      /\ \A j \in 1 .. Len(notices) : notices'[j].version = notices[j].version
  <2>1. notices \in Seq(NoticeType) /\ i \in 1 .. Len(notices)
    BY DEF TrailInv, TrailType, Trail!Rows
  <2>2. notices[i] \in NoticeType
    BY <2>1
  <2> DEFINE written == [notices[i] EXCEPT !.deleted = TRUE]
  <2>3. written \in NoticeType /\ written.version = notices[i].version
    BY <2>2 DEF NoticeType
  <2>4. notices' = [notices EXCEPT ![i] = written]
    BY DEF Trail!DeleteNotice
  <2> HIDE DEF written
  <2> QED
    BY <2>1, <2>3, <2>4
<1>2. UNCHANGED <<consents, events, consenting, withdrawnTwice>>
  BY DEF Trail!DeleteNotice
<1>3. TrailType'
  BY <1>1, <1>2 DEF TrailInv, TrailType
<1>4. NoticesRead' /\ Trail!NoticeHistory'
  BY <1>1, <1>2 DEF TrailInv, NoticesRead, Trail!NoticeHistory, Trail!Rows
<1>5. WithdrawalsRead' /\ EventsHaveRows' /\ Trail!WithdrawalsAreAnnounced'
  BY <1>2 DEF TrailInv, WithdrawalsRead, Withdraws, EventsHaveRows, Trail!WithdrawalsAreAnnounced, Trail!Rows
<1> QED
  BY <1>3, <1>4, <1>5 DEF TrailInv

\* A request that starts, other than a withdrawal, has read what it says.
LEMMA TrailStart ==
  ASSUME TrailInv, NEW s \in Slots, NEW request \in ConsentRequest,
         UNCHANGED <<notices, consents, events, withdrawnTwice>>,
         consenting' = [consenting EXCEPT ![s] = request],
         request.op = "publish" => request.read <= Len(notices) /\ request.read < NoticeVersions,
         request.op = "record" => request.row \in Trail!Rows(notices),
         request.op # "withdraw"
  PROVE  TrailInv'
<1>1. TrailType'
  BY DEF TrailInv, TrailType
<1>2. NoticesRead'
  BY DEF TrailInv, TrailType, NoticesRead, Trail!Rows
<1>3. \A t \in Slots : consenting'[t].op = "withdraw" => consenting'[t] = consenting[t]
  BY DEF TrailInv, TrailType
<1>4. WithdrawalsRead'
  BY <1>3 DEF TrailInv, WithdrawalsRead, Withdraws, Trail!Rows
<1>5. EventsHaveRows' /\ Trail!NoticeHistory' /\ Trail!WithdrawalsAreAnnounced'
  BY DEF TrailInv, EventsHaveRows, Trail!NoticeHistory, Trail!WithdrawalsAreAnnounced, Trail!Rows
<1> QED
  BY <1>1, <1>2, <1>4, <1>5 DEF TrailInv

LEMMA TrailPublish ==
  ASSUME TrailInv, NEW s \in Slots, Trail!PublishNotice(s)
  PROVE  TrailInv'
<1> DEFINE version == consenting[s].read + 1
<1>1. consenting[s].op = "publish" /\ consenting' = [consenting EXCEPT ![s] = Trail!Idle]
      /\ UNCHANGED <<consents, events, withdrawnTwice>>
  BY DEF Trail!PublishNotice
<1>2. consenting[s].read \in Nat /\ consenting[s].read <= Len(notices) /\ version <= NoticeVersions
  BY <1>1, MCComplianceAssumption DEF TrailInv, TrailType, ConsentRequest, NoticesRead
<1>3. consenting' \in [Slots -> ConsentRequest]
      /\ \A t \in Slots : consenting'[t] = IF t = s THEN Trail!Idle ELSE consenting[t]
  BY <1>1 DEF TrailInv, TrailType, ConsentRequest, Trail!Idle
<1>4. CASE notices' = notices
  <2>1. Trail!Idle \in ConsentRequest /\ Trail!Idle.op = "idle"
    BY DEF Trail!Idle, ConsentRequest
  <2> QED
    BY <1>1, <1>4, <2>1, TrailStart
<1>5. CASE notices' # notices
  <2>1. ~Trail!Conflicts(version) /\ notices' = Append(notices, [version |-> version, deleted |-> FALSE])
    BY <1>5 DEF Trail!PublishNotice
  <2>2. version = Len(notices) + 1
    <3>1. version \in 1 .. Len(notices) => notices[version].version = version
      BY DEF Trail!Rows, TrailInv, Trail!NoticeHistory
    <3>2. version \notin 1 .. Len(notices)
      BY <2>1, <3>1 DEF Trail!Conflicts, Trail!Rows
    <3>3. Len(notices) \in Nat
      BY DEF TrailInv, TrailType
    <3> HIDE DEF version
    <3>4. version \in 1 .. Len(notices) + 1
      BY <1>2, <3>3 DEF version
    <3> QED
      BY <3>2, <3>3, <3>4
  <2>3. /\ notices' \in Seq(NoticeType) /\ Len(notices') = Len(notices) + 1
        /\ \A j \in 1 .. Len(notices) : notices'[j] = notices[j]
        /\ notices'[Len(notices) + 1].version = version
    BY <2>1, <1>2 DEF TrailInv, TrailType, NoticeType
  <2>4. TrailType'
    BY <1>1, <1>3, <2>3 DEF TrailInv, TrailType
  <2>5. NoticesRead'
    <3>1. Len(notices') <= NoticeVersions /\ Len(notices) \in Nat
      BY <1>2, <2>2, <2>3 DEF TrailInv, TrailType
    <3>2. \A t \in Slots : consenting'[t].op # "idle" => t # s /\ consenting'[t] = consenting[t]
      BY <1>3 DEF Trail!Idle
    <3>3. \A t \in Slots : consenting[t].read \in Nat
      BY DEF TrailInv, TrailType, ConsentRequest
    <3>4. \A t \in Slots : consenting'[t].op = "publish" =>
            consenting'[t].read <= Len(notices') /\ consenting'[t].read < NoticeVersions
      BY <2>3, <3>1, <3>2, <3>3 DEF TrailInv, NoticesRead
    <3>5. Trail!Rows(notices) \subseteq Trail!Rows(notices')
      BY <2>3, <3>1 DEF Trail!Rows
    <3>6. \A t \in Slots : consenting'[t].op = "record" => consenting'[t].row \in Trail!Rows(notices')
      BY <3>2, <3>5 DEF TrailInv, NoticesRead
    <3>7. \A i \in Trail!Rows(consents) : consents[i].notice \in Trail!Rows(notices')
      BY <3>5 DEF TrailInv, NoticesRead
    <3> QED
      BY <1>1, <3>1, <3>4, <3>6, <3>7 DEF NoticesRead
  <2>6. Trail!NoticeHistory'
    BY <2>2, <2>3 DEF TrailInv, TrailType, Trail!NoticeHistory, Trail!Rows
  <2>7. \A t \in Slots : consenting'[t].op = "withdraw" => consenting'[t] = consenting[t]
    BY <1>3 DEF Trail!Idle
  <2>8. WithdrawalsRead' /\ EventsHaveRows' /\ Trail!WithdrawalsAreAnnounced'
    BY <1>1, <2>7 DEF TrailInv, WithdrawalsRead, Withdraws, EventsHaveRows, Trail!WithdrawalsAreAnnounced, Trail!Rows
  <2> QED
    BY <2>4, <2>5, <2>6, <2>8 DEF TrailInv
<1> QED
  BY <1>4, <1>5

LEMMA TrailRecord ==
  ASSUME TrailInv, NEW s \in Slots, Trail!RecordConsent(s)
  PROVE  TrailInv'
<1> DEFINE n == Len(consents) + 1
           event == [type |-> "ConsentRecorded", row |-> n]
<1>1. /\ consenting[s].op = "record" /\ consenting' = [consenting EXCEPT ![s] = Trail!Idle]
      /\ consents' = Append(consents, [notice |-> consenting[s].row, state |-> "GRANTED"])
      /\ events' = Append(events, event)
      /\ UNCHANGED <<notices, withdrawnTwice>>
  BY DEF Trail!RecordConsent
<1>2. consenting' \in [Slots -> ConsentRequest]
      /\ \A t \in Slots : consenting'[t] = IF t = s THEN Trail!Idle ELSE consenting[t]
  BY <1>1 DEF TrailInv, TrailType, ConsentRequest, Trail!Idle
<1>3. consenting[s].row \in Nat /\ consenting[s].row \in Trail!Rows(notices)
  BY <1>1 DEF TrailInv, TrailType, ConsentRequest, NoticesRead
<1>4. /\ consents' \in Seq(ConsentType) /\ Len(consents') = n /\ n \in Nat
      /\ \A j \in 1 .. Len(consents) : consents'[j] = consents[j]
      /\ consents'[n].state = "GRANTED" /\ consents'[n].notice = consenting[s].row
  BY <1>1, <1>3 DEF TrailInv, TrailType, ConsentType
<1>5. /\ events' \in Seq(ConsentEvent) /\ Len(events') = Len(events) + 1 /\ Len(events) \in Nat
      /\ \A e \in 1 .. Len(events) : events'[e] = events[e]
      /\ events'[Len(events) + 1] = event
  BY <1>1, <1>4 DEF TrailInv, TrailType, ConsentEvent
<1>6. TrailType'
  BY <1>1, <1>2, <1>4, <1>5 DEF TrailInv, TrailType
<1>7. NoticesRead'
  BY <1>1, <1>2, <1>3, <1>4 DEF TrailInv, NoticesRead, Trail!Rows, Trail!Idle
<1>8. WithdrawalsRead'
  BY <1>1, <1>2, <1>4 DEF TrailInv, WithdrawalsRead, Withdraws, Trail!Rows, Trail!Idle
<1>9. EventsHaveRows'
  BY <1>4, <1>5 DEF TrailInv, EventsHaveRows, Trail!Rows
<1>10. \A i \in 1 .. n : \A e \in 1 .. Len(events) + 1 :
         events'[e] = [type |-> "ConsentWithdrawn", row |-> i]
           <=> i < n /\ e <= Len(events) /\ events[e] = [type |-> "ConsentWithdrawn", row |-> i]
  BY <1>4, <1>5 DEF TrailInv, EventsHaveRows, Trail!Rows
<1>11. Trail!WithdrawalsAreAnnounced'
  <2> DEFINE of(i) == [type |-> "ConsentWithdrawn", row |-> i]
  <2>1. ASSUME NEW i \in Trail!Rows(consents')
        PROVE  LET announced == {e \in Trail!Rows(events') : events'[e] = of(i)}
               IN  /\ announced = {} <=> consents'[i].state = "GRANTED"
                   /\ i \notin withdrawnTwice => \A e, f \in announced : e = f
    <3> DEFINE before == {e \in Trail!Rows(events) : events[e] = of(i)}
               after == {e \in Trail!Rows(events') : events'[e] = of(i)}
    <3>1. CASE i = n
      <4>1. after = {}
        BY <1>4, <1>5, <1>10, <3>1 DEF Trail!Rows
      <4> QED
        BY <1>4, <3>1, <4>1
    <3>2. CASE i \in Trail!Rows(consents)
      <4>1. after = before
        BY <1>4, <1>5, <1>10, <3>2 DEF Trail!Rows
      <4>2. /\ before = {} <=> consents[i].state = "GRANTED"
            /\ i \notin withdrawnTwice => \A e, f \in before : e = f
        BY <3>2 DEF TrailInv, Trail!WithdrawalsAreAnnounced
      <4>3. consents'[i] = consents[i]
        BY <1>4, <3>2 DEF Trail!Rows
      <4> QED
        BY <4>1, <4>2, <4>3
    <3>3. i = n \/ i \in Trail!Rows(consents)
      BY <1>4 DEF Trail!Rows
    <3> QED
      BY <3>1, <3>2, <3>3
  <2>2. withdrawnTwice' = withdrawnTwice
    BY <1>1
  <2> QED
    BY <2>1, <2>2 DEF Trail!WithdrawalsAreAnnounced
<1>12. Trail!NoticeHistory'
  BY <1>1 DEF TrailInv, Trail!NoticeHistory, Trail!Rows
<1> QED
  BY <1>6, <1>7, <1>8, <1>9, <1>11, <1>12 DEF TrailInv

LEMMA TrailFindGranted ==
  ASSUME TrailInv, NEW s \in Slots, NEW i \in Trail!Rows(consents), Trail!FindGranted(s, i)
  PROVE  TrailInv'
<1>1. /\ consenting[s] = Trail!Idle /\ consents[i].state = "GRANTED"
      /\ consenting' = [consenting EXCEPT ![s] = [op |-> "withdraw", row |-> i, read |-> 0]]
      /\ withdrawnTwice' = withdrawnTwice \cup {j \in {i} : \E t \in Slots : Withdraws(t, i)}
      /\ UNCHANGED <<notices, consents, events>>
  BY DEF Trail!FindGranted, Withdraws
<1>2. i \in Nat
  BY DEF Trail!Rows, TrailInv, TrailType
<1>3. consenting' \in [Slots -> ConsentRequest]
      /\ \A t \in Slots : consenting'[t] = IF t = s THEN [op |-> "withdraw", row |-> i, read |-> 0]
                                             ELSE consenting[t]
  BY <1>1, <1>2 DEF TrailInv, TrailType, ConsentRequest
<1>4. TrailType'
  BY <1>1, <1>2, <1>3 DEF TrailInv, TrailType
<1>5. NoticesRead' /\ EventsHaveRows' /\ Trail!NoticeHistory'
  BY <1>1, <1>3 DEF TrailInv, NoticesRead, EventsHaveRows, Trail!NoticeHistory, Trail!Rows
<1>6. WithdrawalsRead'
  BY <1>1, <1>3 DEF TrailInv, WithdrawalsRead, Withdraws, Trail!Rows, Trail!Idle
<1>7. Trail!WithdrawalsAreAnnounced'
  BY <1>1 DEF TrailInv, Trail!WithdrawalsAreAnnounced, Trail!Rows
<1> QED
  BY <1>4, <1>5, <1>6, <1>7 DEF TrailInv

LEMMA TrailWithdraw ==
  ASSUME TrailInv, NEW s \in Slots, Trail!Withdraw(s)
  PROVE  TrailInv'
<1> DEFINE i == consenting[s].row
           event == [type |-> "ConsentWithdrawn", row |-> i]
<1>1. /\ consenting[s].op = "withdraw" /\ consenting' = [consenting EXCEPT ![s] = Trail!Idle]
      /\ consents' = [consents EXCEPT ![i].state = "WITHDRAWN"]
      /\ events' = Append(events, event)
      /\ UNCHANGED <<notices, withdrawnTwice>>
  BY DEF Trail!Withdraw
<1>2. consenting' \in [Slots -> ConsentRequest]
      /\ \A t \in Slots : consenting'[t] = IF t = s THEN Trail!Idle ELSE consenting[t]
  BY <1>1 DEF TrailInv, TrailType, ConsentRequest, Trail!Idle
<1>3. i \in Nat /\ i \in 1 .. Len(consents)
  BY <1>1 DEF TrailInv, TrailType, ConsentRequest, WithdrawalsRead, Trail!Rows
<1>4. /\ consents' \in Seq(ConsentType) /\ Len(consents') = Len(consents) /\ Len(consents) \in Nat
      /\ \A j \in 1 .. Len(consents) :
           consents'[j].notice = consents[j].notice
             /\ consents'[j].state = IF j = i THEN "WITHDRAWN" ELSE consents[j].state
  <2>1. consents \in Seq(ConsentType)
    BY DEF TrailInv, TrailType
  <2>2. consents[i] \in ConsentType
    BY <2>1, <1>3
  <2> DEFINE written == [consents[i] EXCEPT !.state = "WITHDRAWN"]
  <2>3. written \in ConsentType /\ written.notice = consents[i].notice /\ written.state = "WITHDRAWN"
    BY <2>2 DEF ConsentType
  <2>4. consents' = [consents EXCEPT ![i] = written]
    BY <1>1
  <2> HIDE DEF written, i
  <2> QED
    BY <2>1, <1>3, <2>3, <2>4
<1>5. /\ events' \in Seq(ConsentEvent) /\ Len(events') = Len(events) + 1 /\ Len(events) \in Nat
      /\ \A e \in 1 .. Len(events) : events'[e] = events[e]
      /\ events'[Len(events) + 1] = event
  BY <1>1, <1>3 DEF TrailInv, TrailType, ConsentEvent
<1>6. TrailType'
  BY <1>1, <1>2, <1>4, <1>5 DEF TrailInv, TrailType
<1>7. NoticesRead'
  BY <1>1, <1>2, <1>4 DEF TrailInv, NoticesRead, Trail!Rows, Trail!Idle
<1>8. WithdrawalsRead'
  BY <1>1, <1>2, <1>3, <1>4 DEF TrailInv, WithdrawalsRead, Withdraws, Trail!Rows, Trail!Idle
<1>9. EventsHaveRows'
  BY <1>3, <1>4, <1>5 DEF TrailInv, EventsHaveRows, Trail!Rows
<1>10. \A j \in 1 .. Len(consents) : \A e \in 1 .. Len(events) + 1 :
         events'[e] = [type |-> "ConsentWithdrawn", row |-> j]
           <=> \/ e <= Len(events) /\ events[e] = [type |-> "ConsentWithdrawn", row |-> j]
               \/ e = Len(events) + 1 /\ j = i
  BY <1>5
<1>11. i \notin withdrawnTwice => consents[i].state = "GRANTED"
  BY <1>1 DEF TrailInv, WithdrawalsRead
<1>12. Trail!WithdrawalsAreAnnounced'
  <2> DEFINE Said(j) == {e \in 1 .. Len(events) : events[e] = [type |-> "ConsentWithdrawn", row |-> j]}
             Says(j) == {e \in 1 .. Len(events) + 1 :
                           events'[e] = [type |-> "ConsentWithdrawn", row |-> j]}
  <2>1. ASSUME NEW j \in 1 .. Len(consents)
        PROVE  Says(j) = IF j = i THEN Said(j) \cup {Len(events) + 1} ELSE Said(j)
    BY <1>5, <1>10
  <2>2. ASSUME NEW j \in 1 .. Len(consents)
        PROVE  /\ Said(j) = {} <=> consents[j].state = "GRANTED"
               /\ j \notin withdrawnTwice => \A e, f \in Said(j) : e = f
    BY DEF TrailInv, Trail!WithdrawalsAreAnnounced, Trail!Rows
  <2> HIDE DEF i, event, Said, Says
  <2>3. ASSUME NEW j \in 1 .. Len(consents)
        PROVE  /\ Says(j) = {} <=> consents'[j].state = "GRANTED"
               /\ j \notin withdrawnTwice => \A e, f \in Says(j) : e = f
    <3>1. CASE j = i
      BY <1>4, <1>11, <2>1, <2>2, <3>1
    <3>2. CASE j # i
      BY <1>4, <2>1, <2>2, <3>2
    <3> QED
      BY <3>1, <3>2
  <2>4. /\ Trail!Rows(consents)' = 1 .. Len(consents) /\ Trail!Rows(events)' = 1 .. Len(events) + 1
        /\ withdrawnTwice' = withdrawnTwice
    BY <1>1, <1>4, <1>5 DEF Trail!Rows
  <2> QED
    BY <2>3, <2>4 DEF Trail!WithdrawalsAreAnnounced, Says
<1>13. Trail!NoticeHistory'
  BY <1>1 DEF TrailInv, Trail!NoticeHistory, Trail!Rows
<1> QED
  BY <1>6, <1>7, <1>8, <1>9, <1>12, <1>13 DEF TrailInv

LEMMA TrailNext ==
  ASSUME TrailInv, Trail!Next \/ UNCHANGED consentVars
  PROVE  TrailInv'
<1>1. CASE \E i \in Trail!Rows(notices) : Trail!DeleteNotice(i)
  BY <1>1, TrailDelete
<1>2. ASSUME NEW s \in Slots, Trail!ReadLatest(s) PROVE TrailInv'
  <2> DEFINE request == [op |-> "publish", row |-> 0, read |-> Trail!LatestVersion]
  <2>1. Trail!LatestVersion \in Nat /\ Trail!LatestVersion <= Len(notices)
    BY LatestVersionWasThere DEF TrailInv, TrailType
  <2>2. request \in ConsentRequest
    BY <2>1 DEF ConsentRequest
  <2>3. Len(notices) \in Nat /\ Len(notices) < NoticeVersions
    BY <1>2 DEF Trail!ReadLatest, TrailInv, TrailType
  <2>4. request.read <= Len(notices) /\ request.read < NoticeVersions
    BY <2>1, <2>3, MCComplianceAssumption
  <2>5. consenting' = [consenting EXCEPT ![s] = request]
        /\ UNCHANGED <<notices, consents, events, withdrawnTwice>>
    BY <1>2 DEF Trail!ReadLatest
  <2>6. request.op = "publish"
    OBVIOUS
  <2> HIDE DEF request
  <2> QED
    BY <2>2, <2>4, <2>5, <2>6, TrailStart
<1>3. ASSUME NEW s \in Slots, NEW i \in Trail!Rows(notices), Trail!FindNotice(s, i) PROVE TrailInv'
  <2>1. i \in Nat
    BY DEF Trail!Rows, TrailInv, TrailType
  <2> DEFINE request == [op |-> "record", row |-> i, read |-> 0]
  <2>2. request \in ConsentRequest /\ request.op = "record" /\ request.row = i
    BY <2>1 DEF ConsentRequest
  <2>3. consenting' = [consenting EXCEPT ![s] = request]
        /\ UNCHANGED <<notices, consents, events, withdrawnTwice>>
    BY <1>3 DEF Trail!FindNotice
  <2> HIDE DEF request
  <2> QED
    BY <2>2, <2>3, TrailStart
<1>4. CASE UNCHANGED consentVars
  <2>1. UNCHANGED <<notices, consents, events, consenting, withdrawnTwice>>
    BY <1>4 DEF consentVars
  <2> QED
    <3>1. TrailType' /\ NoticesRead'
      BY <2>1 DEF TrailInv, TrailType, NoticesRead, Trail!Rows
    <3>2. WithdrawalsRead' /\ EventsHaveRows'
      BY <2>1 DEF TrailInv, WithdrawalsRead, Withdraws, EventsHaveRows, Trail!Rows
    <3>3. Trail!NoticeHistory' /\ Trail!WithdrawalsAreAnnounced'
      BY <2>1 DEF TrailInv, Trail!NoticeHistory, Trail!WithdrawalsAreAnnounced, Trail!Rows
    <3> QED
      BY <3>1, <3>2, <3>3 DEF TrailInv
<1> QED
  BY <1>1, <1>2, <1>3, <1>4, TrailPublish, TrailRecord, TrailFindGranted, TrailWithdraw
  DEF Trail!Next

---------------------------------------------------------------------------
(* The assessment: one transaction at a time holds its row, so the version  *)
(* a request adds is still the next one, and the head it has read is not     *)
(* overtaken by another held event.                                          *)

Pack == (SUBSET Gap!Inputs) \cup {None}
Frozen == [number : Nat, pack : Pack]
AuditEvent == [prev : Nat, held : BOOLEAN]
ScanRow == [status : {None, "RUNNING", "COMPLETED"}, ai : {None, "COMPLETED", "FAILED"}]
GapRequest ==
  [op : Gap!AllOps \cup {"idle"}, step : {"read", "locked", "head", "classify"},
   version : Gap!Versions, read : Pack, head : Nat]

GapRows ==
  /\ status \in {"IN_PROGRESS", "READY_FOR_EVALUATION", "EVALUATED"}
  /\ inputs \in [Gap!Versions -> SUBSET Gap!Inputs]
  /\ report \in [Gap!Versions -> Pack]
  /\ scans \in [Gap!Versions -> ScanRow]

GapType ==
  /\ current \in Gap!Versions /\ GapRows
  /\ frozen \in Seq(Frozen) /\ chain \in Seq(AuditEvent)
  /\ assessing \in [Slots -> GapRequest]

OneHolds == \A s, t \in Slots : Gap!Holds(s) /\ Gap!Holds(t) => s = t

\* A request to create a version adds the next one, once it holds the row.
NextVersionRead ==
  \A s \in Slots : assessing[s].op = "version" =>
    /\ assessing[s].version < AssessmentVersions /\ assessing[s].version <= current
    /\ Gap!InTransaction(s) => assessing[s].version = current

\* The head a transaction has read is there; nothing held follows it while the
\* transaction holds the row.
HeadsRead ==
  \A s \in Slots : assessing[s].step = "head" =>
    /\ assessing[s].head \in 1 .. Len(chain)
    /\ Gap!Holds(s) => assessing[s].head \in Gap!Latest

ChainGrows ==
  /\ \A i \in 1 .. Len(chain) : chain[i].prev < i
  /\ Gap!HeldEventsAreChained

GapInv ==
  GapType /\ OneHolds /\ NextVersionRead /\ HeadsRead /\ ChainGrows /\ Gap!VersionsNumbered

LEMMA VersionsAre == Gap!Versions = 1 .. AssessmentVersions /\ 1 \in Gap!Versions
BY MCComplianceAssumption DEF Gap!Versions

LEMMA IdleGap == Gap!Idle \in GapRequest /\ Gap!Idle.op = "idle" /\ Gap!Idle.step = "read"
BY VersionsAre DEF Gap!Idle, GapRequest, Pack

LEMMA GapInit == Gap!Init => GapInv
<1> SUFFICES ASSUME Gap!Init PROVE GapInv
  OBVIOUS
<1>1. frozen \in Seq(Frozen) /\ Len(frozen) = 1 /\ frozen[1].number = 1
  BY DEF Gap!Init, Frozen, Pack
<1>2. chain \in Seq(AuditEvent) /\ Len(chain) = 1 /\ chain[1].prev = 0
  BY DEF Gap!Init, AuditEvent
<1>3. assessing \in [Slots -> GapRequest] /\ \A s \in Slots : assessing[s] = Gap!Idle
  BY IdleGap DEF Gap!Init
<1>4. GapRows /\ current = 1
  BY DEF Gap!Init, GapRows, Pack, ScanRow
<1>5. GapType
  BY <1>1, <1>2, <1>3, <1>4, VersionsAre DEF GapType
<1>6. OneHolds /\ NextVersionRead /\ HeadsRead
  BY <1>3, IdleGap DEF OneHolds, NextVersionRead, HeadsRead, Gap!Holds, Gap!InTransaction
<1>7. ChainGrows
  BY <1>2 DEF ChainGrows, Gap!HeldEventsAreChained
<1>8. Gap!VersionsNumbered
  BY <1>1, <1>4 DEF Gap!VersionsNumbered
<1> QED
  BY <1>5, <1>6, <1>7, <1>8 DEF GapInv

\* Appending after the head a transaction has read keeps held events apart.
LEMMA ChainAppend ==
  ASSUME chain \in Seq(AuditEvent), ChainGrows,
         NEW head \in 1 .. Len(chain), NEW held \in BOOLEAN, held => head \in Gap!Latest,
         chain' = Append(chain, [prev |-> head, held |-> held])
  PROVE  /\ chain' \in Seq(AuditEvent) /\ Len(chain') = Len(chain) + 1
         /\ ChainGrows'
         /\ ~held => Gap!Latest \subseteq Gap!Latest'
<1> DEFINE n == Len(chain) + 1
<1>a. \A i \in 1 .. Len(chain) : chain[i] \in AuditEvent
  OBVIOUS
<1>1. /\ chain' \in Seq(AuditEvent) /\ Len(chain') = n /\ Len(chain) \in Nat
      /\ \A i \in 1 .. Len(chain) : chain'[i] = chain[i]
      /\ chain'[n] = [prev |-> head, held |-> held]
  BY DEF AuditEvent
<1>2. \A i \in 1 .. n : chain'[i].prev < i
  BY <1>1 DEF ChainGrows
<1>3. ASSUME NEW i \in 1 .. Len(chain), chain[i].held, held PROVE chain[i].prev < head
  <2>1. i <= head
    <3>1. \A j \in head + 1 .. Len(chain) : ~chain[j].held
      BY <1>3 DEF Gap!Latest
    <3>2. i \notin head + 1 .. Len(chain)
      BY <1>3, <3>1
    <3> QED
      BY <1>1, <3>2
  <2>2. chain[i].prev < i /\ chain[i].prev \in Nat
    BY <1>a DEF ChainGrows, AuditEvent
  <2> QED
    BY <2>1, <2>2
<1>4. \A i \in 1 .. Len(chain) : chain[i].prev \in Nat
  BY <1>a DEF AuditEvent
<1>5. ASSUME NEW i \in 1 .. n, NEW j \in 1 .. n, i < j, chain'[i].held, chain'[j].held
      PROVE  chain'[i].prev # chain'[j].prev
  <2>1. i \in 1 .. Len(chain) /\ chain'[i] = chain[i]
    BY <1>1, <1>5
  <2>2. CASE j = n
    <3>1. chain'[j].prev = head /\ held
      BY <1>1, <1>5, <2>2
    <3>2. chain[i].prev < head
      BY <1>3, <1>5, <2>1, <3>1
    <3> QED
      BY <2>1, <3>1, <3>2, <1>4
  <2>3. CASE j # n
    <3>1. j \in 1 .. Len(chain) /\ chain'[j] = chain[j] /\ i # j
      BY <1>1, <1>5, <2>3
    <3> QED
      BY <1>5, <2>1, <3>1 DEF ChainGrows, Gap!HeldEventsAreChained
  <2> QED
    BY <2>2, <2>3
<1>6. ASSUME NEW i \in 1 .. n, NEW j \in 1 .. n, i # j, chain'[i].held, chain'[j].held
      PROVE  chain'[i].prev # chain'[j].prev
  <2>1. i < j \/ j < i
    BY <1>1, <1>6
  <2> QED
    BY <2>1, <1>5, <1>6
<1>7. Gap!HeldEventsAreChained'
  BY <1>1, <1>6 DEF Gap!HeldEventsAreChained
<1>8. ASSUME ~held, NEW i \in Gap!Latest PROVE i \in Gap!Latest'
  <2>1. i \in 1 .. Len(chain) /\ \A j \in i + 1 .. Len(chain) : ~chain[j].held
    BY <1>8 DEF Gap!Latest
  <2>2. ASSUME NEW j \in i + 1 .. n PROVE ~chain'[j].held
    <3>1. CASE j = n
      BY <1>1, <1>8, <3>1
    <3>2. CASE j # n
      <4>1. j \in i + 1 .. Len(chain) /\ j \in 1 .. Len(chain)
        BY <1>1, <2>1, <3>2
      <4> QED
        BY <1>1, <2>1, <4>1
    <3> QED
      BY <3>1, <3>2
  <2>3. i \in 1 .. n
    BY <1>1, <2>1
  <2> QED
    BY <1>1, <2>2, <2>3 DEF Gap!Latest
<1> QED
  BY <1>1, <1>2, <1>7, <1>8 DEF ChainGrows

\* What a request does to the chain and its slot when it commits.
LEMMA GapDone ==
  ASSUME GapInv, NEW s \in Slots, assessing[s].step = "head",
         NEW next \in GapRequest, next.step \notin {"locked", "head"}, next.op # "version",
         assessing' = [assessing EXCEPT ![s] = next],
         Gap!AppendAudit(s) \/ UNCHANGED chain
  PROVE  /\ assessing' \in [Slots -> GapRequest] /\ chain' \in Seq(AuditEvent)
         /\ OneHolds' /\ HeadsRead' /\ ChainGrows'
         /\ \A t \in Slots : assessing'[t] = IF t = s THEN next ELSE assessing[t]
         /\ \A t \in Slots : Gap!InTransaction(t)' => t # s /\ Gap!InTransaction(t)
<1>1. assessing \in [Slots -> GapRequest] /\ chain \in Seq(AuditEvent) /\ ChainGrows
  BY DEF GapInv, GapType
<1>2. /\ assessing' \in [Slots -> GapRequest]
      /\ \A t \in Slots : assessing'[t] = IF t = s THEN next ELSE assessing[t]
  BY <1>1
<1>3. \A t \in Slots : Gap!InTransaction(t)' => t # s /\ Gap!InTransaction(t)
  BY <1>2 DEF Gap!InTransaction
<1>4. \A t \in Slots : Gap!Holds(t)' => t # s /\ Gap!Holds(t)
  BY <1>2, <1>3 DEF Gap!Holds
<1>5. OneHolds'
  BY <1>4 DEF GapInv, OneHolds
<1>6. \A t \in Slots : assessing'[t].step = "head" => t # s /\ assessing'[t] = assessing[t]
  BY <1>2
<1>7. CASE UNCHANGED chain
  <2>1. HeadsRead'
    BY <1>4, <1>6, <1>7 DEF GapInv, HeadsRead, Gap!Latest
  <2>2. ChainGrows'
    BY <1>1, <1>7 DEF ChainGrows, Gap!HeldEventsAreChained
  <2> QED
    BY <1>1, <1>2, <1>3, <1>5, <1>7, <2>1, <2>2
<1>8. CASE Gap!AppendAudit(s)
  <2> DEFINE head == assessing[s].head
             held == assessing[s].op \in Gap!Locking
  <2>1. head \in 1 .. Len(chain) /\ (held => head \in Gap!Latest)
    BY DEF GapInv, HeadsRead, Gap!Holds, Gap!InTransaction
  <2>2. chain' = Append(chain, [prev |-> head, held |-> held])
    BY <1>8 DEF Gap!AppendAudit
  <2>3. held \in BOOLEAN
    OBVIOUS
  <2> HIDE DEF head, held
  <2>4. /\ chain' \in Seq(AuditEvent) /\ Len(chain') = Len(chain) + 1 /\ ChainGrows'
        /\ ~held => Gap!Latest \subseteq Gap!Latest'
    BY <1>1, <2>1, <2>2, <2>3, ChainAppend
  <2>5. ASSUME NEW t \in Slots, assessing'[t].step = "head" PROVE assessing'[t].head \in 1 .. Len(chain')
    <3>1. assessing'[t].head \in 1 .. Len(chain)
      BY <1>6, <2>5 DEF GapInv, HeadsRead
    <3> QED
      BY <1>1, <2>4, <3>1
  <2>6. ASSUME NEW t \in Slots, assessing'[t].step = "head", Gap!Holds(t)'
        PROVE  assessing'[t].head \in Gap!Latest'
    <3>1. Gap!Holds(t) /\ t # s /\ assessing'[t] = assessing[t]
      BY <1>4, <1>6, <2>6
    <3>2. ~held
      BY <3>1 DEF held, GapInv, OneHolds, Gap!Holds, Gap!InTransaction
    <3>3. assessing[t].head \in Gap!Latest
      BY <2>6, <3>1 DEF GapInv, HeadsRead
    <3> QED
      BY <2>4, <3>1, <3>2, <3>3
  <2>7. HeadsRead'
    BY <2>5, <2>6 DEF HeadsRead
  <2> QED
    BY <1>2, <1>3, <1>5, <2>4, <2>7
<1> QED
  BY <1>7, <1>8

\* A commit that adds no version.
LEMMA GapCommit ==
  ASSUME GapInv, NEW s \in Slots, assessing[s].step = "head",
         NEW next \in GapRequest, next.step \notin {"locked", "head"}, next.op # "version",
         assessing' = [assessing EXCEPT ![s] = next],
         Gap!AppendAudit(s) \/ UNCHANGED chain,
         UNCHANGED <<current, frozen>>, GapRows'
  PROVE  GapInv'
<1>1. /\ assessing' \in [Slots -> GapRequest] /\ chain' \in Seq(AuditEvent)
      /\ OneHolds' /\ HeadsRead' /\ ChainGrows'
      /\ \A t \in Slots : assessing'[t] = IF t = s THEN next ELSE assessing[t]
      /\ \A t \in Slots : Gap!InTransaction(t)' => t # s /\ Gap!InTransaction(t)
  BY GapDone
<1>2. NextVersionRead'
  BY <1>1 DEF GapInv, NextVersionRead
<1>3. GapType' /\ Gap!VersionsNumbered'
  BY <1>1 DEF GapInv, GapType, Gap!VersionsNumbered
<1> QED
  BY <1>1, <1>2, <1>3 DEF GapInv

\* Steps that change no row, other than a transaction's own slot.
LEMMA GapWaits ==
  ASSUME GapInv, NEW s \in Slots, NEW next \in GapRequest, UNCHANGED <<current, frozen, chain>>,
         GapRows', assessing' = [assessing EXCEPT ![s] = next],
         next.step \in {"locked", "head"} =>
           /\ next.op = assessing[s].op
           /\ next.op \in Gap!Locking => \A t \in Slots \ {s} : ~Gap!Holds(t),
         next.op = "version" =>
           /\ next.version < AssessmentVersions /\ next.version <= current
           /\ next.step \in {"locked", "head"} => next.version = current,
         next.step = "head" => next.head \in Gap!Latest
  PROVE  GapInv'
<1>1. /\ assessing' \in [Slots -> GapRequest]
      /\ \A t \in Slots : assessing'[t] = IF t = s THEN next ELSE assessing[t]
  BY DEF GapInv, GapType
<1>2. \A t \in Slots \ {s} : Gap!Holds(t)' <=> Gap!Holds(t)
  BY <1>1 DEF Gap!Holds, Gap!InTransaction
<1>3. Gap!Holds(s)' => \A t \in Slots \ {s} : ~Gap!Holds(t)
  BY <1>1 DEF Gap!Holds, Gap!InTransaction
<1>4. OneHolds'
  BY <1>2, <1>3 DEF GapInv, OneHolds
<1>5. NextVersionRead'
  BY <1>1 DEF GapInv, NextVersionRead, Gap!InTransaction
<1>6. Gap!Latest' = Gap!Latest /\ (next.step = "head" => next.head \in 1 .. Len(chain))
  BY DEF Gap!Latest
<1>7. HeadsRead'
  BY <1>1, <1>2, <1>6 DEF GapInv, HeadsRead
<1>8. GapType' /\ ChainGrows' /\ Gap!VersionsNumbered'
  BY <1>1 DEF GapInv, GapType, ChainGrows, Gap!HeldEventsAreChained, Gap!VersionsNumbered
<1> QED
  BY <1>4, <1>5, <1>7, <1>8 DEF GapInv

LEMMA GapReceive ==
  ASSUME GapInv, NEW s \in Slots, NEW op \in Gap!AllOps, Gap!Receive(s, op)
  PROVE  GapInv'
<1>1. PICK v \in Gap!VersionFor(op) :
        assessing' = [assessing EXCEPT ![s] =
                        [Gap!Idle EXCEPT !.op = op, !.version = v, !.read = Gap!Reads(op)]]
  BY DEF Gap!Receive
<1> DEFINE next == [Gap!Idle EXCEPT !.op = op, !.version = v, !.read = Gap!Reads(op)]
<1>2. current \in Gap!Versions /\ inputs[current] \in Pack /\ report[current] \in Pack
  BY DEF GapInv, GapType, GapRows, Pack
<1>3. v \in Gap!Versions /\ (op = "version" => v = current)
  BY <1>2 DEF Gap!VersionFor
<1>4. Gap!Reads(op) \in Pack
  BY <1>2 DEF Gap!Reads, Pack
<1>5. next \in GapRequest /\ next.step = "read" /\ next.op = op /\ next.version = v
  BY <1>3, <1>4 DEF Gap!Idle, GapRequest
<1>6. op = "version" => current < AssessmentVersions
  BY <1>2, VersionsAre, MCComplianceAssumption DEF Gap!Receive
<1>7. op = "version" => v < AssessmentVersions /\ v <= current
  BY <1>2, <1>3, <1>6, VersionsAre
<1>8. UNCHANGED <<current, frozen, chain>> /\ GapRows'
  BY DEF Gap!Receive, Gap!assessment, GapInv, GapType, GapRows
<1> HIDE DEF next
<1>9. assessing' = [assessing EXCEPT ![s] = next]
  BY <1>1 DEF next
<1> QED
  BY <1>5, <1>7, <1>8, <1>9, GapWaits

LEMMA GapOpen ==
  ASSUME GapInv, NEW s \in Slots, Gap!Open(s)
  PROVE  GapInv'
<1>1. /\ assessing[s].step = "read" /\ UNCHANGED <<current, frozen, chain>> /\ GapRows'
      /\ assessing[s].op \in Gap!Locking => \A t \in Slots : ~Gap!Holds(t)
  BY DEF Gap!Open, Gap!assessment, GapInv, GapType, GapRows
<1>2. CASE assessing' = [assessing EXCEPT ![s] = Gap!Idle]
  BY <1>1, <1>2, IdleGap, GapWaits
<1>3. CASE /\ ~(assessing[s].op = "version" /\ Gap!VersionExists(assessing[s].version + 1))
           /\ assessing' = [assessing EXCEPT ![s].step = "locked"]
  <2> DEFINE next == [assessing[s] EXCEPT !.step = "locked"]
  <2>1. assessing[s] \in GapRequest
    BY DEF GapInv, GapType
  <2>2. /\ next \in GapRequest /\ next.step = "locked" /\ next.op = assessing[s].op
        /\ next.version = assessing[s].version
    BY <2>1 DEF GapRequest
  <2>3. assessing' = [assessing EXCEPT ![s] = next]
    BY <1>3
  <2> HIDE DEF next
  <2>4. ASSUME assessing[s].op = "version"
        PROVE  assessing[s].version < AssessmentVersions /\ assessing[s].version = current
    <3>1. assessing[s].version < AssessmentVersions /\ assessing[s].version <= current
      BY <2>4 DEF GapInv, NextVersionRead
    <3>2. assessing[s].version \in Nat /\ current = Len(frozen) /\ Len(frozen) \in Nat
      BY <2>1, VersionsAre DEF GapRequest, GapInv, GapType, Gap!VersionsNumbered
    <3>3. assessing[s].version + 1 \notin 1 .. Len(frozen)
      BY <1>3, <2>4 DEF Gap!VersionExists, GapInv, Gap!VersionsNumbered
    <3> QED
      BY <3>1, <3>2, <3>3
  <2>5. current \in Nat
    BY VersionsAre DEF GapInv, GapType
  <2>6. next.op = "version" =>
          /\ next.version < AssessmentVersions /\ next.version <= current
          /\ next.step \in {"locked", "head"} => next.version = current
    BY <2>2, <2>4, <2>5
  <2> QED
    BY <1>1, <2>2, <2>3, <2>6, GapWaits
<1> QED
  BY <1>2, <1>3 DEF Gap!Open

LEMMA GapReadHead ==
  ASSUME GapInv, NEW s \in Slots, Gap!ReadHead(s)
  PROVE  GapInv'
<1>1. PICK i \in Gap!Latest : assessing' = [assessing EXCEPT ![s].step = "head", ![s].head = i]
  BY DEF Gap!ReadHead
<1> DEFINE next == [assessing[s] EXCEPT !.step = "head", !.head = i]
<1>2. assessing[s] \in GapRequest /\ i \in Nat
  BY DEF GapInv, GapType, Gap!Latest
<1>3. /\ next \in GapRequest /\ next.step = "head" /\ next.op = assessing[s].op
      /\ next.version = assessing[s].version /\ next.head = i
  BY <1>2 DEF GapRequest
<1>4. assessing' = [assessing EXCEPT ![s] = next]
  BY <1>1, <1>2 DEF GapInv, GapType
<1>5. assessing[s].step = "locked" /\ UNCHANGED <<current, frozen, chain>> /\ GapRows'
  BY DEF Gap!ReadHead, Gap!assessment, GapInv, GapType, GapRows
<1> HIDE DEF next
<1>6. next.op \in Gap!Locking => \A t \in Slots \ {s} : ~Gap!Holds(t)
  BY <1>3, <1>5 DEF GapInv, OneHolds, Gap!Holds, Gap!InTransaction
<1>7. next.op = "version" =>
        /\ next.version < AssessmentVersions /\ next.version <= current
        /\ next.step \in {"locked", "head"} => next.version = current
  BY <1>3, <1>5 DEF GapInv, NextVersionRead, Gap!InTransaction
<1> QED
  BY <1>3, <1>4, <1>5, <1>6, <1>7, GapWaits

LEMMA GapCreateVersion ==
  ASSUME GapInv, NEW s \in Slots, Gap!CreateVersion(s)
  PROVE  GapInv'
<1> DEFINE n == assessing[s].version + 1
<1>1. /\ assessing[s].step = "head" /\ assessing[s].op = "version"
      /\ frozen' = Append(frozen, [number |-> n, pack |-> assessing[s].read])
      /\ current' = n /\ status' = "IN_PROGRESS"
      /\ Gap!AppendAudit(s) /\ assessing' = [assessing EXCEPT ![s] = Gap!Idle]
      /\ UNCHANGED <<inputs, report, scans>>
  BY DEF Gap!CreateVersion, Gap!Ready, Gap!Done, Gap!Reopens
<1>2. assessing[s].version = current /\ current < AssessmentVersions
  BY <1>1 DEF GapInv, NextVersionRead, Gap!InTransaction
<1>3. current \in Nat /\ current = Len(frozen) /\ assessing[s].read \in Pack
      /\ frozen \in Seq(Frozen)
  BY VersionsAre DEF GapInv, GapType, Gap!VersionsNumbered, GapRequest
<1>4. n = Len(frozen) + 1 /\ n \in Gap!Versions
  BY <1>2, <1>3, VersionsAre, MCComplianceAssumption
<1> HIDE DEF n
<1>5. /\ frozen' \in Seq(Frozen) /\ Len(frozen') = n /\ frozen'[n].number = n
      /\ \A i \in 1 .. Len(frozen) : frozen'[i] = frozen[i]
  BY <1>1, <1>3, <1>4 DEF Frozen
<1>6. Gap!VersionsNumbered'
  BY <1>1, <1>3, <1>4, <1>5 DEF GapInv, Gap!VersionsNumbered
<1>7. /\ assessing' \in [Slots -> GapRequest] /\ chain' \in Seq(AuditEvent)
      /\ OneHolds' /\ HeadsRead' /\ ChainGrows'
      /\ \A t \in Slots : assessing'[t] = IF t = s THEN Gap!Idle ELSE assessing[t]
      /\ \A t \in Slots : Gap!InTransaction(t)' => t # s /\ Gap!InTransaction(t)
  BY <1>1, IdleGap, GapDone
<1>8. GapType'
  BY <1>1, <1>4, <1>5, <1>7 DEF GapInv, GapType, GapRows
<1>9. ASSUME NEW t \in Slots, assessing'[t].op = "version"
      PROVE  /\ assessing'[t].version < AssessmentVersions /\ assessing'[t].version <= current'
             /\ Gap!InTransaction(t)' => assessing'[t].version = current'
  <2>1. t # s /\ assessing'[t] = assessing[t]
    BY <1>7, <1>9, IdleGap
  <2>2. ~Gap!InTransaction(t)'
    BY <1>1, <1>7, <1>9, <2>1 DEF GapInv, OneHolds, Gap!Holds, Gap!InTransaction, Gap!Locking
  <2>3. assessing[t].version < AssessmentVersions /\ assessing[t].version <= current
        /\ assessing[t].version \in Nat
    BY <1>9, <2>1, VersionsAre DEF GapInv, NextVersionRead, GapType, GapRequest
  <2>4. assessing[t].version <= n
    BY <1>3, <1>4, <2>3
  <2> QED
    BY <1>1, <2>1, <2>2, <2>3, <2>4
<1>10. NextVersionRead'
  BY <1>9 DEF NextVersionRead
<1> QED
  BY <1>6, <1>7, <1>8, <1>10 DEF GapInv

LEMMA GapNext ==
  ASSUME GapInv, Gap!Next \/ UNCHANGED assessmentVars
  PROVE  GapInv'
<1>a. GapRows /\ assessing \in [Slots -> GapRequest]
  BY DEF GapInv, GapType
<1>1. CASE \E s \in Slots : \E op \in Gap!AllOps : Gap!Receive(s, op)
  BY <1>1, GapReceive
<1>2. CASE \E s \in Slots : Gap!Open(s) \/ Gap!ReadHead(s) \/ Gap!CreateVersion(s)
  BY <1>2, GapOpen, GapReadHead, GapCreateVersion
<1>3. ASSUME NEW s \in Slots,
             Gap!UploadDocument(s) \/ Gap!InitiateDocumentUpload(s)
               \/ Gap!ConfirmDocumentUpload(s) \/ Gap!SaveQuestionnaire(s)
      PROVE  GapInv'
  <2>1. PICK kind \in {"doc", "pending", "answers"} : Gap!Adds(s, kind)
    BY <1>3 DEF Gap!UploadDocument, Gap!InitiateDocumentUpload, Gap!ConfirmDocumentUpload,
         Gap!SaveQuestionnaire
  <2>2. kind \in Gap!Inputs
    BY DEF Gap!Inputs
  <2>3. assessing[s].version \in Gap!Versions
    BY <1>a DEF GapRequest
  <2>4. inputs' \in [Gap!Versions -> SUBSET Gap!Inputs]
    BY <1>a, <2>1, <2>2, <2>3 DEF Gap!Adds, GapRows
  <2>5. /\ status' \in {status, "IN_PROGRESS"} /\ UNCHANGED <<current, frozen, report, scans>>
        /\ assessing[s].step = "head" /\ assessing' = [assessing EXCEPT ![s] = Gap!Idle]
        /\ Gap!AppendAudit(s) \/ UNCHANGED chain
    BY <1>3 DEF Gap!UploadDocument, Gap!InitiateDocumentUpload, Gap!ConfirmDocumentUpload,
         Gap!SaveQuestionnaire, Gap!Reopens, Gap!Ready, Gap!Done
  <2>6. GapRows'
    BY <1>a, <2>4, <2>5 DEF GapRows
  <2> QED
    BY <2>5, <2>6, IdleGap, GapCommit
<1>4. ASSUME NEW s \in Slots, Gap!CreateCliToken(s) \/ Gap!CreateScan(s) \/ Gap!Evaluate(s)
      PROVE  GapInv'
  <2>1. /\ UNCHANGED <<current, frozen, inputs>> /\ Gap!AppendAudit(s)
        /\ assessing[s].step = "head" /\ assessing' = [assessing EXCEPT ![s] = Gap!Idle]
    BY <1>4 DEF Gap!CreateCliToken, Gap!CreateScan, Gap!Evaluate, Gap!assessment, Gap!Ready, Gap!Done
  <2>2. assessing[s].version \in Gap!Versions /\ assessing[s].read \in Pack
    BY <1>a DEF GapRequest
  <2>3. GapRows'
    BY <1>4, <1>a, <2>2
    DEF Gap!CreateCliToken, Gap!CreateScan, Gap!Evaluate, Gap!assessment, GapRows, ScanRow
  <2> QED
    BY <2>1, <2>3, IdleGap, GapCommit
<1>5. ASSUME NEW s \in Slots, Gap!SubmitEvidenceBatch(s) PROVE GapInv'
  <2>1. PICK next \in {Gap!Idle, [assessing[s] EXCEPT !.step = "classify"]} :
          assessing' = [assessing EXCEPT ![s] = next]
    BY <1>5 DEF Gap!SubmitEvidenceBatch
  <2>2. /\ UNCHANGED <<current, frozen, report>> /\ Gap!AppendAudit(s)
        /\ assessing[s].step = "head" /\ assessing[s].op = "submit"
    BY <1>5 DEF Gap!SubmitEvidenceBatch, Gap!Ready
  <2>3. assessing[s].version \in Gap!Versions /\ assessing[s] \in GapRequest
    BY <1>a DEF GapRequest
  <2>4. next \in GapRequest /\ next.step \notin {"locked", "head"} /\ next.op # "version"
    <3>1. CASE next = Gap!Idle
      BY <3>1, IdleGap
    <3>2. CASE next = [assessing[s] EXCEPT !.step = "classify"]
      BY <3>2, <2>2, <2>3 DEF GapRequest
    <3> QED
      BY <3>1, <3>2
  <2>5. inputs' \in [Gap!Versions -> SUBSET Gap!Inputs]
    BY <1>5, <1>a, <2>3 DEF Gap!SubmitEvidenceBatch, Gap!Adds, GapRows, Gap!Inputs
  <2>6. scans[assessing[s].version] \in ScanRow
    BY <1>a, <2>3 DEF GapRows
  <2>7. [scans[assessing[s].version] EXCEPT !.status = "COMPLETED"] \in ScanRow
    BY <2>6 DEF ScanRow
  <2>8. scans' \in [Gap!Versions -> ScanRow]
    BY <1>5, <1>a, <2>3, <2>7 DEF Gap!SubmitEvidenceBatch, GapRows
  <2>9. GapRows'
    BY <1>5, <1>a, <2>2, <2>5, <2>8 DEF Gap!SubmitEvidenceBatch, GapRows
  <2> QED
    BY <2>1, <2>2, <2>4, <2>9, GapCommit
<1>6. ASSUME NEW s \in Slots, Gap!ClassifyFindings(s) PROVE GapInv'
  <2>1. assessing[s].version \in Gap!Versions
    BY <1>a DEF GapRequest
  <2>2. PICK ai \in {"COMPLETED", "FAILED", scans[assessing[s].version].ai} :
          scans' = [scans EXCEPT ![assessing[s].version].ai = ai]
    BY <1>6 DEF Gap!ClassifyFindings
  <2>3. scans[assessing[s].version] \in ScanRow
    BY <1>a, <2>1 DEF GapRows
  <2>4. [scans[assessing[s].version] EXCEPT !.ai = ai] \in ScanRow
    BY <2>3 DEF ScanRow
  <2>5. scans' \in [Gap!Versions -> ScanRow]
    BY <1>a, <2>1, <2>2, <2>4 DEF GapRows
  <2>6. /\ UNCHANGED <<current, status, frozen, inputs, report, chain>>
        /\ assessing' = [assessing EXCEPT ![s] = Gap!Idle]
    BY <1>6 DEF Gap!ClassifyFindings, Gap!Done
  <2>7. GapRows'
    BY <1>a, <2>5, <2>6 DEF GapRows
  <2> QED
    BY <2>6, <2>7, IdleGap, GapWaits
<1>7. CASE UNCHANGED assessmentVars
  <2>1. UNCHANGED <<current, status, frozen, inputs, report, scans, chain, assessing>>
    BY <1>7 DEF assessmentVars
  <2> QED
    BY <2>1 DEF GapInv, GapType, GapRows, OneHolds, NextVersionRead, HeadsRead, ChainGrows,
         Gap!Holds, Gap!InTransaction, Gap!Latest, Gap!HeldEventsAreChained, Gap!VersionsNumbered
<1> QED
  BY <1>1, <1>2, <1>3, <1>4, <1>5, <1>6, <1>7 DEF Gap!Next, Gap!Commit, Gap!AllOps, Gap!Locking

---------------------------------------------------------------------------
(* Jobs: each time a job is handed out it is executed once, and only the    *)
(* execution that holds the lock decides what becomes of the job; a row      *)
(* nothing has gone wrong around is in the hands of the queue, of a worker   *)
(* or of a cancellation.                                                     *)

JobRow ==
  [kind : {"report", "ai", "notification", None},
   status : {"none", "PENDING", "RUNNING", "COMPLETED", "FAILED", "READ"},
   visible : BOOLEAN, deleted : BOOLEAN, announced : Nat]
Execution == [r : Requests, step : {"find", "start", "work"}, n : {0, 1}]
Reasons == {"not submitted", "too early", "query failed", "worker died", "not cancelled"}

JobsType ==
  /\ row \in [Requests -> JobRow]
  /\ submit \in [Requests -> {"new", "inserted", "added", "done"}]
  /\ job \in [Requests -> {"none", "waiting", "active", "completed", "failed", "removed"}]
  /\ stalls \in [Requests -> {0, 1, 2}]
  /\ run \in [Workers -> Execution \cup {Jobs!Free}]
  /\ cancel \in [Requests -> {"none", "checked", "removed"}]
  /\ late \in [Requests -> BOOLEAN]
  /\ excuse \in [Requests -> SUBSET Reasons]

Executes(w, r) == run[w].r = r

\* How far the request that creates the row is.
RowFollowsSubmit(r) ==
  /\ submit[r] \in {"new", "inserted"} =>
       job[r] = "none" /\ stalls[r] = 0 /\ \A w \in Workers : ~Executes(w, r)
  /\ submit[r] = "inserted" => (row[r].visible <=> row[r].kind = "notification")
  /\ submit[r] = "added" => row[r].kind # "notification" /\ ~row[r].visible
  /\ row[r].visible /\ row[r].kind # "notification" => submit[r] = "done"
  /\ row[r].kind = "notification" => row[r].status # "RUNNING"
  /\ cancel[r] # "none" \/ row[r].deleted => row[r].kind = "report" /\ row[r].visible

\* An execution is the one of its turn; past its first query it has a row.
ExecutionsTakeTurns(r) ==
  /\ stalls[r] = 2 => job[r] \notin {"none", "waiting", "active"}
  /\ \A w \in Workers : Executes(w, r) =>
       /\ run[w].n <= stalls[r]
       /\ job[r] \in {"none", "waiting"} => run[w].n < stalls[r]
       /\ stalls[r] = 0 => job[r] = "active"
       /\ run[w].step \in {"start", "work"} => row[r].visible
       /\ run[w].step = "start" => row[r].kind # "notification"
       /\ \A t \in Workers : Executes(t, r) /\ run[t].n = run[w].n => t = w

InTurn(r, n) == IF \E w \in Workers : Executes(w, r) /\ run[w].n = n THEN 1 ELSE 0

\* Turns that can still announce, and those that have, are no more than there were.
AnnouncedInTurn(r) ==
  row[r].announced + InTurn(r, 0) + InTurn(r, 1)
    + (IF job[r] \in {"none", "waiting"} THEN 1 ELSE 0) <= stalls[r] + 1

Open(r) == row[r].visible /\ ~row[r].deleted /\ row[r].status \in {"PENDING", "RUNNING"}

\* Somebody is still going to move the row on.
Pursued(r) ==
  excuse[r] = {} =>
    /\ job[r] = "active" => \E w \in Workers : Executes(w, r) /\ run[w].n = stalls[r]
    /\ submit[r] = "added" \/ (submit[r] = "done" /\ Open(r)) =>
         \/ job[r] \in {"waiting", "active"}
         \/ \E w \in Workers : Executes(w, r)
         \/ cancel[r] = "removed"

\* A job that was executed once, and removed while nobody executed it.
RemovedUnseen(r) ==
  stalls[r] = 0 =>
    /\ row[r].announced > 0 =>
         row[r].status \notin {"PENDING", "RUNNING"} /\ job[r] \in {"completed", "removed"}
    /\ ~late[r] /\ (cancel[r] = "removed" \/ row[r].deleted) => job[r] = "removed"
    /\ ~late[r] /\ row[r].deleted => row[r].announced = 0

JobInv(r) ==
  /\ RowFollowsSubmit(r) /\ ExecutionsTakeTurns(r) /\ AnnouncedInTurn(r)
  /\ Pursued(r) /\ RemovedUnseen(r)

JobsInv == JobsType /\ \A r \in Requests : JobInv(r)
LEMMA JobsInit == Jobs!Init => JobsInv
<1> SUFFICES ASSUME Jobs!Init PROVE JobsInv
  OBVIOUS
<1>1. JobsType
  BY DEF Jobs!Init, JobsType, JobRow, Jobs!NoRow
<1>2. ASSUME NEW r \in Requests PROVE JobInv(r)
  <2>1. \A w \in Workers : ~Executes(w, r)
    BY MCComplianceAssumption DEF Jobs!Init, Jobs!Free, Executes
  <2>2. /\ row[r] = Jobs!NoRow /\ submit[r] = "new" /\ job[r] = "none" /\ stalls[r] = 0
        /\ cancel[r] = "none"
    BY DEF Jobs!Init
  <2>3. RowFollowsSubmit(r) /\ ExecutionsTakeTurns(r) /\ Pursued(r) /\ RemovedUnseen(r)
    BY <2>1, <2>2, MCComplianceAssumption
    DEF RowFollowsSubmit, ExecutionsTakeTurns, Pursued, RemovedUnseen, Jobs!NoRow, Open
  <2>4. AnnouncedInTurn(r)
    BY <2>1, <2>2 DEF AnnouncedInTurn, InTurn, Jobs!NoRow
  <2> QED
    BY <2>3, <2>4 DEF JobInv
<1> QED
  BY <1>1, <1>2 DEF JobsInv

\* A step concerns one request.
LEMMA JobsAt ==
  ASSUME JobsInv, JobsType', NEW q \in Requests,
         \A r \in Requests \ {q} :
           /\ row'[r] = row[r] /\ submit'[r] = submit[r] /\ job'[r] = job[r]
           /\ stalls'[r] = stalls[r] /\ cancel'[r] = cancel[r] /\ late'[r] = late[r]
           /\ excuse'[r] = excuse[r],
         \A w \in Workers : run'[w] # run[w] => run[w].r \in {q, None} /\ run'[w].r \in {q, None},
         JobInv(q)'
  PROVE  JobsInv'
<1>1. ASSUME NEW r \in Requests \ {q} PROVE JobInv(r)'
  <2>1. \A w \in Workers : Executes(w, r)' <=> Executes(w, r)
    BY MCComplianceAssumption DEF Executes
  <2>2. \A w \in Workers : Executes(w, r) => run'[w] = run[w]
    BY MCComplianceAssumption DEF Executes
  <2>3. \A n : InTurn(r, n)' = InTurn(r, n)
    BY <2>1, <2>2 DEF InTurn
  <2>4. JobInv(r)
    BY DEF JobsInv
  <2>5. RowFollowsSubmit(r)' /\ ExecutionsTakeTurns(r)' /\ RemovedUnseen(r)'
    BY <2>1, <2>2, <2>4 DEF JobInv, RowFollowsSubmit, ExecutionsTakeTurns, RemovedUnseen
  <2>6. Pursued(r)'
    BY <2>1, <2>2, <2>4 DEF JobInv, Pursued, Open
  <2>7. AnnouncedInTurn(r)'
    BY <2>3, <2>4 DEF JobInv, AnnouncedInTurn
  <2> QED
    BY <2>5, <2>6, <2>7 DEF JobInv
<1> QED
  BY <1>1 DEF JobsInv

\* Steps that execute nothing.
LEMMA JobsStill ==
  ASSUME JobsInv, NEW q \in Requests, run' = run
  PROVE  /\ JobInv(q) /\ row[q] \in JobRow /\ JobInv(q)
         /\ \A w \in Workers : Executes(w, q)' <=> Executes(w, q)
         /\ InTurn(q, 0)' = InTurn(q, 0) /\ InTurn(q, 1)' = InTurn(q, 1)
         /\ InTurn(q, 0) \in {0, 1} /\ InTurn(q, 1) \in {0, 1}
         /\ row[q].announced \in Nat /\ stalls[q] \in {0, 1, 2}
         /\ \A w \in Workers : Executes(w, q) => run[w].n \in {0, 1}
<1>2. \A w \in Workers : Executes(w, q) => run[w].n \in {0, 1}
  BY MCComplianceAssumption DEF JobsInv, JobsType, Executes, Execution, Jobs!Free
<1>1. row[q].announced \in Nat
  BY DEF JobsInv, JobsType, JobRow
<1> QED
  BY <1>1, <1>2 DEF JobsInv, JobsType, Executes, InTurn

LEMMA JobsSubmit ==
  ASSUME JobsInv, NEW q \in Requests, NEW kind \in {"report", "ai", "notification"}, Jobs!Submit(q, kind)
  PROVE  JobsInv'
<1>1. /\ submit[q] = "new" /\ submit'[q] = "inserted"
      /\ row'[q].kind = kind /\ row'[q].status = "PENDING" /\ row'[q].announced = 0
      /\ ~row'[q].deleted /\ (row'[q].visible <=> kind = "notification")
      /\ UNCHANGED <<job, stalls, cancel, late, excuse>>
  BY DEF Jobs!Submit, JobsInv, JobsType, Jobs!Blame, Jobs!NoRow, Jobs!Cancellable, JobRow, Executes
<1>2. JobsType'
  <2>1. row' \in [Requests -> JobRow]
    <3>1. row[q] \in JobRow
      BY DEF JobsInv, JobsType
    <3>2. row'[q] \in JobRow
      BY <3>1 DEF Jobs!Submit, JobsInv, JobsType, Jobs!NoRow, Jobs!Cancellable, JobRow
    <3>3. row' = [row EXCEPT ![q] = row'[q]]
      BY DEF Jobs!Submit, JobsInv, JobsType
    <3> QED
      BY <3>2, <3>3 DEF JobsInv, JobsType
  <2>2. excuse' \in [Requests -> SUBSET Reasons]
    BY DEF Jobs!Submit, Jobs!Blame, JobsInv, JobsType, Reasons
  <2>3. run' = run
    BY DEF Jobs!Submit
  <2> QED
    BY <2>1, <2>2, <2>3 DEF Jobs!Submit, JobsInv, JobsType
<1>3. /\ run' = run
      /\ \A r \in Requests \ {q} :
           /\ row'[r] = row[r] /\ submit'[r] = submit[r] /\ job'[r] = job[r]
           /\ stalls'[r] = stalls[r] /\ cancel'[r] = cancel[r] /\ late'[r] = late[r]
           /\ excuse'[r] = excuse[r]
  BY DEF Jobs!Submit, JobsInv, JobsType, Jobs!Blame
<1>4. /\ JobInv(q) /\ row[q] \in JobRow
      /\ \A w \in Workers : Executes(w, q)' <=> Executes(w, q)
      /\ InTurn(q, 0)' = InTurn(q, 0) /\ InTurn(q, 1)' = InTurn(q, 1)
      /\ InTurn(q, 0) \in {0, 1} /\ InTurn(q, 1) \in {0, 1}
      /\ row[q].announced \in Nat /\ stalls[q] \in {0, 1, 2}
      /\ \A w \in Workers : Executes(w, q) => run[w].n \in {0, 1}
  BY <1>3, JobsStill
<1>5. RowFollowsSubmit(q)'
  BY <1>1, <1>3, <1>4 DEF JobInv, RowFollowsSubmit, Jobs!NoRow
<1>6. ExecutionsTakeTurns(q)'
  BY <1>1, <1>3, <1>4 DEF JobInv, RowFollowsSubmit, ExecutionsTakeTurns
<1>7. Pursued(q)'
  BY <1>1, <1>3, <1>4 DEF JobInv, RowFollowsSubmit, Pursued, Open
<1>8. RemovedUnseen(q)'
  BY <1>1, <1>3, <1>4 DEF JobInv, RowFollowsSubmit, ExecutionsTakeTurns, RemovedUnseen, Executes, Jobs!NoRow
<1>9. AnnouncedInTurn(q)'
  BY <1>1, <1>3, <1>4 DEF JobInv, AnnouncedInTurn, RowFollowsSubmit, Jobs!NoRow
<1>10. JobInv(q)'
  BY <1>5, <1>6, <1>7, <1>8, <1>9 DEF JobInv
<1> QED
  BY <1>2, <1>3, <1>10, JobsAt

LEMMA JobsAddJob ==
  ASSUME JobsInv, NEW q \in Requests, Jobs!AddJob(q)
  PROVE  JobsInv'
<1>1. /\ submit[q] = "inserted" /\ job'[q] = "waiting"
      /\ submit'[q] = IF row[q].visible THEN "done" ELSE "added"
      /\ UNCHANGED <<row, stalls, cancel, late, excuse>>
  BY DEF Jobs!AddJob, JobsInv, JobsType, Jobs!Blame, Jobs!NoRow, Jobs!Cancellable, JobRow, Executes
<1>2. JobsType'
  <2>1. row' \in [Requests -> JobRow]
    <3>1. row[q] \in JobRow
      BY DEF JobsInv, JobsType
    <3>2. row'[q] \in JobRow
      BY <3>1 DEF Jobs!AddJob, JobsInv, JobsType, Jobs!NoRow, Jobs!Cancellable, JobRow
    <3>3. row' = [row EXCEPT ![q] = row'[q]]
      BY DEF Jobs!AddJob, JobsInv, JobsType
    <3> QED
      BY <3>2, <3>3 DEF JobsInv, JobsType
  <2>2. excuse' \in [Requests -> SUBSET Reasons]
    BY DEF Jobs!AddJob, Jobs!Blame, JobsInv, JobsType, Reasons
  <2>3. run' = run
    BY DEF Jobs!AddJob
  <2> QED
    BY <2>1, <2>2, <2>3 DEF Jobs!AddJob, JobsInv, JobsType
<1>3. /\ run' = run
      /\ \A r \in Requests \ {q} :
           /\ row'[r] = row[r] /\ submit'[r] = submit[r] /\ job'[r] = job[r]
           /\ stalls'[r] = stalls[r] /\ cancel'[r] = cancel[r] /\ late'[r] = late[r]
           /\ excuse'[r] = excuse[r]
  BY DEF Jobs!AddJob, JobsInv, JobsType, Jobs!Blame
<1>4. /\ JobInv(q) /\ row[q] \in JobRow
      /\ \A w \in Workers : Executes(w, q)' <=> Executes(w, q)
      /\ InTurn(q, 0)' = InTurn(q, 0) /\ InTurn(q, 1)' = InTurn(q, 1)
      /\ InTurn(q, 0) \in {0, 1} /\ InTurn(q, 1) \in {0, 1}
      /\ row[q].announced \in Nat /\ stalls[q] \in {0, 1, 2}
      /\ \A w \in Workers : Executes(w, q) => run[w].n \in {0, 1}
  BY <1>3, JobsStill
<1>5. RowFollowsSubmit(q)'
  BY <1>1, <1>3, <1>4 DEF JobInv, RowFollowsSubmit, Jobs!NoRow
<1>6. ExecutionsTakeTurns(q)'
  BY <1>1, <1>3, <1>4 DEF JobInv, RowFollowsSubmit, ExecutionsTakeTurns
<1>7. Pursued(q)'
  BY <1>1, <1>3, <1>4 DEF JobInv, RowFollowsSubmit, Pursued, Open
<1>8. RemovedUnseen(q)'
  BY <1>1, <1>3, <1>4 DEF JobInv, RowFollowsSubmit, ExecutionsTakeTurns, RemovedUnseen, Executes, Jobs!NoRow
<1>9. AnnouncedInTurn(q)'
  BY <1>1, <1>3, <1>4 DEF JobInv, AnnouncedInTurn, RowFollowsSubmit, Jobs!NoRow
<1>10. JobInv(q)'
  BY <1>5, <1>6, <1>7, <1>8, <1>9 DEF JobInv
<1> QED
  BY <1>2, <1>3, <1>10, JobsAt

LEMMA JobsCommit ==
  ASSUME JobsInv, NEW q \in Requests, Jobs!Commit(q)
  PROVE  JobsInv'
<1>1. /\ submit[q] = "added" /\ submit'[q] = "done" /\ row'[q].visible
      /\ row'[q].kind = row[q].kind /\ row'[q].status = row[q].status
      /\ row'[q].announced = row[q].announced /\ row'[q].deleted = row[q].deleted
      /\ UNCHANGED <<job, stalls, cancel, late, excuse>>
  BY DEF Jobs!Commit, JobsInv, JobsType, Jobs!Blame, Jobs!NoRow, Jobs!Cancellable, JobRow, Executes
<1>2. JobsType'
  <2>1. row' \in [Requests -> JobRow]
    <3>1. row[q] \in JobRow
      BY DEF JobsInv, JobsType
    <3>2. row'[q] \in JobRow
      BY <3>1 DEF Jobs!Commit, JobsInv, JobsType, Jobs!NoRow, Jobs!Cancellable, JobRow
    <3>3. row' = [row EXCEPT ![q] = row'[q]]
      BY DEF Jobs!Commit, JobsInv, JobsType
    <3> QED
      BY <3>2, <3>3 DEF JobsInv, JobsType
  <2>2. excuse' \in [Requests -> SUBSET Reasons]
    BY DEF Jobs!Commit, Jobs!Blame, JobsInv, JobsType, Reasons
  <2>3. run' = run
    BY DEF Jobs!Commit
  <2> QED
    BY <2>1, <2>2, <2>3 DEF Jobs!Commit, JobsInv, JobsType
<1>3. /\ run' = run
      /\ \A r \in Requests \ {q} :
           /\ row'[r] = row[r] /\ submit'[r] = submit[r] /\ job'[r] = job[r]
           /\ stalls'[r] = stalls[r] /\ cancel'[r] = cancel[r] /\ late'[r] = late[r]
           /\ excuse'[r] = excuse[r]
  BY DEF Jobs!Commit, JobsInv, JobsType, Jobs!Blame
<1>4. /\ JobInv(q) /\ row[q] \in JobRow
      /\ \A w \in Workers : Executes(w, q)' <=> Executes(w, q)
      /\ InTurn(q, 0)' = InTurn(q, 0) /\ InTurn(q, 1)' = InTurn(q, 1)
      /\ InTurn(q, 0) \in {0, 1} /\ InTurn(q, 1) \in {0, 1}
      /\ row[q].announced \in Nat /\ stalls[q] \in {0, 1, 2}
      /\ \A w \in Workers : Executes(w, q) => run[w].n \in {0, 1}
  BY <1>3, JobsStill
<1>5. RowFollowsSubmit(q)'
  BY <1>1, <1>3, <1>4 DEF JobInv, RowFollowsSubmit, Jobs!NoRow
<1>6. ExecutionsTakeTurns(q)'
  BY <1>1, <1>3, <1>4 DEF JobInv, RowFollowsSubmit, ExecutionsTakeTurns
<1>7. Pursued(q)'
  BY <1>1, <1>3, <1>4 DEF JobInv, RowFollowsSubmit, Pursued, Open
<1>8. RemovedUnseen(q)'
  BY <1>1, <1>3, <1>4 DEF JobInv, RowFollowsSubmit, ExecutionsTakeTurns, RemovedUnseen, Executes, Jobs!NoRow
<1>9. AnnouncedInTurn(q)'
  BY <1>1, <1>3, <1>4 DEF JobInv, AnnouncedInTurn, RowFollowsSubmit, Jobs!NoRow
<1>10. JobInv(q)'
  BY <1>5, <1>6, <1>7, <1>8, <1>9 DEF JobInv
<1> QED
  BY <1>2, <1>3, <1>10, JobsAt

LEMMA JobsSubmitFails ==
  ASSUME JobsInv, NEW q \in Requests, Jobs!SubmitFails(q)
  PROVE  JobsInv'
<1>1. /\ submit[q] \in {"inserted", "added"} /\ submit'[q] = "done"
      /\ row'[q] = IF row[q].visible THEN row[q] ELSE Jobs!NoRow
      /\ excuse'[q] # {} /\ UNCHANGED <<job, stalls, cancel, late>>
  BY DEF Jobs!SubmitFails, JobsInv, JobsType, Jobs!Blame, Jobs!NoRow, Jobs!Cancellable, JobRow, Executes
<1>2. JobsType'
  <2>1. row' \in [Requests -> JobRow]
    <3>1. row[q] \in JobRow
      BY DEF JobsInv, JobsType
    <3>2. row'[q] \in JobRow
      BY <3>1 DEF Jobs!SubmitFails, JobsInv, JobsType, Jobs!NoRow, Jobs!Cancellable, JobRow
    <3>3. row' = [row EXCEPT ![q] = row'[q]]
      BY DEF Jobs!SubmitFails, JobsInv, JobsType
    <3> QED
      BY <3>2, <3>3 DEF JobsInv, JobsType
  <2>2. excuse' \in [Requests -> SUBSET Reasons]
    BY DEF Jobs!SubmitFails, Jobs!Blame, JobsInv, JobsType, Reasons
  <2>3. run' = run
    BY DEF Jobs!SubmitFails
  <2> QED
    BY <2>1, <2>2, <2>3 DEF Jobs!SubmitFails, JobsInv, JobsType
<1>3. /\ run' = run
      /\ \A r \in Requests \ {q} :
           /\ row'[r] = row[r] /\ submit'[r] = submit[r] /\ job'[r] = job[r]
           /\ stalls'[r] = stalls[r] /\ cancel'[r] = cancel[r] /\ late'[r] = late[r]
           /\ excuse'[r] = excuse[r]
  BY DEF Jobs!SubmitFails, JobsInv, JobsType, Jobs!Blame
<1>4. /\ JobInv(q) /\ row[q] \in JobRow
      /\ \A w \in Workers : Executes(w, q)' <=> Executes(w, q)
      /\ InTurn(q, 0)' = InTurn(q, 0) /\ InTurn(q, 1)' = InTurn(q, 1)
      /\ InTurn(q, 0) \in {0, 1} /\ InTurn(q, 1) \in {0, 1}
      /\ row[q].announced \in Nat /\ stalls[q] \in {0, 1, 2}
      /\ \A w \in Workers : Executes(w, q) => run[w].n \in {0, 1}
  BY <1>3, JobsStill
<1>5. RowFollowsSubmit(q)'
  BY <1>1, <1>3, <1>4 DEF JobInv, RowFollowsSubmit, Jobs!NoRow
<1>6. ExecutionsTakeTurns(q)'
  BY <1>1, <1>3, <1>4 DEF JobInv, RowFollowsSubmit, ExecutionsTakeTurns
<1>7. Pursued(q)'
  BY <1>1, <1>3, <1>4 DEF JobInv, RowFollowsSubmit, Pursued, Open
<1>8. RemovedUnseen(q)'
  BY <1>1, <1>3, <1>4 DEF JobInv, RowFollowsSubmit, ExecutionsTakeTurns, RemovedUnseen, Executes, Jobs!NoRow
<1>9. AnnouncedInTurn(q)'
  BY <1>1, <1>3, <1>4 DEF JobInv, AnnouncedInTurn, RowFollowsSubmit, Jobs!NoRow
<1>10. JobInv(q)'
  BY <1>5, <1>6, <1>7, <1>8, <1>9 DEF JobInv
<1> QED
  BY <1>2, <1>3, <1>10, JobsAt

LEMMA JobsStall ==
  ASSUME JobsInv, NEW q \in Requests, Jobs!Stall(q)
  PROVE  JobsInv'
<1>1. /\ job[q] = "active" /\ stalls[q] < 2 /\ stalls'[q] = stalls[q] + 1
      /\ job'[q] = IF stalls[q] = 0 THEN "waiting" ELSE "failed"
      /\ UNCHANGED <<row, submit, cancel, late, excuse>>
  BY DEF Jobs!Stall, JobsInv, JobsType, Jobs!Blame, Jobs!NoRow, Jobs!Cancellable, JobRow, Executes
<1>2. JobsType'
  <2>1. row' \in [Requests -> JobRow]
    <3>1. row[q] \in JobRow
      BY DEF JobsInv, JobsType
    <3>2. row'[q] \in JobRow
      BY <3>1 DEF Jobs!Stall, JobsInv, JobsType, Jobs!NoRow, Jobs!Cancellable, JobRow
    <3>3. row' = [row EXCEPT ![q] = row'[q]]
      BY DEF Jobs!Stall, JobsInv, JobsType
    <3> QED
      BY <3>2, <3>3 DEF JobsInv, JobsType
  <2>2. excuse' \in [Requests -> SUBSET Reasons]
    BY DEF Jobs!Stall, Jobs!Blame, JobsInv, JobsType, Reasons
  <2>3. run' = run
    BY DEF Jobs!Stall
  <2> QED
    BY <2>1, <2>2, <2>3 DEF Jobs!Stall, JobsInv, JobsType
<1>3. /\ run' = run
      /\ \A r \in Requests \ {q} :
           /\ row'[r] = row[r] /\ submit'[r] = submit[r] /\ job'[r] = job[r]
           /\ stalls'[r] = stalls[r] /\ cancel'[r] = cancel[r] /\ late'[r] = late[r]
           /\ excuse'[r] = excuse[r]
  BY DEF Jobs!Stall, JobsInv, JobsType, Jobs!Blame
<1>4. /\ JobInv(q) /\ row[q] \in JobRow
      /\ \A w \in Workers : Executes(w, q)' <=> Executes(w, q)
      /\ InTurn(q, 0)' = InTurn(q, 0) /\ InTurn(q, 1)' = InTurn(q, 1)
      /\ InTurn(q, 0) \in {0, 1} /\ InTurn(q, 1) \in {0, 1}
      /\ row[q].announced \in Nat /\ stalls[q] \in {0, 1, 2}
      /\ \A w \in Workers : Executes(w, q) => run[w].n \in {0, 1}
  BY <1>3, JobsStill
<1>5. RowFollowsSubmit(q)'
  BY <1>1, <1>3, <1>4 DEF JobInv, RowFollowsSubmit, Jobs!NoRow
<1>6. ExecutionsTakeTurns(q)'
  BY <1>1, <1>3, <1>4 DEF JobInv, RowFollowsSubmit, ExecutionsTakeTurns
<1>7. Pursued(q)'
  BY <1>1, <1>3, <1>4 DEF JobInv, RowFollowsSubmit, Pursued, Open
<1>8. RemovedUnseen(q)'
  BY <1>1, <1>3, <1>4 DEF JobInv, RowFollowsSubmit, ExecutionsTakeTurns, RemovedUnseen, Executes, Jobs!NoRow
<1>9. AnnouncedInTurn(q)'
  BY <1>1, <1>3, <1>4 DEF JobInv, AnnouncedInTurn, RowFollowsSubmit, Jobs!NoRow
<1>10. JobInv(q)'
  BY <1>5, <1>6, <1>7, <1>8, <1>9 DEF JobInv
<1> QED
  BY <1>2, <1>3, <1>10, JobsAt

LEMMA JobsMarkRead ==
  ASSUME JobsInv, NEW q \in Requests, Jobs!MarkRead(q)
  PROVE  JobsInv'
<1>1. /\ row[q].visible /\ row[q].kind = "notification" /\ row'[q].status = "READ"
      /\ row'[q].visible /\ row'[q].kind = row[q].kind
      /\ row'[q].announced = row[q].announced /\ row'[q].deleted = row[q].deleted
      /\ UNCHANGED <<submit, job, stalls, cancel, late, excuse>>
  BY DEF Jobs!MarkRead, JobsInv, JobsType, Jobs!Blame, Jobs!NoRow, Jobs!Cancellable, JobRow, Executes
<1>2. JobsType'
  <2>1. row' \in [Requests -> JobRow]
    <3>1. row[q] \in JobRow
      BY DEF JobsInv, JobsType
    <3>2. row'[q] \in JobRow
      BY <3>1 DEF Jobs!MarkRead, JobsInv, JobsType, Jobs!NoRow, Jobs!Cancellable, JobRow
    <3>3. row' = [row EXCEPT ![q] = row'[q]]
      BY DEF Jobs!MarkRead, JobsInv, JobsType
    <3> QED
      BY <3>2, <3>3 DEF JobsInv, JobsType
  <2>2. excuse' \in [Requests -> SUBSET Reasons]
    BY DEF Jobs!MarkRead, Jobs!Blame, JobsInv, JobsType, Reasons
  <2>3. run' = run
    BY DEF Jobs!MarkRead
  <2> QED
    BY <2>1, <2>2, <2>3 DEF Jobs!MarkRead, JobsInv, JobsType
<1>3. /\ run' = run
      /\ \A r \in Requests \ {q} :
           /\ row'[r] = row[r] /\ submit'[r] = submit[r] /\ job'[r] = job[r]
           /\ stalls'[r] = stalls[r] /\ cancel'[r] = cancel[r] /\ late'[r] = late[r]
           /\ excuse'[r] = excuse[r]
  BY DEF Jobs!MarkRead, JobsInv, JobsType, Jobs!Blame
<1>4. /\ JobInv(q) /\ row[q] \in JobRow
      /\ \A w \in Workers : Executes(w, q)' <=> Executes(w, q)
      /\ InTurn(q, 0)' = InTurn(q, 0) /\ InTurn(q, 1)' = InTurn(q, 1)
      /\ InTurn(q, 0) \in {0, 1} /\ InTurn(q, 1) \in {0, 1}
      /\ row[q].announced \in Nat /\ stalls[q] \in {0, 1, 2}
      /\ \A w \in Workers : Executes(w, q) => run[w].n \in {0, 1}
  BY <1>3, JobsStill
<1>5. RowFollowsSubmit(q)'
  BY <1>1, <1>3, <1>4 DEF JobInv, RowFollowsSubmit, Jobs!NoRow
<1>6. ExecutionsTakeTurns(q)'
  BY <1>1, <1>3, <1>4 DEF JobInv, RowFollowsSubmit, ExecutionsTakeTurns
<1>7. Pursued(q)'
  BY <1>1, <1>3, <1>4 DEF JobInv, RowFollowsSubmit, Pursued, Open
<1>8. RemovedUnseen(q)'
  BY <1>1, <1>3, <1>4 DEF JobInv, RowFollowsSubmit, ExecutionsTakeTurns, RemovedUnseen, Executes, Jobs!NoRow
<1>9. AnnouncedInTurn(q)'
  BY <1>1, <1>3, <1>4 DEF JobInv, AnnouncedInTurn, RowFollowsSubmit, Jobs!NoRow
<1>10. JobInv(q)'
  BY <1>5, <1>6, <1>7, <1>8, <1>9 DEF JobInv
<1> QED
  BY <1>2, <1>3, <1>10, JobsAt

LEMMA JobsCancel ==
  ASSUME JobsInv, NEW q \in Requests, Jobs!Cancel(q)
  PROVE  JobsInv'
<1>1. /\ cancel[q] = "none" /\ cancel'[q] = "checked"
      /\ row[q].kind = "report" /\ row[q].visible
      /\ UNCHANGED <<row, submit, job, stalls, late, excuse>>
  BY DEF Jobs!Cancel, JobsInv, JobsType, Jobs!Blame, Jobs!NoRow, Jobs!Cancellable, JobRow, Executes
<1>2. JobsType'
  <2>1. row' \in [Requests -> JobRow]
    <3>1. row[q] \in JobRow
      BY DEF JobsInv, JobsType
    <3>2. row'[q] \in JobRow
      BY <3>1 DEF Jobs!Cancel, JobsInv, JobsType, Jobs!NoRow, Jobs!Cancellable, JobRow
    <3>3. row' = [row EXCEPT ![q] = row'[q]]
      BY DEF Jobs!Cancel, JobsInv, JobsType
    <3> QED
      BY <3>2, <3>3 DEF JobsInv, JobsType
  <2>2. excuse' \in [Requests -> SUBSET Reasons]
    BY DEF Jobs!Cancel, Jobs!Blame, JobsInv, JobsType, Reasons
  <2>3. run' = run
    BY DEF Jobs!Cancel
  <2> QED
    BY <2>1, <2>2, <2>3 DEF Jobs!Cancel, JobsInv, JobsType
<1>3. /\ run' = run
      /\ \A r \in Requests \ {q} :
           /\ row'[r] = row[r] /\ submit'[r] = submit[r] /\ job'[r] = job[r]
           /\ stalls'[r] = stalls[r] /\ cancel'[r] = cancel[r] /\ late'[r] = late[r]
           /\ excuse'[r] = excuse[r]
  BY DEF Jobs!Cancel, JobsInv, JobsType, Jobs!Blame
<1>4. /\ JobInv(q) /\ row[q] \in JobRow
      /\ \A w \in Workers : Executes(w, q)' <=> Executes(w, q)
      /\ InTurn(q, 0)' = InTurn(q, 0) /\ InTurn(q, 1)' = InTurn(q, 1)
      /\ InTurn(q, 0) \in {0, 1} /\ InTurn(q, 1) \in {0, 1}
      /\ row[q].announced \in Nat /\ stalls[q] \in {0, 1, 2}
      /\ \A w \in Workers : Executes(w, q) => run[w].n \in {0, 1}
  BY <1>3, JobsStill
<1>5. RowFollowsSubmit(q)'
  BY <1>1, <1>3, <1>4 DEF JobInv, RowFollowsSubmit, Jobs!NoRow
<1>6. ExecutionsTakeTurns(q)'
  BY <1>1, <1>3, <1>4 DEF JobInv, RowFollowsSubmit, ExecutionsTakeTurns
<1>7. Pursued(q)'
  BY <1>1, <1>3, <1>4 DEF JobInv, RowFollowsSubmit, Pursued, Open
<1>8. RemovedUnseen(q)'
  BY <1>1, <1>3, <1>4 DEF JobInv, RowFollowsSubmit, ExecutionsTakeTurns, RemovedUnseen, Executes, Jobs!NoRow
<1>9. AnnouncedInTurn(q)'
  BY <1>1, <1>3, <1>4 DEF JobInv, AnnouncedInTurn, RowFollowsSubmit, Jobs!NoRow
<1>10. JobInv(q)'
  BY <1>5, <1>6, <1>7, <1>8, <1>9 DEF JobInv
<1> QED
  BY <1>2, <1>3, <1>10, JobsAt

LEMMA JobsRemoveJob ==
  ASSUME JobsInv, NEW q \in Requests, Jobs!RemoveJob(q)
  PROVE  JobsInv'
<1>1. /\ cancel[q] = "checked" /\ cancel'[q] = "removed"
      /\ job'[q] = IF job[q] = "active" THEN "active" ELSE "removed"
      /\ ~late'[q] => ~late[q] /\ job[q] # "active" /\ \A w \in Workers : ~Executes(w, q)
      /\ UNCHANGED <<row, submit, stalls, excuse>>
  BY DEF Jobs!RemoveJob, JobsInv, JobsType, Jobs!Blame, Jobs!NoRow, Jobs!Cancellable, JobRow, Executes
<1>2. JobsType'
  <2>1. row' \in [Requests -> JobRow]
    <3>1. row[q] \in JobRow
      BY DEF JobsInv, JobsType
    <3>2. row'[q] \in JobRow
      BY <3>1 DEF Jobs!RemoveJob, JobsInv, JobsType, Jobs!NoRow, Jobs!Cancellable, JobRow
    <3>3. row' = [row EXCEPT ![q] = row'[q]]
      BY DEF Jobs!RemoveJob, JobsInv, JobsType
    <3> QED
      BY <3>2, <3>3 DEF JobsInv, JobsType
  <2>2. excuse' \in [Requests -> SUBSET Reasons]
    BY DEF Jobs!RemoveJob, Jobs!Blame, JobsInv, JobsType, Reasons
  <2>3. run' = run
    BY DEF Jobs!RemoveJob
  <2> QED
    BY <2>1, <2>2, <2>3 DEF Jobs!RemoveJob, JobsInv, JobsType
<1>3. /\ run' = run
      /\ \A r \in Requests \ {q} :
           /\ row'[r] = row[r] /\ submit'[r] = submit[r] /\ job'[r] = job[r]
           /\ stalls'[r] = stalls[r] /\ cancel'[r] = cancel[r] /\ late'[r] = late[r]
           /\ excuse'[r] = excuse[r]
  BY DEF Jobs!RemoveJob, JobsInv, JobsType, Jobs!Blame
<1>4. /\ JobInv(q) /\ row[q] \in JobRow
      /\ \A w \in Workers : Executes(w, q)' <=> Executes(w, q)
      /\ InTurn(q, 0)' = InTurn(q, 0) /\ InTurn(q, 1)' = InTurn(q, 1)
      /\ InTurn(q, 0) \in {0, 1} /\ InTurn(q, 1) \in {0, 1}
      /\ row[q].announced \in Nat /\ stalls[q] \in {0, 1, 2}
      /\ \A w \in Workers : Executes(w, q) => run[w].n \in {0, 1}
  BY <1>3, JobsStill
<1>5. RowFollowsSubmit(q)'
  BY <1>1, <1>3, <1>4 DEF JobInv, RowFollowsSubmit, Jobs!NoRow
<1>6. ExecutionsTakeTurns(q)'
  BY <1>1, <1>3, <1>4 DEF JobInv, RowFollowsSubmit, ExecutionsTakeTurns
<1>7. Pursued(q)'
  BY <1>1, <1>3, <1>4 DEF JobInv, RowFollowsSubmit, Pursued, Open
<1>8. RemovedUnseen(q)'
  BY <1>1, <1>3, <1>4 DEF JobInv, RowFollowsSubmit, ExecutionsTakeTurns, RemovedUnseen, Executes, Jobs!NoRow
<1>9. AnnouncedInTurn(q)'
  BY <1>1, <1>3, <1>4 DEF JobInv, AnnouncedInTurn, RowFollowsSubmit, Jobs!NoRow
<1>10. JobInv(q)'
  BY <1>5, <1>6, <1>7, <1>8, <1>9 DEF JobInv
<1> QED
  BY <1>2, <1>3, <1>10, JobsAt

LEMMA JobsMarkCancelled ==
  ASSUME JobsInv, NEW q \in Requests, Jobs!MarkCancelled(q)
  PROVE  JobsInv'
<1>1. /\ cancel[q] = "removed" /\ cancel'[q] = "none"
      /\ (row'[q].deleted <=> row[q].deleted \/ row[q].status \in {"PENDING", "RUNNING"})
      /\ row'[q].kind = row[q].kind /\ row'[q].status = row[q].status
      /\ row'[q].announced = row[q].announced /\ row'[q].visible = row[q].visible
      /\ UNCHANGED <<submit, job, stalls, late, excuse>>
  <2>1. row'[q].deleted = (row[q].deleted \/ row[q].status \in {"PENDING", "RUNNING"})
    BY DEF Jobs!MarkCancelled, Jobs!Cancellable, JobsInv, JobsType, JobRow
  <2>2. cancel[q] = "removed" /\ cancel'[q] = "none"
        /\ row'[q].kind = row[q].kind /\ row'[q].status = row[q].status
        /\ row'[q].announced = row[q].announced /\ row'[q].visible = row[q].visible
        /\ UNCHANGED <<submit, job, stalls, late, excuse>>
    BY DEF Jobs!MarkCancelled, JobsInv, JobsType, JobRow
  <2> QED
    BY <2>1, <2>2
<1>2. JobsType'
  <2>1. row' \in [Requests -> JobRow]
    <3>1. row[q] \in JobRow
      BY DEF JobsInv, JobsType
    <3>2. row'[q] \in JobRow
      BY <3>1 DEF Jobs!MarkCancelled, JobsInv, JobsType, Jobs!NoRow, Jobs!Cancellable, JobRow
    <3>3. row' = [row EXCEPT ![q] = row'[q]]
      BY DEF Jobs!MarkCancelled, JobsInv, JobsType
    <3> QED
      BY <3>2, <3>3 DEF JobsInv, JobsType
  <2>2. excuse' \in [Requests -> SUBSET Reasons]
    BY DEF Jobs!MarkCancelled, Jobs!Blame, JobsInv, JobsType, Reasons
  <2>3. run' = run
    BY DEF Jobs!MarkCancelled
  <2> QED
    BY <2>1, <2>2, <2>3 DEF Jobs!MarkCancelled, JobsInv, JobsType
<1>3. /\ run' = run
      /\ \A r \in Requests \ {q} :
           /\ row'[r] = row[r] /\ submit'[r] = submit[r] /\ job'[r] = job[r]
           /\ stalls'[r] = stalls[r] /\ cancel'[r] = cancel[r] /\ late'[r] = late[r]
           /\ excuse'[r] = excuse[r]
  BY DEF Jobs!MarkCancelled, JobsInv, JobsType, Jobs!Blame
<1>4. /\ JobInv(q) /\ row[q] \in JobRow
      /\ \A w \in Workers : Executes(w, q)' <=> Executes(w, q)
      /\ InTurn(q, 0)' = InTurn(q, 0) /\ InTurn(q, 1)' = InTurn(q, 1)
      /\ InTurn(q, 0) \in {0, 1} /\ InTurn(q, 1) \in {0, 1}
      /\ row[q].announced \in Nat /\ stalls[q] \in {0, 1, 2}
      /\ \A w \in Workers : Executes(w, q) => run[w].n \in {0, 1}
  BY <1>3, JobsStill
<1>5. RowFollowsSubmit(q)'
  BY <1>1, <1>3, <1>4 DEF JobInv, RowFollowsSubmit, Jobs!NoRow
<1>6. ExecutionsTakeTurns(q)'
  BY <1>1, <1>3, <1>4 DEF JobInv, RowFollowsSubmit, ExecutionsTakeTurns
<1>7. Pursued(q)'
  BY <1>1, <1>3, <1>4 DEF JobInv, RowFollowsSubmit, Pursued, Open
<1>8. RemovedUnseen(q)'
  BY <1>1, <1>3, <1>4 DEF JobInv, RowFollowsSubmit, ExecutionsTakeTurns, RemovedUnseen, Executes, Jobs!NoRow
<1>9. AnnouncedInTurn(q)'
  BY <1>1, <1>3, <1>4 DEF JobInv, AnnouncedInTurn, RowFollowsSubmit, Jobs!NoRow
<1>10. JobInv(q)'
  BY <1>5, <1>6, <1>7, <1>8, <1>9 DEF JobInv
<1> QED
  BY <1>2, <1>3, <1>10, JobsAt

LEMMA JobsCancelFails ==
  ASSUME JobsInv, NEW q \in Requests, Jobs!CancelFails(q)
  PROVE  JobsInv'
<1>1. /\ cancel[q] # "none" /\ cancel'[q] = "none" /\ excuse'[q] # {}
      /\ UNCHANGED <<row, submit, job, stalls, late>>
  BY DEF Jobs!CancelFails, JobsInv, JobsType, Jobs!Blame, Jobs!NoRow, Jobs!Cancellable, JobRow, Executes
<1>2. JobsType'
  <2>1. row' \in [Requests -> JobRow]
    <3>1. row[q] \in JobRow
      BY DEF JobsInv, JobsType
    <3>2. row'[q] \in JobRow
      BY <3>1 DEF Jobs!CancelFails, JobsInv, JobsType, Jobs!NoRow, Jobs!Cancellable, JobRow
    <3>3. row' = [row EXCEPT ![q] = row'[q]]
      BY DEF Jobs!CancelFails, JobsInv, JobsType
    <3> QED
      BY <3>2, <3>3 DEF JobsInv, JobsType
  <2>2. excuse' \in [Requests -> SUBSET Reasons]
    BY DEF Jobs!CancelFails, Jobs!Blame, JobsInv, JobsType, Reasons
  <2>3. run' = run
    BY DEF Jobs!CancelFails
  <2> QED
    BY <2>1, <2>2, <2>3 DEF Jobs!CancelFails, JobsInv, JobsType
<1>3. /\ run' = run
      /\ \A r \in Requests \ {q} :
           /\ row'[r] = row[r] /\ submit'[r] = submit[r] /\ job'[r] = job[r]
           /\ stalls'[r] = stalls[r] /\ cancel'[r] = cancel[r] /\ late'[r] = late[r]
           /\ excuse'[r] = excuse[r]
  BY DEF Jobs!CancelFails, JobsInv, JobsType, Jobs!Blame
<1>4. /\ JobInv(q) /\ row[q] \in JobRow
      /\ \A w \in Workers : Executes(w, q)' <=> Executes(w, q)
      /\ InTurn(q, 0)' = InTurn(q, 0) /\ InTurn(q, 1)' = InTurn(q, 1)
      /\ InTurn(q, 0) \in {0, 1} /\ InTurn(q, 1) \in {0, 1}
      /\ row[q].announced \in Nat /\ stalls[q] \in {0, 1, 2}
      /\ \A w \in Workers : Executes(w, q) => run[w].n \in {0, 1}
  BY <1>3, JobsStill
<1>5. RowFollowsSubmit(q)'
  BY <1>1, <1>3, <1>4 DEF JobInv, RowFollowsSubmit, Jobs!NoRow
<1>6. ExecutionsTakeTurns(q)'
  BY <1>1, <1>3, <1>4 DEF JobInv, RowFollowsSubmit, ExecutionsTakeTurns
<1>7. Pursued(q)'
  BY <1>1, <1>3, <1>4 DEF JobInv, RowFollowsSubmit, Pursued, Open
<1>8. RemovedUnseen(q)'
  BY <1>1, <1>3, <1>4 DEF JobInv, RowFollowsSubmit, ExecutionsTakeTurns, RemovedUnseen, Executes, Jobs!NoRow
<1>9. AnnouncedInTurn(q)'
  BY <1>1, <1>3, <1>4 DEF JobInv, AnnouncedInTurn, RowFollowsSubmit, Jobs!NoRow
<1>10. JobInv(q)'
  BY <1>5, <1>6, <1>7, <1>8, <1>9 DEF JobInv
<1> QED
  BY <1>2, <1>3, <1>10, JobsAt


\* A worker that is not free executes one of the requests.
LEMMA JobsRunning ==
  ASSUME JobsInv, NEW w \in Workers, run[w] # Jobs!Free
  PROVE  /\ run[w] \in Execution /\ run[w].r \in Requests /\ Executes(w, run[w].r)
         /\ run[w].n \in {0, 1} /\ InTurn(run[w].r, run[w].n) = 1
         /\ JobInv(run[w].r) /\ row[run[w].r] \in JobRow
<1>1. run[w] \in Execution
  BY DEF JobsInv, JobsType
<1>2. run[w].r \in Requests /\ run[w].n \in {0, 1} /\ Executes(w, run[w].r)
  BY <1>1 DEF Execution, Executes
<1> QED
  BY <1>1, <1>2 DEF JobsInv, JobsType, InTurn

\* What becomes of the executions of a request when one of them is over.
LEMMA TurnEnds ==
  ASSUME JobsInv, NEW w \in Workers, run[w] # Jobs!Free, NEW q \in Requests, q = run[w].r,
         run' = [run EXCEPT ![w] = Jobs!Free]
  PROVE  /\ run' \in [Workers -> Execution \cup {Jobs!Free}]
         /\ \A t \in Workers : t # w => run'[t] = run[t]
         /\ run'[w] = Jobs!Free
         /\ \A t \in Workers : Executes(t, q)' <=> t # w /\ Executes(t, q)
         /\ \A n \in {0, 1} : InTurn(q, n)' = IF n = run[w].n THEN 0 ELSE InTurn(q, n)
<1>1. Executes(w, q) /\ JobInv(q)
  BY JobsRunning
<1>2. /\ run' \in [Workers -> Execution \cup {Jobs!Free}]
      /\ \A t \in Workers : t # w => run'[t] = run[t]
      /\ run'[w] = Jobs!Free
  BY DEF JobsInv, JobsType
<1>3. \A t \in Workers : (run'[t].r = q) <=> t # w /\ run[t].r = q
  BY <1>1, <1>2, MCComplianceAssumption DEF Jobs!Free
<1>4. ASSUME NEW n \in {0, 1} PROVE InTurn(q, n)' = IF n = run[w].n THEN 0 ELSE InTurn(q, n)
  <2>1. CASE n = run[w].n
    <3>1. \A t \in Workers : run[t].r = q /\ run[t].n = n => t = w
      BY <1>1, <2>1 DEF JobInv, ExecutionsTakeTurns, Executes
    <3>2. ~\E t \in Workers : run'[t].r = q /\ run'[t].n = n
      BY <1>2, <1>3, <3>1
    <3>3. run'[w].r = Jobs!Free.r
      BY <1>2
    <3> QED
      BY <2>1, <3>2 DEF InTurn, Executes
  <2>2. CASE n # run[w].n
    <3>1. (\E t \in Workers : run'[t].r = q /\ run'[t].n = n) <=> (\E t \in Workers : run[t].r = q /\ run[t].n = n)
      BY <1>2, <1>3, <2>2
    <3> QED
      BY <2>2, <3>1 DEF InTurn, Executes
  <2> QED
    BY <2>1, <2>2
<1> QED
  BY <1>2, <1>3, <1>4 DEF Executes

LEMMA JobsEnd ==
  ASSUME JobsInv, NEW w \in Workers, run[w] # Jobs!Free,
         NEW q \in Requests, q = run[w].r,
         NEW outcome \in {"completed", "failed"}, Jobs!Ends(w, outcome),
         UNCHANGED <<submit, stalls, cancel, late>>,
         NEW new \in JobRow, row' = [row EXCEPT ![q] = new],
         new.kind = row[q].kind, new.visible = row[q].visible, new.deleted = row[q].deleted,
         new.kind = "notification" => new.status # "RUNNING",
         \/ new.announced = row[q].announced
         \/ /\ new.announced = row[q].announced + 1 /\ outcome = "completed"
            /\ new.status \notin {"PENDING", "RUNNING"},
         excuse' \in [Requests -> SUBSET Reasons],
         \A r \in Requests \ {q} : excuse'[r] = excuse[r],
         excuse'[q] = {} =>
           excuse[q] = {} /\ submit[q] # "added"
             /\ (~new.visible \/ new.status \notin {"PENDING", "RUNNING"})
  PROVE  JobsInv'
<1>1. /\ Executes(w, q) /\ run[w].n \in {0, 1} /\ InTurn(q, run[w].n) = 1 /\ JobInv(q)
  BY JobsRunning
<1>2. run' = [run EXCEPT ![w] = Jobs!Free]
  BY DEF Jobs!Ends
<1>3. /\ run' \in [Workers -> Execution \cup {Jobs!Free}]
      /\ \A t \in Workers : t # w => run'[t] = run[t]
      /\ run'[w] = Jobs!Free
      /\ \A t \in Workers : Executes(t, q)' <=> t # w /\ Executes(t, q)
      /\ \A n \in {0, 1} : InTurn(q, n)' = IF n = run[w].n THEN 0 ELSE InTurn(q, n)
  BY <1>2, TurnEnds
<1>4. /\ job' \in [Requests -> {"none", "waiting", "active", "completed", "failed", "removed"}]
      /\ \A r \in Requests \ {q} : job'[r] = job[r]
      /\ job'[q] = IF job[q] = "active" /\ run[w].n = stalls[q] THEN outcome ELSE job[q]
  <2>1. job \in [Requests -> {"none", "waiting", "active", "completed", "failed", "removed"}]
    BY DEF JobsInv, JobsType
  <2>2. job' = IF job[q] = "active" /\ run[w].n = stalls[q] THEN [job EXCEPT ![q] = outcome] ELSE job
    BY DEF Jobs!Ends
  <2> QED
    BY <2>1, <2>2
<1>5. row'[q] = new /\ row' \in [Requests -> JobRow] /\ \A r \in Requests \ {q} : row'[r] = row[r]
  BY DEF JobsInv, JobsType
<1>6. JobsType'
  BY <1>3, <1>4, <1>5 DEF JobsInv, JobsType
<1>7. stalls[q] = 0 => job[q] = "active" /\ run[w].n = 0 /\ job'[q] = outcome
  <2>1. stalls[q] = 0 => job[q] = "active" /\ run[w].n <= 0
    BY <1>1 DEF JobInv, ExecutionsTakeTurns
  <2> QED
    BY <2>1, <1>1, <1>4
<1>8. RowFollowsSubmit(q)'
  BY <1>1, <1>3, <1>5 DEF JobInv, RowFollowsSubmit
<1>9. ExecutionsTakeTurns(q)'
  <2>1. stalls'[q] = 2 => job'[q] \notin {"none", "waiting", "active"}
    BY <1>1, <1>4 DEF JobInv, ExecutionsTakeTurns
  <2>2. ASSUME NEW t \in Workers, Executes(t, q)'
        PROVE  /\ run'[t].n <= stalls'[q]
               /\ job'[q] \in {"none", "waiting"} => run'[t].n < stalls'[q]
               /\ stalls'[q] = 0 => job'[q] = "active"
               /\ run'[t].step \in {"start", "work"} => row'[q].visible
               /\ run'[t].step = "start" => row'[q].kind # "notification"
               /\ \A u \in Workers : Executes(u, q)' /\ run'[u].n = run'[t].n => u = t
    <3>1. t # w /\ Executes(t, q) /\ run'[t] = run[t]
      BY <1>3, <2>2
    <3>2. /\ run[t].n <= stalls[q]
          /\ job[q] \in {"none", "waiting"} => run[t].n < stalls[q]
          /\ run[t].step \in {"start", "work"} => row[q].visible
          /\ run[t].step = "start" => row[q].kind # "notification"
          /\ \A u \in Workers : Executes(u, q) /\ run[u].n = run[t].n => u = t
      BY <1>1, <3>1 DEF JobInv, ExecutionsTakeTurns
    <3>3. stalls[q] = 0 => FALSE
      <4>1. run[t] \in Execution
        BY <3>1, MCComplianceAssumption DEF JobsInv, JobsType, Executes, Jobs!Free
      <4>2. run[t].n \in {0, 1}
        BY <4>1 DEF Execution
      <4>3. stalls[q] = 0 => run[t].n = run[w].n
        BY <1>7, <3>2, <4>2
      <4> QED
        BY <4>3, <3>1, <3>2, <1>1
    <3>4. job'[q] \in {"none", "waiting"} => job'[q] = job[q]
      BY <1>4
    <3> QED
      BY <1>3, <1>5, <3>1, <3>2, <3>3, <3>4
  <2> QED
    BY <2>1, <2>2 DEF ExecutionsTakeTurns
<1>10. AnnouncedInTurn(q)'
  <2>1. InTurn(q, 0)' + InTurn(q, 1)' + 1 = InTurn(q, 0) + InTurn(q, 1)
    BY <1>1, <1>3 DEF InTurn
  <2>2. InTurn(q, 0) \in {0, 1} /\ InTurn(q, 1) \in {0, 1} /\ InTurn(q, 0)' \in {0, 1} /\ InTurn(q, 1)' \in {0, 1}
    BY DEF InTurn
  <2>3. new.announced \in Nat /\ row[q].announced \in Nat /\ new.announced <= row[q].announced + 1
    BY <1>5 DEF JobRow, JobsInv, JobsType
  <2>4. stalls[q] \in {0, 1, 2} /\ stalls' = stalls
    BY DEF JobsInv, JobsType
  <2>5. job'[q] \in {"none", "waiting"} => job[q] \in {"none", "waiting"}
    BY <1>4
  <2> QED
    BY <1>1, <1>5, <2>1, <2>2, <2>3, <2>4, <2>5 DEF JobInv, AnnouncedInTurn
<1>11. Pursued(q)'
  <2> SUFFICES ASSUME excuse'[q] = {} PROVE Pursued(q)'
    BY DEF Pursued
  <2>1. excuse[q] = {} /\ submit[q] # "added" /\ ~Open(q)'
    BY <1>5 DEF Open
  <2>2. ASSUME job'[q] = "active" PROVE \E t \in Workers : Executes(t, q)' /\ run'[t].n = stalls'[q]
    <3>1. job[q] = "active" /\ run[w].n # stalls[q]
      BY <1>4, <2>2
    <3>2. PICK t \in Workers : Executes(t, q) /\ run[t].n = stalls[q]
      BY <1>1, <2>1, <3>1 DEF JobInv, Pursued
    <3> QED
      BY <1>3, <3>1, <3>2
  <2> QED
    BY <2>1, <2>2 DEF Pursued
<1>12. RemovedUnseen(q)'
  <2> SUFFICES ASSUME stalls[q] = 0 PROVE RemovedUnseen(q)'
    BY DEF RemovedUnseen
  <2>1. job[q] = "active" /\ job'[q] = outcome
    BY <1>7
  <2>2. row[q].announced \in Nat /\ ~(row[q].announced > 0)
        /\ ~(~late[q] /\ (cancel[q] = "removed" \/ row[q].deleted))
    BY <1>1, <1>5, <2>1 DEF JobInv, RemovedUnseen, JobsInv, JobsType, JobRow
  <2>3. new.announced > 0 => new.status \notin {"PENDING", "RUNNING"} /\ outcome = "completed"
    BY <2>2
  <2> QED
    BY <1>5, <2>1, <2>2, <2>3 DEF RemovedUnseen
<1>13. JobInv(q)'
  BY <1>8, <1>9, <1>10, <1>11, <1>12 DEF JobInv
<1>14. \A t \in Workers : run'[t] # run[t] => run[t].r \in {q, None} /\ run'[t].r \in {q, None}
  BY <1>3 DEF Jobs!Free
<1>15. \A r \in Requests \ {q} :
        /\ row'[r] = row[r] /\ submit'[r] = submit[r] /\ job'[r] = job[r]
        /\ stalls'[r] = stalls[r] /\ cancel'[r] = cancel[r] /\ late'[r] = late[r]
        /\ excuse'[r] = excuse[r]
  BY <1>4, <1>5
<1> QED
  BY <1>6, <1>13, <1>14, <1>15, JobsAt

LEMMA JobsTake ==
  ASSUME JobsInv, NEW w \in Workers, NEW q \in Requests, Jobs!TakeJob(w, q)
  PROVE  JobsInv'
<1> DEFINE next == [r |-> q, step |-> "find", n |-> stalls[q]]
<1>1. /\ run[w] = Jobs!Free /\ job[q] = "waiting" /\ run' = [run EXCEPT ![w] = next]
      /\ job' = [job EXCEPT ![q] = "active"] /\ UNCHANGED <<row, submit, stalls, cancel, late, excuse>>
  BY DEF Jobs!TakeJob
<1>2. JobInv(q) /\ row[q] \in JobRow /\ stalls[q] \in {0, 1, 2}
  BY DEF JobsInv, JobsType
<1>3. stalls[q] \in {0, 1}
  BY <1>1, <1>2 DEF JobInv, ExecutionsTakeTurns
<1>4. next \in Execution /\ next.r = q /\ next.n = stalls[q] /\ next.step = "find"
  BY <1>3 DEF Execution
<1> HIDE DEF next
<1>5. /\ job'[q] = "active" /\ \A r \in Requests \ {q} : job'[r] = job[r]
      /\ \A t \in Workers : run'[t] = IF t = w THEN next ELSE run[t]
      /\ JobsType'
  BY <1>1, <1>4 DEF JobsInv, JobsType
<1>6. ~Executes(w, q)
  BY <1>1, MCComplianceAssumption DEF Executes, Jobs!Free
<1>7. \A t \in Workers : Executes(t, q)' <=> t = w \/ Executes(t, q)
  BY <1>4, <1>5 DEF Executes
<1>8. \A t \in Workers : Executes(t, q) => run[t].n < stalls[q] /\ run[t].n \in {0, 1}
  BY <1>1, <1>2, MCComplianceAssumption
  DEF JobInv, ExecutionsTakeTurns, JobsInv, JobsType, Execution, Jobs!Free, Executes
<1>9. RowFollowsSubmit(q)'
  BY <1>1, <1>2, <1>5 DEF JobInv, RowFollowsSubmit
<1>10. ExecutionsTakeTurns(q)'
  <2>1. ASSUME NEW t \in Workers, Executes(t, q)'
        PROVE  /\ run'[t].n <= stalls'[q]
               /\ run'[t].step \in {"start", "work"} => row'[q].visible
               /\ run'[t].step = "start" => row'[q].kind # "notification"
               /\ \A u \in Workers : Executes(u, q)' /\ run'[u].n = run'[t].n => u = t
    <3>1. CASE t = w
      <4>1. \A u \in Workers : u # w /\ Executes(u, q)' => run'[u].n < stalls[q] /\ run'[u].n \in {0, 1}
        BY <1>5, <1>7, <1>8
      <4>2. run'[t].n = stalls[q] /\ run'[t].step = "find"
        BY <1>4, <1>5, <3>1
      <4> QED
        BY <1>1, <1>3, <3>1, <4>1, <4>2
    <3>2. CASE t # w
      <4>1. run'[t] = run[t] /\ Executes(t, q) /\ run[t].n < stalls[q] /\ run[t].n \in {0, 1}
        BY <1>5, <1>7, <1>8, <2>1, <3>2
      <4>2. /\ run[t].step \in {"start", "work"} => row[q].visible
            /\ run[t].step = "start" => row[q].kind # "notification"
            /\ \A u \in Workers : Executes(u, q) /\ run[u].n = run[t].n => u = t
        BY <1>2, <4>1 DEF JobInv, ExecutionsTakeTurns
      <4>3. run'[w].n = stalls[q]
        BY <1>4, <1>5
      <4>4. \A u \in Workers : Executes(u, q)' /\ run'[u].n = run'[t].n => u = t
        BY <1>3, <1>5, <1>7, <4>1, <4>2, <4>3
      <4> QED
        BY <1>1, <1>3, <4>1, <4>2, <4>4
    <3> QED
      BY <3>1, <3>2
  <2>2. stalls'[q] = 2 => FALSE
    BY <1>1, <1>3
  <2> QED
    BY <1>5, <2>1, <2>2 DEF ExecutionsTakeTurns
<1>11. AnnouncedInTurn(q)'
  <2>1. \A n \in {0, 1} : InTurn(q, n)' = IF n = stalls[q] THEN 1 ELSE InTurn(q, n)
    <3>1. ASSUME NEW n \in {0, 1}
          PROVE  (\E t \in Workers : Executes(t, q)' /\ run'[t].n = n)
                   <=> n = stalls[q] \/ \E t \in Workers : Executes(t, q) /\ run[t].n = n
      BY <1>4, <1>5, <1>6, <1>7
    <3>2. ASSUME NEW n \in {0, 1} PROVE InTurn(q, n)' = IF n = stalls[q] THEN 1 ELSE InTurn(q, n)
      BY <3>1 DEF InTurn
    <3> QED
      BY <3>2
  <2>2. InTurn(q, stalls[q]) = 0
    BY <1>3, <1>8 DEF InTurn
  <2>3. InTurn(q, 0)' + InTurn(q, 1)' = InTurn(q, 0) + InTurn(q, 1) + 1
    <3>1. InTurn(q, 0) \in {0, 1} /\ InTurn(q, 1) \in {0, 1}
      BY DEF InTurn
    <3>2. CASE stalls[q] = 0
      BY <2>1, <2>2, <3>1, <3>2
    <3>3. CASE stalls[q] = 1
      BY <2>1, <2>2, <3>1, <3>3
    <3> QED
      BY <1>3, <3>2, <3>3
  <2>4. InTurn(q, 0) \in {0, 1} /\ InTurn(q, 1) \in {0, 1} /\ InTurn(q, 0)' \in {0, 1} /\ InTurn(q, 1)' \in {0, 1}
    BY DEF InTurn
  <2>5. row[q].announced \in Nat
    BY <1>2 DEF JobRow
  <2>6. row[q].announced + InTurn(q, 0) + InTurn(q, 1) + 1 <= stalls[q] + 1
    BY <1>1, <1>2 DEF JobInv, AnnouncedInTurn
  <2>7. row[q].announced + InTurn(q, 0)' + InTurn(q, 1)' + 0 <= stalls[q] + 1
    BY <1>3, <2>3, <2>4, <2>5, <2>6
  <2>8. job'[q] \notin {"none", "waiting"}
    BY <1>5
  <2> QED
    BY <1>1, <2>7, <2>8 DEF AnnouncedInTurn
<1>12. Pursued(q)'
  BY <1>1, <1>4, <1>5, <1>7 DEF Pursued
<1>13. RemovedUnseen(q)'
  BY <1>1, <1>2, <1>5 DEF JobInv, RemovedUnseen
<1>14. JobInv(q)'
  BY <1>9, <1>10, <1>11, <1>12, <1>13 DEF JobInv
<1>15. \A t \in Workers : run'[t] # run[t] => run[t].r \in {q, None} /\ run'[t].r \in {q, None}
  BY <1>1, <1>4, <1>5 DEF Jobs!Free
<1> QED
  BY <1>1, <1>5, <1>14, <1>15, JobsAt

\* A step of an execution that goes on with a row it has found.
LEMMA JobsProceed ==
  ASSUME JobsInv, NEW w \in Workers, run[w] # Jobs!Free, NEW q \in Requests, q = run[w].r,
         NEW step \in {"start", "work"}, run' = [run EXCEPT ![w].step = step],
         UNCHANGED <<submit, job, stalls, cancel, late, excuse>>,
         row[q].visible, step = "start" => row[q].kind # "notification",
         \/ row' = row
         \/ row' = [row EXCEPT ![q].status = "RUNNING"] /\ row[q].kind # "notification"
  PROVE  JobsInv'
<1> DEFINE next == [run[w] EXCEPT !.step = step]
<1>1. /\ Executes(w, q) /\ run[w].n \in {0, 1} /\ JobInv(q) /\ row[q] \in JobRow
      /\ run[w] \in Execution
  BY JobsRunning
<1>2. next \in Execution /\ next.r = q /\ next.n = run[w].n /\ next.step = step
  BY <1>1 DEF Execution
<1>3. run' = [run EXCEPT ![w] = next]
  OBVIOUS
<1> HIDE DEF next
<1>4. run' \in [Workers -> Execution \cup {Jobs!Free}]
      /\ \A t \in Workers : run'[t] = IF t = w THEN next ELSE run[t]
  BY <1>2, <1>3 DEF JobsInv, JobsType
<1>5. /\ row' \in [Requests -> JobRow] /\ \A r \in Requests \ {q} : row'[r] = row[r]
      /\ row'[q].kind = row[q].kind /\ row'[q].visible = row[q].visible
      /\ row'[q].deleted = row[q].deleted /\ row'[q].announced = row[q].announced
      /\ row'[q].status = row[q].status \/ (row'[q].status = "RUNNING" /\ row[q].kind # "notification")
  <2>1. CASE row' = row
    BY <2>1 DEF JobsInv, JobsType
  <2>2. CASE row' = [row EXCEPT ![q].status = "RUNNING"] /\ row[q].kind # "notification"
    <3> DEFINE new == [row[q] EXCEPT !.status = "RUNNING"]
    <3>1. /\ new \in JobRow /\ new.kind = row[q].kind /\ new.visible = row[q].visible
          /\ new.deleted = row[q].deleted /\ new.announced = row[q].announced /\ new.status = "RUNNING"
      BY <1>1 DEF JobRow
    <3>2. row' = [row EXCEPT ![q] = new]
      BY <2>2
    <3> HIDE DEF new
    <3>3. row'[q] = new /\ row' \in [Requests -> JobRow] /\ \A r \in Requests \ {q} : row'[r] = row[r]
      BY <3>1, <3>2 DEF JobsInv, JobsType
    <3> QED
      BY <2>2, <3>1, <3>3
  <2> QED
    BY <2>1, <2>2
<1>6. JobsType'
  BY <1>4, <1>5 DEF JobsInv, JobsType
<1>7. \A t \in Workers : (Executes(t, q)' <=> Executes(t, q)) /\ run'[t].n = run[t].n
  BY <1>1, <1>2, <1>4 DEF Executes
<1>8. InTurn(q, 0)' = InTurn(q, 0) /\ InTurn(q, 1)' = InTurn(q, 1)
  BY <1>7 DEF InTurn
<1>9. RowFollowsSubmit(q)'
  BY <1>1, <1>5, <1>7 DEF JobInv, RowFollowsSubmit
<1>10. ExecutionsTakeTurns(q)'
  <2>1. \A t \in Workers : Executes(t, q)' =>
          /\ run'[t].step \in {"start", "work"} => row'[q].visible
          /\ run'[t].step = "start" => row'[q].kind # "notification"
    BY <1>1, <1>2, <1>4, <1>5, <1>7 DEF JobInv, ExecutionsTakeTurns
  <2> QED
    BY <1>1, <1>7, <2>1 DEF JobInv, ExecutionsTakeTurns
<1>11. AnnouncedInTurn(q)'
  BY <1>1, <1>5, <1>8 DEF JobInv, AnnouncedInTurn
<1>12. Pursued(q)'
  BY <1>1, <1>7 DEF JobInv, Pursued
<1>13. RemovedUnseen(q)'
  <2>1. stalls[q] = 0 => job[q] = "active"
    BY <1>1 DEF JobInv, ExecutionsTakeTurns
  <2>2. stalls[q] = 0 => ~(row[q].announced > 0) /\ ~(~late[q] /\ (cancel[q] = "removed" \/ row[q].deleted))
    BY <1>1, <2>1 DEF JobInv, RemovedUnseen
  <2> QED
    BY <1>5, <2>2 DEF RemovedUnseen
<1>14. JobInv(q)'
  BY <1>9, <1>10, <1>11, <1>12, <1>13 DEF JobInv
<1>15. \A t \in Workers : run'[t] # run[t] => run[t].r \in {q, None} /\ run'[t].r \in {q, None}
  BY <1>2, <1>4
<1> QED
  BY <1>5, <1>6, <1>14, <1>15, JobsAt

LEMMA JobsFindRow ==
  ASSUME JobsInv, NEW w \in Workers, Jobs!FindRow(w)
  PROVE  JobsInv'
<1>c. run[w].step = "find" /\ UNCHANGED <<row, submit, stalls, cancel, late>>
  BY DEF Jobs!FindRow
<1>a. run[w] # Jobs!Free
  BY <1>c DEF Jobs!Free
<1>b. PICK q \in Requests : q = run[w].r
  BY <1>a, JobsRunning
<1>1. run[w].step = "find" /\ run[w] # Jobs!Free /\ UNCHANGED <<row, submit, stalls, cancel, late>>
  BY <1>a, <1>c
<1>2. q \in Requests /\ run[w] \in Execution /\ JobInv(q) /\ row[q] \in JobRow /\ Executes(w, q)
  BY <1>a, <1>b, JobsRunning
<1>3. row' = [row EXCEPT ![q] = row[q]] /\ (row[q].kind = "notification" => row[q].status # "RUNNING")
  BY <1>1, <1>2 DEF JobsInv, JobsType, JobInv, RowFollowsSubmit
<1>4. CASE ~row[q].visible
  <2>1. Jobs!Ends(w, "failed")
        /\ (IF submit[q] = "added" THEN Jobs!Blame(q, "too early") ELSE UNCHANGED excuse)
    BY <1>4, <1>b DEF Jobs!FindRow
  <2>a. excuse \in [Requests -> SUBSET Reasons]
    BY DEF JobsInv, JobsType
  <2>b. \/ submit[q] = "added" /\ excuse' = [excuse EXCEPT ![q] = excuse[q] \cup {"too early"}]
        \/ submit[q] # "added" /\ excuse' = excuse
    BY <2>1 DEF Jobs!Blame
  <2>2. excuse' \in [Requests -> SUBSET Reasons] /\ \A r \in Requests \ {q} : excuse'[r] = excuse[r]
    BY <2>a, <2>b DEF Reasons
  <2>3. excuse'[q] = {} => excuse[q] = {} /\ submit[q] # "added"
    BY <2>a, <2>b
  <2> QED
    <3>1. PICK new \in JobRow : new = row[q]
      BY <1>2
    <3>2. /\ row' = [row EXCEPT ![q] = new] /\ new.kind = row[q].kind
          /\ new.visible = row[q].visible /\ new.deleted = row[q].deleted
          /\ new.kind = "notification" => new.status # "RUNNING"
          /\ new.announced = row[q].announced
      BY <1>3, <3>1
    <3>3. excuse'[q] = {} => /\ excuse[q] = {} /\ submit[q] # "added"
                             /\ ~new.visible \/ new.status \notin {"PENDING", "RUNNING"}
      BY <1>4, <2>3, <3>1
    <3> QED
      BY <1>1, <1>2, <2>1, <2>2, <3>2, <3>3, <1>b, JobsEnd
<1>5. CASE row[q].visible /\ row[q].kind = "notification" /\ row[q].status # "PENDING"
  <2>1. Jobs!Ends(w, "completed") /\ UNCHANGED excuse
    BY <1>5, <1>b DEF Jobs!FindRow
  <2>2. submit[q] # "added" /\ row[q].status \notin {"PENDING", "RUNNING"}
    BY <1>2, <1>3, <1>5 DEF JobInv, RowFollowsSubmit
  <2>3. excuse' \in [Requests -> SUBSET Reasons]
    BY <2>1 DEF JobsInv, JobsType
  <2> QED
    BY <1>1, <1>2, <1>3, <2>1, <2>2, <2>3, <1>b, JobsEnd
<1>6. CASE row[q].visible /\ (row[q].kind = "notification" => row[q].status = "PENDING")
  <2>1. /\ run' = [run EXCEPT ![w].step = IF row[q].kind = "notification" THEN "work" ELSE "start"]
        /\ UNCHANGED <<job, excuse>>
    BY <1>6, <1>b DEF Jobs!FindRow
  <2> QED
    BY <1>1, <1>2, <1>6, <2>1, <1>b, JobsProceed
<1> QED
  BY <1>4, <1>5, <1>6

LEMMA JobsStart ==
  ASSUME JobsInv, NEW w \in Workers, Jobs!Start(w)
  PROVE  JobsInv'
<1>a. run[w] # Jobs!Free
  BY DEF Jobs!Start, Jobs!Free
<1>b. PICK q \in Requests : q = run[w].r
  BY <1>a, JobsRunning
<1>1. /\ run[w].step = "start" /\ run[w] # Jobs!Free
      /\ row' = [row EXCEPT ![q].status = "RUNNING"] /\ run' = [run EXCEPT ![w].step = "work"]
      /\ UNCHANGED <<submit, job, stalls, cancel, late, excuse>>
  BY <1>b DEF Jobs!Start, Jobs!Free
<1>2. q \in Requests /\ JobInv(q) /\ row[q] \in JobRow /\ Executes(w, q)
  BY <1>a, <1>b, JobsRunning
<1>3. row[q].visible /\ row[q].kind # "notification"
  BY <1>1, <1>2 DEF JobInv, ExecutionsTakeTurns
<1> QED
  BY <1>1, <1>2, <1>3, <1>b, JobsProceed

LEMMA JobsComplete ==
  ASSUME JobsInv, NEW w \in Workers, Jobs!Complete(w) \/ Jobs!Fail(w)
  PROVE  JobsInv'
<1>a. run[w] # Jobs!Free
  BY DEF Jobs!Complete, Jobs!Fail, Jobs!Free
<1>b. PICK q \in Requests : q = run[w].r
  BY <1>a, JobsRunning
<1>1. /\ run[w].step = "work" /\ run[w] # Jobs!Free
      /\ UNCHANGED <<submit, stalls, cancel, late, excuse>>
  BY <1>b DEF Jobs!Complete, Jobs!Fail, Jobs!Free
<1>2. q \in Requests /\ JobInv(q) /\ row[q] \in JobRow /\ Executes(w, q)
  BY <1>a, <1>b, JobsRunning
<1>3. submit[q] # "added" /\ excuse' \in [Requests -> SUBSET Reasons]
  BY <1>1, <1>2 DEF JobInv, ExecutionsTakeTurns, RowFollowsSubmit, JobsInv, JobsType
<1>4. CASE Jobs!Complete(w)
  <2> DEFINE new == [row[q] EXCEPT !.status = "COMPLETED", !.announced = row[q].announced + 1]
  <2>1. /\ new \in JobRow /\ new.kind = row[q].kind /\ new.visible = row[q].visible
        /\ new.deleted = row[q].deleted /\ new.status = "COMPLETED"
        /\ new.announced = row[q].announced + 1
    <3>1. row[q].announced + 1 \in Nat
      BY <1>2 DEF JobRow
    <3> QED
      BY <1>2, <3>1 DEF JobRow
  <2>2. row' = [row EXCEPT ![q] = new] /\ Jobs!Ends(w, "completed")
    BY <1>2, <1>4, <1>b DEF Jobs!Complete, JobsInv, JobsType
  <2> HIDE DEF new
  <2> QED
    BY <1>1, <1>2, <1>3, <2>1, <2>2, <1>b, JobsEnd
<1>5. CASE Jobs!Fail(w)
  <2> DEFINE new == [row[q] EXCEPT !.status = "FAILED"]
  <2>1. /\ new \in JobRow /\ new.kind = row[q].kind /\ new.visible = row[q].visible
        /\ new.deleted = row[q].deleted /\ new.status = "FAILED" /\ new.announced = row[q].announced
    BY <1>2 DEF JobRow
  <2>2. row' = [row EXCEPT ![q] = new] /\ Jobs!Ends(w, "failed")
    BY <1>5, <1>b DEF Jobs!Fail
  <2> HIDE DEF new
  <2> QED
    BY <1>1, <1>2, <1>3, <2>1, <2>2, <1>b, JobsEnd
<1> QED
  BY <1>4, <1>5

LEMMA JobsThrow ==
  ASSUME JobsInv, NEW w \in Workers, Jobs!Throws(w)
  PROVE  JobsInv'
<1>a. run[w] # Jobs!Free
  BY DEF Jobs!Throws
<1>b. PICK q \in Requests : q = run[w].r
  BY <1>a, JobsRunning
<1>1. /\ run[w] # Jobs!Free /\ Jobs!Ends(w, "failed") /\ Jobs!Blame(q, "query failed")
      /\ UNCHANGED <<row, submit, stalls, cancel, late>>
  BY <1>b DEF Jobs!Throws
<1>2. q \in Requests /\ JobInv(q) /\ row[q] \in JobRow
  BY <1>a, <1>b, JobsRunning
<1>3. row' = [row EXCEPT ![q] = row[q]] /\ (row[q].kind = "notification" => row[q].status # "RUNNING")
  BY <1>1, <1>2 DEF JobsInv, JobsType, JobInv, RowFollowsSubmit
<1>4. /\ excuse' \in [Requests -> SUBSET Reasons] /\ excuse'[q] # {}
      /\ \A r \in Requests \ {q} : excuse'[r] = excuse[r]
  BY <1>1, <1>2 DEF Jobs!Blame, JobsInv, JobsType, Reasons
<1> QED
  BY <1>1, <1>2, <1>3, <1>4, <1>b, JobsEnd

LEMMA JobsDie ==
  ASSUME JobsInv, NEW w \in Workers, Jobs!Dies(w)
  PROVE  JobsInv'
<1>a. run[w] # Jobs!Free
  BY DEF Jobs!Dies
<1>b. PICK q \in Requests : q = run[w].r
  BY <1>a, JobsRunning
<1>1. /\ run[w] # Jobs!Free /\ run' = [run EXCEPT ![w] = Jobs!Free] /\ Jobs!Blame(q, "worker died")
      /\ UNCHANGED <<row, submit, job, stalls, cancel, late>>
  BY <1>b DEF Jobs!Dies
<1>2. q \in Requests /\ JobInv(q) /\ row[q] \in JobRow /\ Executes(w, q)
      /\ run[w].n \in {0, 1} /\ InTurn(q, run[w].n) = 1
  BY <1>a, <1>b, JobsRunning
<1>3. /\ run' \in [Workers -> Execution \cup {Jobs!Free}]
      /\ \A t \in Workers : t # w => run'[t] = run[t]
      /\ run'[w] = Jobs!Free
      /\ \A t \in Workers : Executes(t, q)' <=> t # w /\ Executes(t, q)
      /\ \A n \in {0, 1} : InTurn(q, n)' = IF n = run[w].n THEN 0 ELSE InTurn(q, n)
  BY <1>1, <1>b, TurnEnds
<1>4. /\ excuse' \in [Requests -> SUBSET Reasons] /\ excuse'[q] # {}
      /\ \A r \in Requests \ {q} : excuse'[r] = excuse[r]
  BY <1>1, <1>2 DEF Jobs!Blame, JobsInv, JobsType, Reasons
<1>5. JobsType'
  BY <1>1, <1>3, <1>4 DEF JobsInv, JobsType
<1>6. RowFollowsSubmit(q)' /\ RemovedUnseen(q)' /\ Pursued(q)'
  BY <1>1, <1>2, <1>3, <1>4 DEF JobInv, RowFollowsSubmit, RemovedUnseen, Pursued
<1>7. ExecutionsTakeTurns(q)'
  <2>1. \A t \in Workers : Executes(t, q)' => Executes(t, q) /\ run'[t] = run[t]
    BY <1>3
  <2>2. UNCHANGED <<row, job, stalls>>
    BY <1>1
  <2>3. stalls[q] = 2 => job[q] \notin {"none", "waiting", "active"}
    BY <1>2 DEF JobInv, ExecutionsTakeTurns
  <2>4. ASSUME NEW t \in Workers, Executes(t, q)'
        PROVE  /\ run'[t].n <= stalls'[q]
               /\ job'[q] \in {"none", "waiting"} => run'[t].n < stalls'[q]
               /\ stalls'[q] = 0 => job'[q] = "active"
               /\ run'[t].step \in {"start", "work"} => row'[q].visible
               /\ run'[t].step = "start" => row'[q].kind # "notification"
               /\ \A u \in Workers : Executes(u, q)' /\ run'[u].n = run'[t].n => u = t
    BY <1>2, <2>1, <2>2, <2>4 DEF JobInv, ExecutionsTakeTurns
  <2> QED
    BY <2>2, <2>3, <2>4 DEF ExecutionsTakeTurns
<1>8. AnnouncedInTurn(q)'
  <2>1. InTurn(q, 0) \in {0, 1} /\ InTurn(q, 1) \in {0, 1}
    BY DEF InTurn
  <2>2. InTurn(q, 0)' \in {0, 1} /\ InTurn(q, 1)' \in {0, 1}
    BY DEF InTurn
  <2>3. InTurn(q, 0)' + InTurn(q, 1)' <= InTurn(q, 0) + InTurn(q, 1)
    BY <1>2, <1>3, <2>1
  <2>4. row[q].announced \in Nat /\ stalls[q] \in {0, 1, 2}
    BY <1>2 DEF JobRow, JobsInv, JobsType
  <2> DEFINE turn == IF job[q] \in {"none", "waiting"} THEN 1 ELSE 0
  <2>5. turn \in {0, 1} /\ turn' = turn
    BY <1>1
  <2>6. row[q].announced + InTurn(q, 0) + InTurn(q, 1) + turn <= stalls[q] + 1
    BY <1>2 DEF JobInv, AnnouncedInTurn
  <2> HIDE DEF turn
  <2>7. row[q].announced + InTurn(q, 0)' + InTurn(q, 1)' + turn <= stalls[q] + 1
    BY <2>1, <2>2, <2>3, <2>4, <2>5, <2>6
  <2> QED
    BY <1>1, <2>5, <2>7 DEF AnnouncedInTurn, turn
<1>9. JobInv(q)'
  BY <1>6, <1>7, <1>8 DEF JobInv
<1>10. \A t \in Workers : run'[t] # run[t] => run[t].r \in {q, None} /\ run'[t].r \in {q, None}
  BY <1>b, <1>3 DEF Jobs!Free
<1> QED
  BY <1>1, <1>2, <1>4, <1>5, <1>9, <1>10, JobsAt

LEMMA JobsNext ==
  ASSUME JobsInv, Jobs!Next \/ UNCHANGED jobVars
  PROVE  JobsInv'
<1>1. CASE Jobs!Next
  BY <1>1, JobsSubmit, JobsAddJob, JobsCommit, JobsSubmitFails, JobsTake, JobsStall, JobsMarkRead,
     JobsCancel, JobsRemoveJob, JobsMarkCancelled, JobsCancelFails, JobsFindRow, JobsStart,
     JobsComplete, JobsThrow, JobsDie
  DEF Jobs!Next, Jobs!Execute
<1>2. CASE UNCHANGED jobVars
  <2>1. UNCHANGED <<row, submit, job, stalls, run, cancel, late, excuse>>
    BY <1>2 DEF jobVars
  <2> QED
    BY <2>1 DEF JobsInv, JobsType, JobInv, RowFollowsSubmit, ExecutionsTakeTurns, AnnouncedInTurn,
         InTurn, Pursued, RemovedUnseen, Executes, Open
<1> QED
  BY <1>1, <1>2

---------------------------------------------------------------------------
(* The engine: a control that is not about children's data is never judged  *)
(* worse for another document or finding, a PASS is worth more than a        *)
(* PARTIAL, and rounding and the ceilings keep the order.                     *)

LEMMA EngineCounts ==
  ASSUME NEW C, NEW S
  PROVE  Engine(C)!Cardinality(S) = Cardinality(S)
BY DEF Engine!Cardinality, Cardinality

LEMMA QuotientsGrow ==
  ASSUME NEW a \in Nat, NEW b \in Nat, a <= b, NEW d \in Nat, d > 0
  PROVE  a \div d \in Nat /\ b \div d \in Nat /\ a \div d <= b \div d
<1> DEFINE x == a \div d
           y == b \div d
<1>1. x \in Int /\ y \in Int
  OBVIOUS
<1>2. d * x <= a /\ a < d * x + d /\ d * y <= b /\ b < d * y + d
  OBVIOUS
<1> HIDE DEF x, y
<1>3. ASSUME NEW z \in Int, NEW w \in Int, z >= w + 1 PROVE d * z >= d * w + d
  <2>1. PICK k \in Nat : z = w + 1 + k
    <3>1. z - (w + 1) \in Nat /\ z = w + 1 + (z - (w + 1))
      BY <1>3
    <3> QED
      BY <3>1
  <2>2. d * k \in Nat /\ d * w \in Int
    OBVIOUS
  <2>3. d * (w + 1 + k) = d * w + d + d * k
    OBVIOUS
  <2> QED
    BY <2>1, <2>2, <2>3
<1>4. x <= y
  BY <1>1, <1>2, <1>3
<1>5. x >= 0 /\ y >= 0
  <2>1. d * 0 = 0
    OBVIOUS
  <2>2. ASSUME NEW z \in Int, z < 0 PROVE d * z + d <= 0
    BY <1>3, <2>1, <2>2
  <2> QED
    BY <1>1, <1>2, <2>2
<1> QED
  BY <1>1, <1>4, <1>5 DEF x, y

\* What an upload and a batch of findings do to the evidence.
EvidenceGrows ==
  /\ UNCHANGED <<answers, vendors>>
  /\ typed \subseteq typed' /\ texts \subseteq texts' /\ findings \subseteq findings'

LEMMA EvidenceIsKept ==
  ASSUME NEW C, Engine(C)!Next, UNCHANGED <<answers, vendors>>
  PROVE  EvidenceGrows
<1>1. CASE \E q \in Engine(C)!Questions : \E value \in {"yes", "no", "none"} :
             Engine(C)!SaveQuestionnaire(q, value)
  BY <1>1 DEF Engine!SaveQuestionnaire, EvidenceGrows
<1>2. CASE \E hints \in {{}, C} : \E c \in C : \E long \in BOOLEAN :
             \/ Engine(C)!UploadDocument(hints, {}, FALSE)
             \/ Engine(C)!UploadDocument(hints, {c}, long)
  BY <1>2 DEF Engine!UploadDocument, EvidenceGrows
<1>3. CASE \E c \in C \cup {"other"} : Engine(C)!SubmitEvidenceBatch({c})
  BY <1>3 DEF Engine!SubmitEvidenceBatch, EvidenceGrows
<1>4. CASE Engine(C)!VendorsChange
  BY <1>4 DEF Engine!VendorsChange, EvidenceGrows
<1> QED
  BY <1>1, <1>2, <1>3, <1>4 DEF Engine!Next

LEMMA JudgedNoWorse ==
  ASSUME NEW C, EvidenceGrows, Engine(C)!AnswerFor("Q-CHILDREN-DATA") # "yes", NEW c \in C
  PROVE  /\ (Engine(C)!EvaluateOne(c) = "NOT_APPLICABLE")' <=> Engine(C)!EvaluateOne(c) = "NOT_APPLICABLE"
         /\ Engine(C)!EvaluateOne(c) = "PASS" => Engine(C)!EvaluateOne(c)' = "PASS"
         /\ Engine(C)!EvaluateOne(c) = "PARTIAL" => Engine(C)!EvaluateOne(c)' \in {"PASS", "PARTIAL"}
<1>1. \A q : Engine(C)!AnswerFor(q)' = Engine(C)!AnswerFor(q)
  BY DEF Engine!AnswerFor, Engine!Questions, EvidenceGrows
<1>2. /\ Engine(C)!Positive(c)' <=> Engine(C)!Positive(c)
      /\ Engine(C)!Negative(c)' <=> Engine(C)!Negative(c)
      /\ Engine(C)!NotApplicable(c)' <=> Engine(C)!NotApplicable(c)
      /\ Engine(C)!RegistryFails(c)' <=> Engine(C)!RegistryFails(c)
  BY <1>1 DEF Engine!Positive, Engine!Negative, Engine!NotApplicable, Engine!RegistryFails, EvidenceGrows
<1>3. ~Engine(C)!ChildrenSensitive(c) /\ ~Engine(C)!ChildrenSensitive(c)'
  BY <1>1 DEF Engine!ChildrenSensitive
<1>4. /\ Engine(C)!Tech(c) => Engine(C)!Tech(c)'
      /\ Engine(C)!StrongDoc(c) => Engine(C)!StrongDoc(c)'
      /\ Engine(C)!WeakDoc(c) => Engine(C)!WeakDoc(c)' \/ Engine(C)!StrongDoc(c)'
      /\ Engine(C)!WeakDoc(c) => ~Engine(C)!StrongDoc(c)
      /\ Engine(C)!WeakDoc(c)' => ~Engine(C)!StrongDoc(c)'
  BY DEF Engine!Tech, Engine!StrongDoc, Engine!WeakDoc, EvidenceGrows
<1> QED
  BY <1>2, <1>3, <1>4 DEF Engine!EvaluateOne, Engine!Triangulated, Engine!SomeEvidence

LEMMA ScoreIsKept ==
  ASSUME NEW C, IsFiniteSet(C), EvidenceGrows, Engine(C)!AnswerFor("Q-CHILDREN-DATA") # "yes"
  PROVE  Engine(C)!Score' >= Engine(C)!Score
<1> DEFINE S == {c \in C : Engine(C)!EvaluateOne(c) # "NOT_APPLICABLE"}
           P == {c \in S : Engine(C)!EvaluateOne(c) = "PASS"}
           Q == {c \in S : Engine(C)!EvaluateOne(c) = "PARTIAL"}
           R == {c \in S : Engine(C)!EvaluateOne(c)' = "PASS"}
           T == {c \in S : Engine(C)!EvaluateOne(c)' = "PARTIAL"}
           n == Cardinality(S)
           points == 20 * Cardinality(P) + 9 * Cardinality(Q)
           grown == 20 * Cardinality(R) + 9 * Cardinality(T)
           rounded(p) == (100 * p + n) \div (2 * n)
           capped(p, ceiling) == IF rounded(p) > ceiling THEN ceiling ELSE rounded(p)
<1>1. IsFiniteSet(S) /\ n \in Nat
  BY FS_Subset, FS_CardinalityType
<1>2. /\ IsFiniteSet(P) /\ IsFiniteSet(Q) /\ IsFiniteSet(R) /\ IsFiniteSet(T)
      /\ Cardinality(P) \in Nat /\ Cardinality(Q) \in Nat /\ Cardinality(R) \in Nat /\ Cardinality(T) \in Nat
  <2>1. P \subseteq S /\ Q \subseteq S /\ R \subseteq S /\ T \subseteq S
    OBVIOUS
  <2> HIDE DEF S, P, Q, R, T
  <2> QED
    BY <1>1, <2>1, FS_Subset, FS_CardinalityType
<1>3. P \subseteq R /\ P \cup Q \subseteq R \cup T /\ P \cap Q = {} /\ R \cap T = {}
  BY JudgedNoWorse
<1>4. points \in Nat /\ grown \in Nat /\ points <= grown
  <2> HIDE DEF S, P, Q, R, T
  <2>1. Cardinality(P) <= Cardinality(R)
    BY <1>2, <1>3, FS_Subset
  <2>2. /\ IsFiniteSet(P \cup Q) /\ Cardinality(P \cup Q) = Cardinality(P) + Cardinality(Q) - Cardinality({})
        /\ IsFiniteSet(R \cup T) /\ Cardinality(R \cup T) = Cardinality(R) + Cardinality(T) - Cardinality({})
    BY <1>2, <1>3, FS_Union
  <2>3. Cardinality(P \cup Q) <= Cardinality(R \cup T)
    BY <1>3, <2>2, FS_Subset
  <2>4. Cardinality(P) + Cardinality(Q) <= Cardinality(R) + Cardinality(T)
    BY <1>2, <2>2, <2>3, FS_EmptySet
  <2> QED
    BY <1>2, <2>1, <2>4
<1>5. Engine(C)!Ceiling \in Nat /\ Engine(C)!Ceiling' \in Nat /\ Engine(C)!Ceiling <= Engine(C)!Ceiling'
  BY DEF Engine!Ceiling, EvidenceGrows
<1>6. /\ Engine(C)!Score = IF S = {} THEN 0 ELSE capped(points, Engine(C)!Ceiling)
      /\ Engine(C)!Points = points
  BY EngineCounts DEF Engine!Score, Engine!Points, Engine!Scored
<1>7. {c \in C : Engine(C)!EvaluateOne(c)' # "NOT_APPLICABLE"} = S
  BY JudgedNoWorse
<1>8. Engine(C)!Points' = grown
  BY <1>7, EngineCounts DEF Engine!Points, Engine!Scored
<1>9. Engine(C)!Score' = IF S = {} THEN 0 ELSE capped(grown, Engine(C)!Ceiling')
  BY <1>7, <1>8, EngineCounts DEF Engine!Score, Engine!Scored
<1>10. CASE S = {}
  BY <1>6, <1>9, <1>10
<1>11. CASE S # {}
  <2>1. n > 0
    <3> HIDE DEF S
    <3> QED
      BY <1>1, <1>11, FS_EmptySet
  <2> HIDE DEF S, n, points, grown
  <2> DEFINE a == 100 * points + n
             b == 100 * grown + n
             d == 2 * n
  <2>2. a \in Nat /\ b \in Nat /\ a <= b /\ d \in Nat /\ d > 0
    BY <1>1, <1>4, <2>1
  <2> HIDE DEF a, b, d
  <2>3. a \div d \in Nat /\ b \div d \in Nat /\ a \div d <= b \div d
    BY <2>2, QuotientsGrow
  <2>4. rounded(points) = a \div d /\ rounded(grown) = b \div d
    BY DEF a, b, d
  <2> HIDE DEF rounded
  <2> QED
    BY <1>5, <1>6, <1>9, <1>11, <2>3, <2>4
<1> QED
  BY <1>10, <1>11

---------------------------------------------------------------------------
(* The framework: while no two requests that replace or publish have met,   *)
(* the one under way finds the drafts and the published framework it has     *)
(* read; a framework to be generated is named by nobody else until it is      *)
(* there, so a requirement checked against a control finds it or finds the    *)
(* framework gone.                                                            *)

RoadRequest ==
  [op : {"idle", "control", "requirement", "map"} \cup Roadmap!Replacing,
   step : {"idle", "archive", "commit"}, f : Frameworks \cup {None},
   code : Profiles \cup Codes \cup Roadmap!Requirements \cup {None},
   ctl : (SUBSET Frameworks) \cup Codes \cup {None}, seen : SUBSET Frameworks]

RequirementRow == [code : Roadmap!Requirements, ctl : Codes \cup {None}]

RoadRows ==
  /\ frameworkStatus \in [Frameworks -> {"none", "DRAFT", "PUBLISHED", "ARCHIVED", "deleted"}]
  /\ controls \in [Frameworks -> SUBSET Codes]
  /\ requirements \in [Frameworks -> SUBSET RequirementRow]

RoadType == RoadRows /\ building \in [Slots -> RoadRequest]

Generates(s) == building[s].op \in {"generate", "generate and publish"}
Replaces(s) == building[s].op \in Roadmap!Replacing

\* A framework to be generated is not there yet, and is nobody else's.
GeneratesNew(s) ==
  Generates(s) =>
    /\ building[s].f \in Frameworks /\ frameworkStatus[building[s].f] = "none"
    /\ \A t \in Slots : building[t].f = building[s].f => t = s

\* Whatever else a request names was there when it was read.
NamesWereThere(s) ==
  /\ \A g \in building[s].seen : frameworkStatus[g] # "none"
  /\ building[s].op \in {"publish", "control", "requirement", "map"} =>
       building[s].f \in Frameworks /\ frameworkStatus[building[s].f] # "none"
  /\ building[s].op = "publish" => building[s].seen = {}
  /\ building[s].op = "control" => building[s].code \in Codes
  /\ building[s].op \in {"requirement", "map"} =>
       /\ building[s].code \in Roadmap!Requirements /\ building[s].ctl \in Codes \cup {None}
       /\ Roadmap!Exists(building[s].f) /\ building[s].ctl # None =>
            building[s].ctl \in controls[building[s].f]

MappedToOwn ==
  \A f \in Frameworks : \A r \in requirements[f] :
    Roadmap!Exists(f) /\ (r.ctl # None => r.ctl \in controls[f])

\* What a request that replaces or publishes has read.
ReadHolds(s) ==
  /\ Generates(s) => building[s].seen = Roadmap!With("DRAFT")
  /\ building[s].op = "publish" => frameworkStatus[building[s].f] = "DRAFT"
  /\ Replaces(s) /\ building[s].op # "generate" /\ building[s].step = "commit" =>
       building[s].ctl = Roadmap!With("PUBLISHED") \ {building[s].f}

OneReplaces == \A s, t \in Slots : Replaces(s) /\ Replaces(t) => s = t
OneIsPublished == published => \E f \in Frameworks : Roadmap!With("PUBLISHED") = {f}

\* Only requests that publish archive.
StepFits(s) == building[s].step = "archive" => building[s].op \in {"generate and publish", "publish"}

RoadInv ==
  /\ RoadType /\ MappedToOwn
  /\ \A s \in Slots : GeneratesNew(s) /\ NamesWereThere(s) /\ StepFits(s)
  /\ ~replacedTwice => OneReplaces /\ OneIsPublished /\ \A s \in Slots : ReadHolds(s)

LEMMA RoadIdle ==
  /\ Roadmap!Idle \in RoadRequest /\ Roadmap!Idle.op = "idle" /\ Roadmap!Idle.step = "idle"
  /\ Roadmap!Idle.f = None /\ Roadmap!Idle.seen = {}
BY DEF Roadmap!Idle, RoadRequest

LEMMA RoadInit == Roadmap!Init => RoadInv
<1> SUFFICES ASSUME Roadmap!Init PROVE RoadInv
  OBVIOUS
<1>1. RoadType
  BY RoadIdle DEF Roadmap!Init, RoadType, RoadRows
<1>2. \A s \in Slots : building[s].op = "idle" /\ building[s].seen = {} /\ StepFits(s)
  BY RoadIdle DEF Roadmap!Init, StepFits, Roadmap!Idle
<1>3. \A s \in Slots : GeneratesNew(s) /\ NamesWereThere(s) /\ ReadHolds(s) /\ ~Replaces(s)
  BY <1>2 DEF GeneratesNew, NamesWereThere, ReadHolds, Generates, Replaces, Roadmap!Replacing
<1>4. MappedToOwn /\ OneReplaces /\ OneIsPublished
  BY <1>3 DEF Roadmap!Init, MappedToOwn, OneReplaces, OneIsPublished
<1> QED
  BY <1>1, <1>2, <1>3, <1>4 DEF RoadInv

\* A step of one request that leaves the rows alone.
LEMMA RoadGive ==
  ASSUME RoadInv, UNCHANGED <<frameworkStatus, controls, requirements, published>>,
         NEW s \in Slots, NEW request \in RoadRequest, building' = [building EXCEPT ![s] = request],
         GeneratesNew(s)', NamesWereThere(s)', StepFits(s)',
         \A t \in Slots \ {s} : Generates(t) => request.f # building[t].f,
         ~replacedTwice' =>
           /\ ~replacedTwice /\ ReadHolds(s)'
           /\ Replaces(s)' => \A t \in Slots \ {s} : ~Replaces(t)
  PROVE  RoadInv'
<1>1. /\ building' \in [Slots -> RoadRequest] /\ building'[s] = request
      /\ \A t \in Slots \ {s} : building'[t] = building[t]
  BY DEF RoadInv, RoadType
<1>2. RoadType' /\ MappedToOwn'
  BY <1>1 DEF RoadInv, RoadType, RoadRows, MappedToOwn, Roadmap!Exists
<1>3. ASSUME NEW t \in Slots \ {s} PROVE GeneratesNew(t)' /\ NamesWereThere(t)' /\ StepFits(t)'
  <2>1. GeneratesNew(t) /\ NamesWereThere(t) /\ StepFits(t)
    BY DEF RoadInv
  <2>2. GeneratesNew(t)'
    BY <1>1, <2>1 DEF GeneratesNew, Generates
  <2>3. NamesWereThere(t)'
    BY <1>1, <2>1 DEF NamesWereThere, Roadmap!Exists
  <2>4. StepFits(t)'
    BY <1>1, <2>1 DEF StepFits
  <2> QED
    BY <2>2, <2>3, <2>4
<1>4. ASSUME ~replacedTwice' PROVE OneReplaces' /\ OneIsPublished' /\ \A t \in Slots : ReadHolds(t)'
  <2>1. OneReplaces /\ OneIsPublished /\ \A t \in Slots : ReadHolds(t)
    BY <1>4 DEF RoadInv
  <2>2. \A t \in Slots \ {s} : Replaces(t)' <=> Replaces(t)
    BY <1>1 DEF Replaces
  <2>3. OneReplaces'
    BY <1>4, <2>1, <2>2 DEF OneReplaces
  <2>4. ASSUME NEW t \in Slots \ {s} PROVE ReadHolds(t)'
    BY <1>1, <2>1 DEF ReadHolds, Generates, Replaces, Roadmap!With
  <2>5. OneIsPublished'
    BY <2>1 DEF OneIsPublished, Roadmap!With
  <2> QED
    BY <1>4, <2>3, <2>4, <2>5
<1> QED
  BY <1>2, <1>3, <1>4 DEF RoadInv

LEMMA RoadRollBack ==
  ASSUME RoadInv, NEW s \in Slots, UNCHANGED <<frameworkStatus, controls, requirements, published, replacedTwice>>,
         building' = [building EXCEPT ![s] = Roadmap!Idle]
  PROVE  RoadInv'
<1>1. building'[s] = Roadmap!Idle
  BY DEF RoadInv, RoadType
<1>2. GeneratesNew(s)' /\ NamesWereThere(s)' /\ StepFits(s)' /\ ReadHolds(s)' /\ ~Replaces(s)'
  BY <1>1, RoadIdle DEF StepFits, GeneratesNew, NamesWereThere, ReadHolds, Generates, Replaces, Roadmap!Replacing
<1>3. \A t \in Slots : Generates(t) => None # building[t].f
  BY MCComplianceAssumption DEF RoadInv, GeneratesNew
<1> QED
  BY <1>2, <1>3, RoadIdle, RoadGive

LEMMA RoadFindDrafts ==
  ASSUME RoadInv, NEW s \in Slots, NEW op \in Roadmap!Replacing, NEW org \in Profiles,
         Roadmap!FindDrafts(s, op, org)
  PROVE  RoadInv'
<1>1. PICK f \in Roadmap!Unused :
        Roadmap!Begin(s, [Roadmap!Request(op, IF op = "generate" THEN "commit" ELSE "archive", f, org, None)
                            EXCEPT !.seen = Roadmap!With("DRAFT")])
  BY DEF Roadmap!FindDrafts
<1> DEFINE step == IF op = "generate" THEN "commit" ELSE "archive"
           request == [Roadmap!Request(op, step, f, org, None) EXCEPT !.seen = Roadmap!With("DRAFT")]
<1>3. /\ f \in Frameworks /\ frameworkStatus[f] = "none" /\ \A t \in Slots : building[t].f # f
      /\ op \in {"generate", "generate and publish"}
  BY DEF Roadmap!Unused, Roadmap!FindDrafts
<1>4. Roadmap!With("DRAFT") \subseteq Frameworks /\ \A g \in Roadmap!With("DRAFT") : frameworkStatus[g] # "none"
  BY DEF Roadmap!With
<1>2. step \in {"commit", "archive"} /\ (step = "commit" <=> op = "generate")
  OBVIOUS
<1>6. Roadmap!Begin(s, request)
  BY <1>1
<1> HIDE DEF step
<1>5. /\ request \in RoadRequest /\ request.op = op /\ request.step = step /\ request.f = f
      /\ request.seen = Roadmap!With("DRAFT")
  BY <1>2, <1>3, <1>4 DEF RoadRequest, Roadmap!Replacing, Roadmap!Request, Roadmap!Idle
<1> HIDE DEF request
<1>7. /\ building' = [building EXCEPT ![s] = request] /\ building[s] = Roadmap!Idle
      /\ UNCHANGED <<frameworkStatus, controls, requirements, published>>
      /\ replacedTwice' = (replacedTwice
           \/ (request.op \in Roadmap!Replacing /\ \E t \in Slots : building[t].op \in Roadmap!Replacing))
  BY <1>6 DEF Roadmap!Begin
<1>8. building'[s] = request /\ \A t \in Slots \ {s} : building'[t] = building[t]
  BY <1>7 DEF RoadInv, RoadType
<1>9. GeneratesNew(s)'
  BY <1>3, <1>5, <1>7, <1>8 DEF GeneratesNew
<1>10. NamesWereThere(s)'
  BY <1>3, <1>4, <1>5, <1>7, <1>8 DEF NamesWereThere
<1>11. ReadHolds(s)'
  BY <1>2, <1>3, <1>5, <1>7, <1>8 DEF ReadHolds, Generates, Replaces, Roadmap!With
<1>13. StepFits(s)'
  BY <1>2, <1>3, <1>5, <1>8 DEF StepFits
<1>12. ~replacedTwice' => ~replacedTwice /\ \A t \in Slots \ {s} : ~Replaces(t)
  BY <1>5, <1>7 DEF Replaces
<1> QED
  BY <1>3, <1>5, <1>7, <1>9, <1>10, <1>11, <1>12, <1>13, RoadGive

LEMMA RoadCheck ==
  ASSUME RoadInv, NEW s \in Slots, NEW f \in Frameworks,
         NEW op \in {"publish", "control", "requirement", "map"}, NEW step \in {"archive", "commit"},
         NEW code \in Codes \cup Roadmap!Requirements \cup {None}, NEW ctl \in Codes \cup {None},
         Roadmap!Begin(s, Roadmap!Request(op, step, f, code, ctl)), Roadmap!Exists(f),
         op = "publish" => frameworkStatus[f] = "DRAFT" /\ step = "archive",
         op # "publish" => step = "commit",
         op = "control" => code \in Codes,
         op \in {"requirement", "map"} =>
           code \in Roadmap!Requirements /\ (ctl # None => ctl \in controls[f])
  PROVE  RoadInv'
<1> DEFINE request == Roadmap!Request(op, step, f, code, ctl)
<1>1. /\ request \in RoadRequest /\ request.op = op /\ request.step = step /\ request.f = f
      /\ request.code = code /\ request.ctl = ctl /\ request.seen = {}
  BY DEF Roadmap!Request, Roadmap!Idle, RoadRequest, Roadmap!Replacing
<1> HIDE DEF request
<1>2. /\ building' = [building EXCEPT ![s] = request] /\ building[s] = Roadmap!Idle
      /\ UNCHANGED <<frameworkStatus, controls, requirements, published>>
      /\ replacedTwice' = (replacedTwice
           \/ (request.op \in Roadmap!Replacing /\ \E t \in Slots : building[t].op \in Roadmap!Replacing))
  BY DEF Roadmap!Begin, request
<1>3. building'[s] = request /\ \A t \in Slots \ {s} : building'[t] = building[t]
  BY <1>2 DEF RoadInv, RoadType
<1>4. frameworkStatus[f] # "none"
  BY DEF Roadmap!Exists
<1>5. GeneratesNew(s)'
  BY <1>1, <1>3 DEF GeneratesNew, Generates
<1>6. NamesWereThere(s)'
  BY <1>1, <1>2, <1>3, <1>4 DEF NamesWereThere
<1>7. ReadHolds(s)'
  BY <1>1, <1>2, <1>3 DEF ReadHolds, Generates, Replaces, Roadmap!Replacing
<1>10. StepFits(s)'
  BY <1>1, <1>3 DEF StepFits
<1>8. ~replacedTwice' => ~replacedTwice /\ (Replaces(s)' => \A t \in Slots \ {s} : ~Replaces(t))
  BY <1>1, <1>2, <1>3 DEF Replaces
<1>9. \A t \in Slots \ {s} : Generates(t) => request.f # building[t].f
  BY <1>1, <1>4 DEF RoadInv, GeneratesNew
<1> QED
  BY <1>1, <1>2, <1>5, <1>6, <1>7, <1>8, <1>9, <1>10, RoadGive

LEMMA RoadArchive ==
  ASSUME RoadInv, NEW s \in Slots, Roadmap!Archive(s)
  PROVE  RoadInv'
<1> DEFINE ctl == Roadmap!With("PUBLISHED") \ {building[s].f}
           request == [building[s] EXCEPT !.step = "commit", !.ctl = ctl]
<1>1. building' = [building EXCEPT ![s] = request] /\ UNCHANGED <<frameworkStatus, controls, requirements, published, replacedTwice>>
      /\ building[s].step = "archive"
  BY DEF Roadmap!Archive, Roadmap!Give
<1>2. building[s] \in RoadRequest /\ ctl \in SUBSET Frameworks
  BY DEF RoadInv, RoadType, Roadmap!With
<1> HIDE DEF ctl
<1>3. /\ request \in RoadRequest /\ request.op = building[s].op /\ request.f = building[s].f
      /\ request.code = building[s].code /\ request.seen = building[s].seen
      /\ request.step = "commit" /\ request.ctl = ctl
  BY <1>2 DEF RoadRequest
<1> HIDE DEF request
<1>4. building'[s] = request /\ \A t \in Slots \ {s} : building'[t] = building[t]
  BY <1>1 DEF RoadInv, RoadType
<1>5. GeneratesNew(s) /\ NamesWereThere(s)
  BY DEF RoadInv
<1>6. GeneratesNew(s)'
  BY <1>1, <1>3, <1>4, <1>5 DEF GeneratesNew, Generates
<1>7. building[s].op \notin {"idle", "control", "requirement", "map"}
  BY <1>1, <1>5 DEF RoadInv, StepFits
<1>8. NamesWereThere(s)'
  BY <1>1, <1>3, <1>4, <1>5, <1>7 DEF NamesWereThere
<1>9. ~replacedTwice' =>
        /\ ~replacedTwice /\ ReadHolds(s)'
        /\ Replaces(s)' => \A t \in Slots \ {s} : ~Replaces(t)
  <2> SUFFICES ASSUME ~replacedTwice
               PROVE  ReadHolds(s)' /\ (Replaces(s)' => \A t \in Slots \ {s} : ~Replaces(t))
    BY <1>1
  <2>1. ReadHolds(s) /\ OneReplaces
    BY DEF RoadInv
  <2>2. Replaces(s)' <=> Replaces(s)
    BY <1>3, <1>4 DEF Replaces
  <2>3. ReadHolds(s)'
    <3>1. /\ Roadmap!With("DRAFT")' = Roadmap!With("DRAFT")
          /\ Roadmap!With("PUBLISHED")' = Roadmap!With("PUBLISHED")
          /\ frameworkStatus' = frameworkStatus
      BY <1>1 DEF Roadmap!With
    <3>2. /\ Generates(s)' <=> Generates(s)
          /\ building'[s].op = building[s].op /\ building'[s].f = building[s].f
          /\ building'[s].seen = building[s].seen
          /\ building'[s].ctl = Roadmap!With("PUBLISHED") \ {building[s].f}
      BY <1>3, <1>4 DEF Generates, ctl
    <3> QED
      BY <2>1, <3>1, <3>2 DEF ReadHolds
  <2> QED
    BY <2>1, <2>2, <2>3 DEF OneReplaces
<1>10. \A t \in Slots \ {s} : Generates(t) => request.f # building[t].f
  BY <1>3 DEF RoadInv, GeneratesNew
<1>11. StepFits(s)'
  BY <1>3, <1>4 DEF StepFits
<1> QED
  BY <1>1, <1>3, <1>6, <1>8, <1>9, <1>10, <1>11, RoadGive

\* A commit that only adds to the children of frameworks that are there.
LEMMA RoadAdds ==
  ASSUME RoadInv, NEW s \in Slots, building' = [building EXCEPT ![s] = Roadmap!Idle],
         UNCHANGED <<frameworkStatus, published, replacedTwice>>,
         controls' \in [Frameworks -> SUBSET Codes],
         requirements' \in [Frameworks -> SUBSET RequirementRow],
         \A f \in Frameworks : controls[f] \subseteq controls'[f], MappedToOwn'
  PROVE  RoadInv'
<1>1. /\ building' \in [Slots -> RoadRequest] /\ building'[s] = Roadmap!Idle
      /\ \A t \in Slots \ {s} : building'[t] = building[t]
  BY RoadIdle DEF RoadInv, RoadType
<1>2. RoadType'
  BY <1>1 DEF RoadInv, RoadType, RoadRows
<1>3. ASSUME NEW t \in Slots PROVE GeneratesNew(t)' /\ NamesWereThere(t)' /\ StepFits(t)'
  <2>1. CASE t = s
    BY <1>1, <2>1, RoadIdle DEF GeneratesNew, Generates, NamesWereThere, StepFits
  <2>2. CASE t # s
    <3>1. GeneratesNew(t) /\ NamesWereThere(t) /\ StepFits(t)
      BY DEF RoadInv
    <3>2. GeneratesNew(t)'
      BY <1>1, <2>2, <3>1, RoadIdle, MCComplianceAssumption DEF GeneratesNew, Generates
    <3>3. NamesWereThere(t)'
      BY <1>1, <2>2, <3>1 DEF NamesWereThere, Roadmap!Exists
    <3> QED
      BY <1>1, <2>2, <3>1, <3>2, <3>3 DEF StepFits
  <2> QED
    BY <2>1, <2>2
<1>4. ASSUME ~replacedTwice' PROVE OneReplaces' /\ OneIsPublished' /\ \A t \in Slots : ReadHolds(t)'
  <2>1. OneReplaces /\ OneIsPublished /\ \A t \in Slots : ReadHolds(t)
    BY <1>4 DEF RoadInv
  <2>2. ~Replaces(s)' /\ ~Generates(s)' /\ building'[s].op # "publish"
    BY <1>1, RoadIdle DEF Replaces, Generates, Roadmap!Replacing
  <2>3. \A t \in Slots \ {s} : Replaces(t)' <=> Replaces(t)
    BY <1>1 DEF Replaces
  <2>4. OneReplaces'
    BY <2>1, <2>2, <2>3 DEF OneReplaces
  <2>5. ASSUME NEW t \in Slots PROVE ReadHolds(t)'
    BY <1>1, <2>1, <2>2 DEF ReadHolds, Generates, Replaces, Roadmap!With
  <2>6. OneIsPublished'
    BY <2>1 DEF OneIsPublished, Roadmap!With
  <2> QED
    BY <2>4, <2>5, <2>6
<1> QED
  BY <1>2, <1>3, <1>4 DEF RoadInv

LEMMA RoadCreateControl ==
  ASSUME RoadInv, NEW s \in Slots, Roadmap!CreateControl(s)
  PROVE  RoadInv'
<1> DEFINE f == building[s].f
           code == building[s].code
<1>1. /\ building[s].op = "control" /\ building' = [building EXCEPT ![s] = Roadmap!Idle]
      /\ controls' = IF Roadmap!Exists(f) THEN [controls EXCEPT ![f] = controls[f] \cup {code}] ELSE controls
      /\ UNCHANGED <<frameworkStatus, requirements, published, replacedTwice>>
  BY DEF Roadmap!CreateControl, Roadmap!Give
<1>2. f \in Frameworks /\ code \in Codes
  BY <1>1 DEF RoadInv, NamesWereThere
<1>3. controls \in [Frameworks -> SUBSET Codes] /\ requirements \in [Frameworks -> SUBSET RequirementRow]
  BY DEF RoadInv, RoadType, RoadRows
<1> HIDE DEF f, code
<1>4. controls' \in [Frameworks -> SUBSET Codes] /\ \A g \in Frameworks : controls[g] \subseteq controls'[g]
  BY <1>1, <1>2, <1>3
<1>5. MappedToOwn'
  BY <1>1, <1>4 DEF RoadInv, MappedToOwn, Roadmap!Exists
<1> QED
  BY <1>1, <1>3, <1>4, <1>5, RoadAdds

LEMMA RoadSave ==
  ASSUME RoadInv, NEW s \in Slots, Roadmap!SaveRequirement(s)
  PROVE  RoadInv'
<1> DEFINE f == building[s].f
           new == [code |-> building[s].code, ctl |-> building[s].ctl]
           others == {r \in requirements[f] : r.code # building[s].code}
<1>1. /\ building[s].op \in {"requirement", "map"} /\ building' = [building EXCEPT ![s] = Roadmap!Idle]
      /\ \/ requirements' = requirements
         \/ Roadmap!Exists(f) /\ requirements' = [requirements EXCEPT ![f] = others \cup {new}]
      /\ UNCHANGED <<frameworkStatus, controls, published, replacedTwice>>
  BY DEF Roadmap!SaveRequirement, Roadmap!Give
<1>2. /\ f \in Frameworks /\ new \in RequirementRow
      /\ Roadmap!Exists(f) /\ new.ctl # None => new.ctl \in controls[f]
  BY <1>1 DEF RoadInv, NamesWereThere, RequirementRow
<1>3. controls \in [Frameworks -> SUBSET Codes] /\ requirements \in [Frameworks -> SUBSET RequirementRow]
  BY DEF RoadInv, RoadType, RoadRows
<1>4. others \subseteq requirements[f]
  OBVIOUS
<1> HIDE DEF f, new, others
<1>5. requirements' \in [Frameworks -> SUBSET RequirementRow]
  BY <1>1, <1>2, <1>3, <1>4
<1>6. MappedToOwn'
  BY <1>1, <1>2, <1>3, <1>4 DEF RoadInv, MappedToOwn, Roadmap!Exists
<1> QED
  BY <1>1, <1>3, <1>5, <1>6, RoadAdds

\* The commit that generates or publishes: whoever it concerns besides its own
\* framework was there and is gone.
LEMMA RoadReplace ==
  ASSUME RoadInv, NEW s \in Slots, Roadmap!Replace(s)
  PROVE  RoadInv'
<1> DEFINE publishing == building[s].op # "generate"
           selected == Roadmap!Selected(s)
           generated == UNION {[code : Roadmap!Template[c], ctl : {c}] : c \in selected}
<1>1. /\ Replaces(s) /\ building[s].step = "commit" /\ replacedTwice' = replacedTwice
      /\ building' = [building EXCEPT ![s] = Roadmap!Idle]
  BY DEF Roadmap!Replace, Roadmap!Give, Replaces
<1>2. CASE building[s].op = "publish" /\ ~Roadmap!Exists(building[s].f)
  <2>1. UNCHANGED <<frameworkStatus, controls, requirements, published, replacedTwice>>
    BY <1>2 DEF Roadmap!Replace
  <2> QED
    BY <1>1, <2>1, RoadRollBack
<1>3. CASE ~(building[s].op = "publish" /\ ~Roadmap!Exists(building[s].f))
  <2>1. PICK f \in Frameworks : f = building[s].f
    BY <1>1 DEF RoadInv, GeneratesNew, NamesWereThere, Generates, Replaces, Roadmap!Replacing
  <2>2. PICK seen \in SUBSET Frameworks : seen = building[s].seen
    BY DEF RoadInv, RoadType, RoadRequest
  <2>3. selected \subseteq Codes /\ (building[s].op = "publish" => selected = {})
    BY DEF Roadmap!Selected
  <2>4. generated \subseteq RequirementRow /\ \A r \in generated : r.ctl \in selected
    BY <2>3 DEF RequirementRow, Roadmap!Requirements
  <2>5. /\ frameworkStatus' = [g \in Frameworks |->
             IF g = f THEN (IF publishing THEN "PUBLISHED" ELSE "DRAFT")
             ELSE IF g \in seen THEN "deleted"
             ELSE IF publishing /\ g \in building[s].ctl /\ frameworkStatus[g] = "PUBLISHED" THEN "ARCHIVED"
             ELSE frameworkStatus[g]]
        /\ controls' = [g \in Frameworks |-> IF g \in seen THEN {}
             ELSE IF g = f /\ building[s].op # "publish" THEN selected ELSE controls[g]]
        /\ requirements' = [g \in Frameworks |-> IF g \in seen THEN {}
             ELSE IF g = f /\ building[s].op # "publish" THEN generated ELSE requirements[g]]
        /\ published' = (published \/ publishing)
    BY <1>3, <2>1, <2>2 DEF Roadmap!Replace, Roadmap!Children
  <2> HIDE DEF selected, generated
  <2>6. RoadRows
    BY DEF RoadInv, RoadType
  <2>7. RoadRows'
    BY <2>3, <2>4, <2>5, <2>6 DEF RoadRows
  <2>8. /\ building' \in [Slots -> RoadRequest] /\ building'[s] = Roadmap!Idle
        /\ \A t \in Slots \ {s} : building'[t] = building[t]
    BY <1>1, RoadIdle DEF RoadInv, RoadType
  <2>9. f \notin seen /\ \A g \in seen : frameworkStatus[g] # "none"
    BY <1>1, <2>1, <2>2 DEF RoadInv, GeneratesNew, NamesWereThere, Generates, Replaces, Roadmap!Replacing
  <2>10. \A g \in Frameworks : frameworkStatus'[g] = "none" <=> g # f /\ frameworkStatus[g] = "none"
    BY <2>5, <2>9
  <2>11. MappedToOwn'
    <3>1. \A g \in Frameworks \ seen : g # f /\ Roadmap!Exists(g) => Roadmap!Exists(g)'
      BY <2>5, <2>6 DEF Roadmap!Exists, RoadRows
    <3>2. Roadmap!Exists(f)'
      BY <2>5 DEF Roadmap!Exists
    <3>3. ASSUME NEW g \in Frameworks, NEW r \in requirements'[g]
          PROVE  Roadmap!Exists(g)' /\ (r.ctl # None => r.ctl \in controls'[g])
      <4>1. g \notin seen
        BY <2>5, <3>3
      <4>2. CASE g = f /\ building[s].op # "publish"
        BY <2>4, <2>5, <3>2, <3>3, <4>1, <4>2
      <4>3. CASE ~(g = f /\ building[s].op # "publish")
        BY <2>5, <3>1, <3>2, <3>3, <4>1, <4>3 DEF RoadInv, MappedToOwn
      <4> QED
        BY <4>2, <4>3
    <3> QED
      BY <3>3 DEF MappedToOwn
  <2>12. \A g \in Frameworks : Roadmap!Exists(g)' /\ frameworkStatus[g] # "none" =>
            Roadmap!Exists(g) /\ controls'[g] = controls[g]
    BY <1>1, <1>3, <2>1, <2>5, <2>6, <2>9
    DEF Roadmap!Exists, RoadRows, RoadInv, GeneratesNew, Generates, Replaces, Roadmap!Replacing
  <2>13. ASSUME NEW t \in Slots PROVE GeneratesNew(t)' /\ NamesWereThere(t)' /\ StepFits(t)'
    <3>1. CASE t = s
      BY <2>8, <3>1, RoadIdle DEF GeneratesNew, Generates, NamesWereThere, StepFits
    <3>2. CASE t # s
      <4>1. GeneratesNew(t) /\ NamesWereThere(t) /\ StepFits(t) /\ building'[t] = building[t]
        BY <2>8, <3>2 DEF RoadInv
      <4>2. GeneratesNew(t)'
        <5>1. Generates(t)' <=> Generates(t)
          BY <4>1 DEF Generates
        <5>2. ASSUME Generates(t)
              PROVE  /\ building[t].f \in Frameworks /\ frameworkStatus'[building[t].f] = "none"
                     /\ \A u \in Slots : building'[u].f = building[t].f => u = t
          <6>1. /\ building[t].f \in Frameworks /\ frameworkStatus[building[t].f] = "none"
                /\ \A u \in Slots : building[u].f = building[t].f => u = t
            BY <4>1, <5>2 DEF GeneratesNew
          <6>2. frameworkStatus'[building[t].f] = "none"
            BY <2>1, <2>10, <3>2, <6>1
          <6>3. building'[s].f = None /\ None \notin Frameworks
            BY <2>8, RoadIdle, MCComplianceAssumption
          <6> QED
            BY <2>8, <6>1, <6>2, <6>3
        <5> QED
          BY <4>1, <5>1, <5>2 DEF GeneratesNew
      <4>3. building[t].seen \subseteq Frameworks
        BY DEF RoadInv, RoadType, RoadRequest
      <4>4. NamesWereThere(t)'
        BY <2>10, <2>12, <4>1, <4>3 DEF NamesWereThere
      <4> QED
        BY <4>1, <4>2, <4>4 DEF StepFits
    <3> QED
      BY <3>1, <3>2
  <2>14. ASSUME ~replacedTwice' PROVE OneReplaces' /\ OneIsPublished' /\ \A t \in Slots : ReadHolds(t)'
    <3>1. OneReplaces /\ OneIsPublished /\ ReadHolds(s)
      BY <1>1, <2>14 DEF RoadInv
    <3>2. ASSUME NEW t \in Slots PROVE ~Replaces(t)'
      BY <1>1, <2>8, <3>1, RoadIdle DEF OneReplaces, Replaces, Roadmap!Replacing
    <3>3. OneReplaces' /\ \A t \in Slots : ReadHolds(t)'
      BY <3>2 DEF OneReplaces, ReadHolds, Generates, Replaces, Roadmap!Replacing
    <3>4. CASE publishing
      <4>1. building[s].ctl = Roadmap!With("PUBLISHED") \ {f}
        BY <1>1, <2>1, <3>1, <3>4 DEF ReadHolds
      <4>2. Roadmap!With("PUBLISHED")' = {f}
        BY <2>5, <3>4, <4>1 DEF Roadmap!With
      <4> QED
        BY <3>3, <4>2 DEF OneIsPublished
    <3>5. CASE ~publishing
      <4>1. seen = Roadmap!With("DRAFT") /\ frameworkStatus[f] = "none"
        BY <2>1, <2>2, <3>1, <3>5 DEF ReadHolds, Generates, RoadInv, GeneratesNew
      <4>2. Roadmap!With("PUBLISHED")' = Roadmap!With("PUBLISHED")
        BY <2>5, <3>5, <4>1 DEF Roadmap!With
      <4> QED
        BY <2>5, <3>1, <3>3, <3>5, <4>2 DEF OneIsPublished
    <3> QED
      BY <3>4, <3>5
  <2> QED
    BY <2>7, <2>8, <2>11, <2>13, <2>14 DEF RoadInv, RoadType
<1> QED
  BY <1>2, <1>3

LEMMA RoadNext == RoadInv /\ (Roadmap!Next \/ UNCHANGED frameworkVars) => RoadInv'
<1> SUFFICES ASSUME RoadInv, Roadmap!Next \/ UNCHANGED frameworkVars PROVE RoadInv'
  OBVIOUS
<1>1. ASSUME NEW s \in Slots, Roadmap!Check(s) PROVE RoadInv'
  <2>1. CASE \E op \in Roadmap!Replacing : \E org \in Profiles : Roadmap!FindDrafts(s, op, org)
    BY <2>1, RoadFindDrafts
  <2>2. ASSUME NEW f \in Frameworks, Roadmap!FindTarget(s, f) PROVE RoadInv'
    BY <2>2, RoadCheck DEF Roadmap!FindTarget, Roadmap!Exists
  <2>3. ASSUME NEW f \in Frameworks, NEW code \in Codes, Roadmap!CheckControl(s, f, code) PROVE RoadInv'
    BY <2>3, RoadCheck DEF Roadmap!CheckControl
  <2>4. ASSUME NEW f \in Frameworks, NEW code \in Roadmap!Requirements, NEW ctl \in Codes \cup {None},
               Roadmap!CheckRequirement(s, f, code, ctl)
        PROVE  RoadInv'
    BY <2>4, RoadCheck DEF Roadmap!CheckRequirement, Roadmap!ControlOnFramework
  <2>5. ASSUME NEW f \in Frameworks, NEW code \in Roadmap!Requirements, NEW ctl \in Codes,
               Roadmap!CheckMapping(s, f, code, ctl)
        PROVE  RoadInv'
    <3>1. /\ ctl \in controls[f] /\ \E r \in requirements[f] : r.code = code
          /\ Roadmap!Begin(s, Roadmap!Request("map", "commit", f, code, ctl))
      BY <2>5 DEF Roadmap!CheckMapping, Roadmap!ControlOnFramework
    <3> QED
      BY <3>1, RoadCheck DEF RoadInv, MappedToOwn
  <2> QED
    BY <1>1, <2>1, <2>2, <2>3, <2>4, <2>5 DEF Roadmap!Check
<1>2. ASSUME NEW s \in Slots, Roadmap!RollBack(s) PROVE RoadInv'
  BY <1>2, RoadRollBack DEF Roadmap!RollBack, Roadmap!Give
<1>3. CASE UNCHANGED frameworkVars
  <2>1. UNCHANGED <<frameworkStatus, controls, requirements, building, published, replacedTwice>>
    BY <1>3 DEF frameworkVars
  <2>2. RoadType' /\ MappedToOwn'
    BY <2>1 DEF RoadInv, RoadType, RoadRows, MappedToOwn, Roadmap!Exists
  <2>3. \A s \in Slots : GeneratesNew(s)' /\ NamesWereThere(s)' /\ StepFits(s)'
    BY <2>1 DEF RoadInv, GeneratesNew, NamesWereThere, StepFits, Generates, Roadmap!Exists
  <2>4. ~replacedTwice => OneReplaces' /\ OneIsPublished' /\ \A s \in Slots : ReadHolds(s)'
    BY <2>1 DEF RoadInv, ReadHolds, Generates, Replaces, OneReplaces, OneIsPublished, Roadmap!With
  <2> QED
    BY <2>1, <2>2, <2>3, <2>4 DEF RoadInv
<1> QED
  BY <1>1, <1>2, <1>3, RoadArchive, RoadReplace, RoadCreateControl, RoadSave DEF Roadmap!Next

---------------------------------------------------------------------------
(* The questionnaire: an evaluation that was not replaced was read from      *)
(* answers that are still given, since an answer is never taken back within   *)
(* a version; so what the gate found complete stays complete.                *)

Stored(Q) == [Q -> Gate(Q)!Values \cup {"none"}]

\* What was read as answered is answered.
Kept(Q, given, now) == \A q \in Q : given[q] # "none" => now[q] # "none"

GateInv(Q) ==
  /\ industry \in Texts
  /\ stored \in Stored(Q)
  /\ evaluation # None =>
       /\ evaluation \in [answers : Stored(Q), replaced : BOOLEAN]
       /\ ~evaluation.replaced => Kept(Q, evaluation.answers, stored)
  /\ readiness # None =>
       /\ readiness.domain \in Gate(Q)!Domains \cup {None}
       /\ readiness.answers \in Stored(Q)
       /\ Gate(Q)!Missing(readiness.domain, readiness.answers) = {}
       /\ Kept(Q, readiness.answers, stored)

LEMMA GateInit ==
  ASSUME NEW Q, Gate(Q)!Init
  PROVE  GateInv(Q)
BY DEF Gate!Init, GateInv, Stored, Gate!Unanswered

LEMMA GateSave ==
  ASSUME NEW Q, GateInv(Q), NEW q \in Q, NEW value \in Gate(Q)!Values, Gate(Q)!SaveQuestionnaire(q, value)
  PROVE  GateInv(Q)'
<1>1. stored' \in Stored(Q)
  BY DEF GateInv, Gate!SaveQuestionnaire, Stored
<1>2. \A given \in Stored(Q) : Kept(Q, given, stored) => Kept(Q, given, stored')
  BY DEF GateInv, Gate!SaveQuestionnaire, Stored, Kept, Gate!Values
<1>3. evaluation' # None =>
        /\ evaluation' \in [answers : Stored(Q), replaced : BOOLEAN]
        /\ ~evaluation'.replaced => Kept(Q, evaluation'.answers, stored')
  BY <1>2 DEF GateInv, Gate!SaveQuestionnaire
<1>4. readiness' # None =>
        /\ readiness'.answers \in Stored(Q)
        /\ Gate(Q)!Missing(readiness'.domain, readiness'.answers) = {}
        /\ Kept(Q, readiness'.answers, stored')
  BY <1>2 DEF GateInv, Gate!SaveQuestionnaire
<1> QED
  BY <1>1, <1>3, <1>4 DEF GateInv, Gate!SaveQuestionnaire

LEMMA GateNewVersion ==
  ASSUME NEW Q, GateInv(Q), Gate(Q)!CreateVersion
  PROVE  GateInv(Q)'
<1>1. stored' \in Stored(Q)
  BY DEF Gate!CreateVersion, Stored, Gate!Unanswered
<1>2. evaluation' # None =>
        evaluation' \in [answers : Stored(Q), replaced : BOOLEAN] /\ evaluation'.replaced
  BY DEF GateInv, Gate!CreateVersion
<1> QED
  BY <1>1, <1>2 DEF GateInv, Gate!CreateVersion

LEMMA GateRead ==
  ASSUME NEW Q, GateInv(Q), Gate(Q)!ReadAnswers
  PROVE  GateInv(Q)'
BY DEF GateInv, Gate!ReadAnswers, Kept

\* The first pattern that matches is one of a domain.
LEMMA NormalizeType ==
  ASSUME NEW Q, NEW text
  PROVE  Gate(Q)!Normalize(text) \in Gate(Q)!Domains \cup {None}
<1> DEFINE order == Gate(Q)!AliasOrder
           hits == {i \in DOMAIN order : order[i] \in text.matches}
<1>1. order \in [1 .. 10 -> Gate(Q)!Domains]
  BY DEF Gate!AliasOrder, Gate!Domains, Gate!Pack
<1>2. CASE hits # {}
  <2>1. hits \subseteq Nat
    BY <1>1
  <2>2. PICK i \in hits : \A j \in hits : i <= j
    <3> HIDE DEF hits
    <3> QED BY <1>2, <2>1, LeastElement
  <2>3. (CHOOSE k \in hits : \A j \in hits : k <= j) \in hits
    BY <2>2
  <2>4. order[CHOOSE k \in hits : \A j \in hits : k <= j] \in Gate(Q)!Domains
    BY <1>1, <2>3
  <2> QED
    BY <1>2, <2>4 DEF Gate!Normalize
<1>3. CASE hits = {}
  BY <1>3 DEF Gate!Normalize
<1> QED
  BY <1>2, <1>3

LEMMA GateDecide ==
  ASSUME NEW Q, GateInv(Q), Gate(Q)!Decide
  PROVE  GateInv(Q)'
<1>1. CASE readiness' = readiness
  BY <1>1 DEF GateInv, Gate!Decide
<1>2. CASE readiness' # readiness
  <2> DEFINE domain == Gate(Q)!Normalize(industry)
  <2> HIDE DEF domain
  <2>1. /\ Gate(Q)!Missing(domain, evaluation.answers) = {} /\ ~evaluation.replaced
        /\ readiness' = [answers |-> evaluation.answers, domain |-> domain]
        /\ evaluation # None
    BY <1>2 DEF Gate!Decide, domain
  <2>2. evaluation.answers \in Stored(Q) /\ Kept(Q, evaluation.answers, stored)
    BY <2>1 DEF GateInv
  <2>3. domain \in Gate(Q)!Domains \cup {None}
    BY NormalizeType DEF domain
  <2> QED
    BY <2>1, <2>2, <2>3 DEF GateInv, Gate!Decide
<1> QED
  BY <1>1, <1>2

LEMMA GateNext ==
  ASSUME NEW Q, GateInv(Q), Gate(Q)!Next \/ UNCHANGED gateVars
  PROVE  GateInv(Q)'
<1>1. CASE \E text \in Texts : Gate(Q)!SetIndustry(text)
  BY <1>1 DEF GateInv, Gate!SetIndustry
<1>2. CASE \E q \in Q : \E value \in Gate(Q)!Values : Gate(Q)!SaveQuestionnaire(q, value)
  BY <1>2, GateSave
<1>3. CASE Gate(Q)!CreateVersion
  BY <1>3, GateNewVersion
<1>4. CASE Gate(Q)!ReadAnswers
  BY <1>4, GateRead
<1>5. CASE Gate(Q)!Decide
  BY <1>5, GateDecide
<1>6. CASE UNCHANGED gateVars
  BY <1>6 DEF GateInv, gateVars
<1> QED
  BY <1>1, <1>2, <1>3, <1>4, <1>5, <1>6 DEF Gate!Next

LEMMA AskedAreCore ==
  ASSUME NEW Q, NEW q \in Gate(Q)!AskedByControls
  PROVE  q \in Gate(Q)!Core /\ \A p \in Gate(Q)!ParentsOf(q) : p \in Gate(Q)!Core /\ Gate(Q)!ParentsOf(p) = {}
<1>1. q \in {"Q-NOTICE-PUBLISHED", "Q-CONSENT-COLLECT", "Q-CONSENT-WITHDRAW", "Q-RIGHTS-ACCESS",
             "Q-RIGHTS-CORRECT", "Q-RIGHTS-DELETE", "Q-GRIEVANCE", "Q-BREACH-PROCESS",
             "Q-RETENTION", "Q-VENDORS", "Q-VENDOR-INVENTORY", "Q-DPA", "Q-PRIVACY-OWNER",
             "Q-TRAINING", "Q-SDF", "Q-DPO"}
  BY DEF Gate!AskedByControls, Gate!Asks
<1>2. q \in Gate(Q)!Core
  BY <1>1 DEF Gate!Core, Gate!ConsentAndRightsQuestions, Gate!OperationsQuestions
<1>3. \A p \in Gate(Q)!ParentsOf(q) : p \in {"Q-VENDORS", "Q-SDF"}
  BY <1>1 DEF Gate!ParentsOf, Gate!FollowUps, Gate!CoreFollowUps, Gate!PackFollowUps
<1>4. Gate(Q)!ParentsOf("Q-VENDORS") = {} /\ Gate(Q)!ParentsOf("Q-SDF") = {}
  BY DEF Gate!ParentsOf, Gate!FollowUps, Gate!CoreFollowUps, Gate!PackFollowUps
<1> QED
  BY <1>2, <1>3, <1>4 DEF Gate!Core, Gate!OperationsQuestions

\* In no evaluation the gate lets through does a control ask for an answer that
\* is simply missing, whatever the organization's industry (evaluate against
\* ASSESSMENT_CONTROL_REGISTRY).
LEMMA GateFits ==
  ASSUME NEW Q, GateInv(Q)
  PROVE  Gate(Q)!GateFitsEngine
<1> SUFFICES ASSUME readiness # None, NEW q \in Q \cap Gate(Q)!AskedByControls,
                      Gate(Q)!Truthy(readiness.answers[q]) = "none", readiness.answers[q] # "other"
               PROVE  \E p \in Gate(Q)!ParentsOf(q) \cap Q :
                        readiness.answers[p] \in {"false", "yes", "other"}
  BY DEF Gate!GateFitsEngine
<1> DEFINE given == readiness.answers
<1>1. given \in Stored(Q) /\ Gate(Q)!Missing(readiness.domain, given) = {}
  BY DEF GateInv
<1>2. \A r \in Gate(Q)!Core \cap Q : Gate(Q)!Hidden(r, given) \/ given[r] # "none"
  BY <1>1 DEF Gate!Missing, Gate!Required, Gate!QuestionsFor
<1>3. given[q] = "none"
  BY <1>1 DEF Gate!Truthy, Stored, Gate!Values
<1>4. PICK p \in Gate(Q)!ParentsOf(q) \cap Q : given[p] # "true"
  BY <1>2, <1>3, AskedAreCore DEF Gate!Hidden
<1>5. given[p] # "none"
  BY <1>2, AskedAreCore DEF Gate!Hidden
<1> QED
  BY <1>1, <1>4, <1>5 DEF Stored, Gate!Values

LEMMA GateRepeats ==
  ASSUME NEW Q, GateInv(Q)
  PROVE  Gate(Q)!ReportsCanBeRepeated
BY DEF GateInv, Gate!ReportsCanBeRepeated, Gate!Missing, Gate!Required, Gate!Hidden, Kept

GateAtWork ==
  /\ component = "pack" => GateInv(PackQuestions)
  /\ component # "pack" => GateInv(CoreQuestions)

LEMMA GateAtWorkInit == Init => GateAtWork
BY GateInit DEF Init, GateAtWork

LEMMA GateAtWorkNext == GateAtWork /\ [Next]_vars => GateAtWork'
<1> SUFFICES ASSUME GateAtWork, [Next]_vars PROVE GateAtWork'
  OBVIOUS
<1>1. ASSUME component # "pack" PROVE GateInv(CoreQuestions)'
  <2>1. Gate(CoreQuestions)!Next \/ UNCHANGED gateVars
    BY <1>1, OneMoves
  <2> QED
    BY <1>1, <2>1, GateNext DEF GateAtWork
<1>2. ASSUME component = "pack" PROVE GateInv(PackQuestions)'
  <2>1. Gate(PackQuestions)!Next \/ UNCHANGED gateVars
    BY <1>2, OneMoves
  <2> QED
    BY <1>2, <2>1, GateNext DEF GateAtWork
<1>3. component' = component
  BY OneMoves
<1> QED
  BY <1>1, <1>2, <1>3 DEF GateAtWork

\* No evaluation the gate lets through leaves the engine an applicable question
\* unanswered, and what was accepted can be accepted again, whatever questions
\* are considered and whatever answers, industries and versions come between.
THEOREM GateIsSoundAlways == Spec => []GateIsSound
<1>1. GateAtWork => GateIsSound
  BY GateFits, GateRepeats DEF GateAtWork, GateIsSound
<1> QED
  BY <1>1, GateAtWorkInit, GateAtWorkNext, PTL DEF Spec

---------------------------------------------------------------------------
(* Histories and jobs: their invariants hold whichever component is at work. *)

TrailsInv == GapInv /\ TrailInv /\ FilesInv

LEMMA TrailsInvariant == Spec => []TrailsInv
<1>1. Init => TrailsInv
  BY GapInit, TrailInit, FilesInit DEF Init, TrailsInv
<1>2. TrailsInv /\ [Next]_vars => TrailsInv'
  BY OneMoves, GapNext, TrailNext, FilesNext DEF TrailsInv
<1> QED
  BY <1>1, <1>2, PTL DEF Spec

\* Versions of assessments and notices have no gap and no repetition, every
\* withdrawal of consent is announced once, and a locked file was approved,
\* however many requests overlap (createVersion, publishNotice, withdrawConsent,
\* transition).
THEOREM TrailsAreCompleteAlways == Spec => []TrailsAreComplete
<1>1. TrailsInv => TrailsAreComplete
  BY DEF TrailsInv, GapInv, TrailInv, FilesInv, TrailsAreComplete
<1> QED
  BY <1>1, TrailsInvariant, PTL

\* Two audit events recorded under the assessment's row lock never follow the
\* same head, whatever other events are appended without it (appendAuditEvent).
THEOREM HeldEventsAreChainedAlways == Spec => []HeldEventsAreChained
<1>1. TrailsInv => HeldEventsAreChained
  BY DEF TrailsInv, GapInv, ChainGrows, HeldEventsAreChained
<1> QED
  BY <1>1, TrailsInvariant, PTL

LEMMA JobsInvariant == Spec => []JobsInv
<1>1. Init => JobsInv
  BY JobsInit DEF Init
<1>2. JobsInv /\ [Next]_vars => JobsInv'
  BY OneMoves, JobsNext
<1> QED
  BY <1>1, <1>2, PTL DEF Spec

\* No order of submitting, executing, stalling and cancelling a job strands its
\* row without a fault or a worker faster than the commit, and none announces a
\* report whose cancellation met no execution and whose job was handed out once,
\* for any number of requests and workers.
THEOREM JobsAreAccountableAlways == Spec => []JobsAreAccountable
<1>1. ASSUME JobsInv PROVE Jobs!StrandedHasExcuse
  <2> SUFFICES ASSUME NEW r \in Requests, Jobs!Settled(r), Open(r), excuse[r] = {} PROVE FALSE
    BY DEF Jobs!StrandedHasExcuse, Open
  <2>1. /\ submit[r] = "done" /\ job[r] \notin {"waiting", "active"} /\ cancel[r] # "removed"
        /\ \A w \in Workers : ~Executes(w, r)
    BY DEF Jobs!Settled, Executes
  <2> QED
    BY <1>1, <2>1 DEF JobsInv, JobInv, Pursued
<1>2. ASSUME JobsInv PROVE Jobs!CancelledWasRunning
  <2> SUFFICES ASSUME NEW r \in Requests, row[r].deleted, row[r].announced > 0, ~late[r]
               PROVE  stalls[r] > 0
    BY DEF Jobs!CancelledWasRunning
  <2>1. stalls[r] \in {0, 1, 2}
    BY <1>2 DEF JobsInv, JobsType
  <2>2. stalls[r] # 0
    BY <1>2 DEF JobsInv, JobInv, RemovedUnseen
  <2> QED
    BY <2>1, <2>2
<1>3. JobsInv => JobsAreAccountable
  BY <1>1, <1>2 DEF JobsAreAccountable
<1> QED
  BY <1>3, JobsInvariant, PTL

---------------------------------------------------------------------------
(* Vendors, engine and framework                                           *)

LEMMA RoadInvariant == Spec => []RoadInv
<1>1. Init => RoadInv
  BY RoadInit DEF Init
<1>2. RoadInv /\ [Next]_vars => RoadInv'
  BY OneMoves, RoadNext
<1> QED
  BY <1>1, <1>2, PTL DEF Spec

LEMMA RoadCounts ==
  ASSUME NEW S
  PROVE  Roadmap!Cardinality(S) = Cardinality(S)
BY DEF Roadmap!Cardinality, Cardinality

\* However requests overlap or fail, a vendor whose stored score differs from that
\* of the registry's rows is one whose score a request is going to store, or one
\* that is overlooked: since its score was last computed a PATCH changed it or the
\* criticality class of one below it, a date passed, a request that had changed it
\* failed, found another version or stopped at a vendor that was gone, or a link
\* to it raced with an offboarding (refreshScores after the commit).  Agreements
\* that do not race supersede each other (createAgreement); and while no two
\* replacements met, an organization that published a framework has one published
\* (replacePublished), whose requirements name its own controls.
THEOREM RegistryIsSoundAlways == Spec => []RegistryIsSound
<1>1. VendorsAtWork =>
        /\ component = "serial" => Vendor(Scope.serial)!ScoresAreCurrent
        /\ component = "ending" => Vendor(Scope.ending)!ScoresAreCurrent
        /\ component = "signing" =>
             Vendor(Scope.signing)!ScoresAreCurrent /\ Vendor(Scope.signing)!OneAgreementInForce
  BY ScoresOf, ScopesFit DEF VendorsAtWork
<1>2. ASSUME RoadInv PROVE Roadmap!OneFrameworkPublished
  <2>1. ASSUME published, ~replacedTwice PROVE Roadmap!Cardinality(Roadmap!With("PUBLISHED")) = 1
    <3>1. PICK f \in Frameworks : Roadmap!With("PUBLISHED") = {f}
      BY <1>2, <2>1 DEF RoadInv, OneIsPublished
    <3> QED
      BY <3>1, RoadCounts, FS_Singleton
  <2> QED
    BY <1>2, <2>1 DEF RoadInv, MappedToOwn, Roadmap!OneFrameworkPublished
<1>3. VendorsAtWork /\ RoadInv => RegistryIsSound
  BY <1>1, <1>2 DEF RegistryIsSound
<1> QED
  BY <1>3, VendorsInvariant, RoadInvariant, PTL

\* Another document or another finding never lowers the score (evaluateControls),
\* the two ceilings included, unless children's data is processed, for any
\* set of controls.
THEOREM EvidenceNeverLowersScoreAlways == Spec => EvidenceNeverLowersScore
<1>1. ASSUME [Next]_vars, component = "policy", ~UNCHANGED engineVars PROVE ScoreHolds(PolicyControls)
  <2>1. Engine(PolicyControls)!Next
    BY <1>1, OneMoves
  <2> QED
    BY <2>1, EvidenceIsKept, ScoreIsKept, MCComplianceAssumption DEF ScoreHolds
<1>2. ASSUME [Next]_vars, component = "registry", ~UNCHANGED engineVars PROVE ScoreHolds(RegistryControls)
  <2>1. Engine(RegistryControls)!Next
    BY <1>2, OneMoves
  <2> QED
    BY <2>1, EvidenceIsKept, ScoreIsKept, MCComplianceAssumption DEF ScoreHolds
<1>3. [Next]_vars =>
        [/\ component = "policy" => ScoreHolds(PolicyControls)
         /\ component = "registry" => ScoreHolds(RegistryControls)]_engineVars
  BY <1>1, <1>2
<1> QED
  BY <1>3, PTL DEF Spec, EvidenceNeverLowersScore

---------------------------------------------------------------------------
(* Types: each component's invariant says what its rows and requests are.   *)

EngineType(C) == Engine(C)!TypeOK

EnginesAtWork ==
  /\ component = "registry" => EngineType(RegistryControls)
  /\ component # "registry" => EngineType(PolicyControls)

LEMMA EngineInit ==
  ASSUME NEW C, Engine(C)!Init
  PROVE  EngineType(C)
BY DEF Engine!Init, EngineType, Engine!TypeOK

LEMMA EngineNext ==
  ASSUME NEW C, EngineType(C), Engine(C)!Next
  PROVE  EngineType(C)'
<1>1. ASSUME NEW q \in Engine(C)!Questions, NEW value \in {"yes", "no", "none"},
             Engine(C)!SaveQuestionnaire(q, value)
      PROVE  EngineType(C)'
  BY <1>1 DEF Engine!SaveQuestionnaire, EngineType, Engine!TypeOK, Engine!Questions
<1>2. ASSUME NEW hints \in {{}, C}, NEW hits \in SUBSET C, NEW long \in BOOLEAN,
             Engine(C)!UploadDocument(hints, hits, long)
      PROVE  EngineType(C)'
  BY <1>2 DEF Engine!UploadDocument, EngineType, Engine!TypeOK, Engine!Questions
<1>3. ASSUME NEW c \in C \cup {"other"}, Engine(C)!SubmitEvidenceBatch({c})
      PROVE  EngineType(C)'
  BY <1>3 DEF Engine!SubmitEvidenceBatch, EngineType, Engine!TypeOK, Engine!Questions
<1>4. ASSUME Engine(C)!VendorsChange PROVE EngineType(C)'
  BY <1>4 DEF Engine!VendorsChange, EngineType, Engine!TypeOK, Engine!Questions
<1>5. \A c \in C : {} \in SUBSET C /\ {c} \in SUBSET C /\ FALSE \in BOOLEAN
  OBVIOUS
<1> QED
  BY <1>1, <1>2, <1>3, <1>4, <1>5 DEF Engine!Next

LEMMA EngineStutters ==
  ASSUME NEW C, EngineType(C), UNCHANGED engineVars
  PROVE  EngineType(C)'
BY DEF EngineType, engineVars, Engine!TypeOK, Engine!Questions

LEMMA EnginesInvariant == Spec => []EnginesAtWork
<1>1. Init => EnginesAtWork
  BY EngineInit DEF Init, EnginesAtWork
<1>2. ASSUME EnginesAtWork, [Next]_vars PROVE EnginesAtWork'
  <2>1. component' = component
    BY <1>2, OneMoves
  <2>2. ASSUME component = "registry" PROVE EngineType(RegistryControls)'
    <3>1. Engine(RegistryControls)!Next \/ UNCHANGED engineVars
      BY <1>2, <2>2, OneMoves
    <3> QED
      BY <1>2, <2>2, <3>1, EngineNext, EngineStutters DEF EnginesAtWork
  <2>3. ASSUME component # "registry" PROVE EngineType(PolicyControls)'
    <3>1. Engine(PolicyControls)!Next \/ UNCHANGED engineVars
      BY <1>2, <2>3, OneMoves
    <3> QED
      BY <1>2, <2>3, <3>1, EngineNext, EngineStutters DEF EnginesAtWork
  <2> QED
    BY <2>1, <2>2, <2>3 DEF EnginesAtWork
<1> QED
  BY <1>1, <1>2, PTL DEF Spec

LEMMA GapTypes == GapInv => Gap!TypeOK
<1> SUFFICES ASSUME GapInv PROVE Gap!TypeOK
  OBVIOUS
<1>1. GapType /\ GapRows
  BY DEF GapInv, GapType
<1>2. \A v \in Gap!Versions :
        /\ scans[v].status \in {None, "RUNNING", "COMPLETED"}
        /\ scans[v].ai \in {None, "COMPLETED", "FAILED"}
  BY <1>1 DEF GapRows, ScanRow
<1>3. ASSUME NEW i \in 1 .. Len(frozen)
      PROVE  frozen[i].number \in Gap!Versions /\ frozen[i].pack \in (SUBSET Gap!Inputs) \cup {None}
  <2>1. frozen[i] \in Frozen
    BY <1>1 DEF GapType
  <2>2. frozen[i].number = i /\ Len(frozen) = current /\ current \in 1 .. AssessmentVersions
    BY <1>1, VersionsAre DEF GapInv, GapType, Gap!VersionsNumbered
  <2>3. frozen[i].number \in Gap!Versions
    BY <2>2, VersionsAre, MCComplianceAssumption
  <2> QED
    BY <2>1, <2>3 DEF Frozen, Pack
<1>4. ASSUME NEW i \in 1 .. Len(chain) PROVE chain[i].prev < i /\ chain[i].held \in BOOLEAN
  <2>1. chain[i] \in AuditEvent
    BY <1>1 DEF GapType
  <2> QED
    BY <2>1 DEF AuditEvent, GapInv, ChainGrows
<1>5. ASSUME NEW s \in Slots
      PROVE  /\ assessing[s].op \in Gap!AllOps \cup {"idle"}
             /\ assessing[s].step \in {"read", "locked", "head", "classify"}
             /\ assessing[s].version \in Gap!Versions
             /\ assessing[s].read \in (SUBSET Gap!Inputs) \cup {None}
  BY <1>1 DEF GapType, GapRequest, Pack
<1> QED
  BY <1>1, <1>2, <1>3, <1>4, <1>5 DEF GapType, GapRows, Pack, Gap!AllOps, Gap!Locking, Gap!TypeOK

LEMMA TrailTypes == TrailInv => Trail!TypeOK
<1> SUFFICES ASSUME TrailInv PROVE Trail!TypeOK
  OBVIOUS
<1>1. TrailType /\ NoticesRead /\ Trail!NoticeHistory
  BY DEF TrailInv
<1>2. ASSUME NEW i \in Trail!Rows(notices)
      PROVE  notices[i].version \in 1 .. NoticeVersions /\ notices[i].deleted \in BOOLEAN
  <2>1. notices[i] \in NoticeType /\ i \in 1 .. Len(notices) /\ Len(notices) \in Nat
    BY <1>1 DEF TrailType, Trail!Rows
  <2>2. notices[i].version = i /\ Len(notices) <= NoticeVersions
    BY <1>1 DEF NoticesRead, Trail!NoticeHistory
  <2>3. notices[i].deleted \in BOOLEAN
    BY <2>1 DEF NoticeType
  <2> QED
    BY <2>1, <2>2, <2>3, MCComplianceAssumption
<1>3. ASSUME NEW i \in Trail!Rows(consents)
      PROVE  consents[i].notice \in Trail!Rows(notices) /\ consents[i].state \in {"GRANTED", "WITHDRAWN"}
  <2>1. consents[i] \in ConsentType
    BY <1>1 DEF TrailType, Trail!Rows
  <2> QED
    BY <1>1, <2>1 DEF NoticesRead, ConsentType
<1>4. \A s \in Slots : consenting[s].op \in {"idle", "publish", "record", "withdraw"}
  BY <1>1 DEF TrailType, ConsentRequest
<1> QED
  BY <1>2, <1>3, <1>4 DEF Trail!TypeOK

LEMMA JobTypes == JobsInv => Jobs!TypeOK
<1> SUFFICES ASSUME JobsInv, NEW r \in Requests
             PROVE  /\ row[r].kind \in {"report", "ai", "notification"} \cup {None}
                    /\ row[r].status \in {"none", "PENDING", "RUNNING", "COMPLETED", "FAILED", "READ"}
                    /\ job[r] \in {"none", "waiting", "active", "completed", "failed", "removed"}
                    /\ stalls[r] \in 0 .. 2 /\ row[r].announced <= 3
                    /\ \A w \in Workers : run[w].step \in {"free", "find", "start", "work"}
  BY DEF Jobs!TypeOK
<1>1. JobsType /\ AnnouncedInTurn(r)
  BY DEF JobsInv, JobInv
<1>2. row[r] \in JobRow
  BY <1>1 DEF JobsType
<1>3. stalls[r] \in {0, 1, 2} /\ row[r].announced \in Nat
  BY <1>1, <1>2 DEF JobsType, JobRow
<1>4. row[r].announced <= 3
  <2>1. InTurn(r, 0) \in {0, 1} /\ InTurn(r, 1) \in {0, 1}
    BY DEF InTurn
  <2> HIDE DEF InTurn
  <2> QED
    BY <1>1, <1>3, <2>1 DEF AnnouncedInTurn
<1>5. \A w \in Workers : run[w].step \in {"free", "find", "start", "work"}
  BY <1>1 DEF JobsType, Execution, Jobs!Free
<1>6. stalls[r] \in 0 .. 2
  BY <1>3
<1> QED
  BY <1>1, <1>2, <1>4, <1>5, <1>6 DEF JobsType, JobRow

LEMMA VendorTypes ==
  ASSUME NEW scope, VendorInv(scope)
  PROVE  Vendor(scope)!TypeOK
<1>1. VendorRows(scope) /\ managing \in [scope.slots -> VendorRequest(scope)]
  BY DEF VendorInv, VendorType
<1>2. \A e \in edges : e.parent \in scope.ids /\ e.child \in scope.ids \ {e.parent}
  BY <1>1 DEF VendorRows, Edge
<1>3. \A s \in scope.slots :
        /\ managing[s].step \in {"idle", "check", "commit", "refresh", "facts", "store"}
        /\ managing[s].refresh \subseteq scope.ids
  BY <1>1 DEF VendorRequest
<1>4. \A s \in scope.slots : managing[s].op \in scope.ops \cup {"idle"}
  BY DEF VendorInv, RequestFits
<1> QED
  BY <1>1, <1>2, <1>3, <1>4 DEF VendorRows, Vendor!TypeOK

LEMMA GateTypes ==
  ASSUME NEW Q, GateInv(Q)
  PROVE  Gate(Q)!TypeOK
BY DEF GateInv, Stored, Gate!TypeOK

\* Whatever component is at work, its rows and the requests in flight stay in
\* their types; the bounds named by the types are those of the instances.
THEOREM ComplianceTypeCorrect == Spec => []TypeOK
<1> DEFINE Inv == TrailsInv /\ JobsInv /\ RoadInv /\ VendorsAtWork /\ EnginesAtWork /\ GateAtWork
<1>1. ASSUME Inv PROVE TypeOK
  <2>1. Gap!TypeOK /\ Trail!TypeOK /\ Jobs!TypeOK
    BY <1>1, GapTypes, TrailTypes, JobTypes DEF TrailsInv
  <2>2. Files!TypeOK
    BY <1>1 DEF TrailsInv, FilesInv, FilesType, FileType, Files!TypeOK
  <2>3. Roadmap!TypeOK
    BY <1>1 DEF RoadInv, RoadType, RoadRows, RoadRequest, RequirementRow, Roadmap!TypeOK
  <2>4. /\ component = "graph" => Vendor(Scope.graph)!TypeOK
        /\ component = "serial" => Vendor(Scope.serial)!TypeOK
        /\ component = "ending" => Vendor(Scope.ending)!TypeOK
        /\ component \notin {"graph", "serial", "ending"} => Vendor(Scope.signing)!TypeOK
    BY <1>1, VendorTypes DEF VendorsAtWork, GraphInv, ScoreInv
  <2>5. /\ component = "pack" => Gate(PackQuestions)!TypeOK
        /\ component # "pack" => Gate(CoreQuestions)!TypeOK
    BY <1>1, GateTypes DEF GateAtWork
  <2>6. /\ component = "registry" => Engine(RegistryControls)!TypeOK
        /\ component # "registry" => Engine(PolicyControls)!TypeOK
    BY <1>1 DEF EnginesAtWork, EngineType
  <2> QED
    BY <2>1, <2>2, <2>3, <2>4, <2>5, <2>6 DEF TypeOK
<1>2. Spec => []GateAtWork
  BY GateAtWorkInit, GateAtWorkNext, PTL DEF Spec
<1> QED
  BY <1>1, <1>2, TrailsInvariant, JobsInvariant, RoadInvariant, VendorsInvariant, EnginesInvariant, PTL
=============================================================================
