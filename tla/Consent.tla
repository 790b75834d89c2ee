------------------------------- MODULE Consent -------------------------------
(***************************************************************************)
(* Privacy notices of one title (NoticeService) and the consent records     *)
(* given under them (ConsentRecordService).  Every request reads first and  *)
(* then writes in a transaction that does not look again, except for the    *)
(* unique index on a notice's title and version.                            *)
(***************************************************************************)
EXTENDS Naturals, Sequences

CONSTANTS
  Slots,        \* requests in flight
  MaxVersions,  \* bound: notices
  MaxEvents,    \* bound: consents given and withdrawn
  None

VARIABLES
  notices,   \* rows in the order of their insertion: version, deleted
  consents,  \* rows: the notice's row, state
  events,    \* ConsentRecorded and ConsentWithdrawn
  slot,      \* requests in flight: operation, row, what was read
  raced      \* history: records that two withdrawals met on

vars == <<notices, consents, events, slot, raced>>

Idle == [op |-> "idle", row |-> 0, read |-> 0]

Rows(table) == 1 .. Len(table)

---------------------------------------------------------------------------
(* Notices                                                                 *)

\* findLatestByTitle does not see deleted notices.
LatestVersion ==
  LET live == {notices[i].version : i \in {j \in Rows(notices) : ~notices[j].deleted}}
  IN  IF live = {} THEN 0 ELSE CHOOSE v \in live : \A w \in live : w <= v

ReadLatest(s) ==
  /\ slot[s] = Idle /\ Len(notices) < MaxVersions
  /\ slot' = [slot EXCEPT ![s] = [op |-> "publish", row |-> 0, read |-> LatestVersion]]
  /\ UNCHANGED <<notices, consents, events, raced>>

\* Seeded fault: no unique index.
Conflicts_Fault(version) == FALSE

\* The unique index covers deleted notices.
Conflicts(version) == \E i \in Rows(notices) : notices[i].version = version

PublishNotice(s) ==
  /\ slot[s].op = "publish"
  /\ LET version == slot[s].read + 1
     IN  notices' = IF Conflicts(version) THEN notices
                    ELSE Append(notices, [version |-> version, deleted |-> FALSE])
  /\ slot' = [slot EXCEPT ![s] = Idle]
  /\ UNCHANGED <<consents, events, raced>>

\* A deletion finds a live notice and deletes it by id.
DeleteNotice(i) ==
  /\ ~notices[i].deleted
  /\ notices' = [notices EXCEPT ![i].deleted = TRUE]
  /\ UNCHANGED <<consents, events, slot, raced>>

---------------------------------------------------------------------------
(* Consent records                                                         *)

FindNotice(s, i) ==
  /\ slot[s] = Idle /\ ~notices[i].deleted
  /\ slot' = [slot EXCEPT ![s] = [op |-> "record", row |-> i, read |-> 0]]
  /\ UNCHANGED <<notices, consents, events, raced>>

RecordConsent(s) ==
  /\ slot[s].op = "record"
  /\ Len(events) < MaxEvents
  /\ consents' = Append(consents, [notice |-> slot[s].row, state |-> "GRANTED"])
  /\ events' = Append(events, [type |-> "ConsentRecorded", row |-> Len(consents) + 1])
  /\ slot' = [slot EXCEPT ![s] = Idle]
  /\ UNCHANGED <<notices, raced>>

\* Seeded fault: a withdrawn consent may be withdrawn again.
FindGranted_Fault(s, i) ==
  /\ slot[s] = Idle
  /\ slot' = [slot EXCEPT ![s] = [op |-> "withdraw", row |-> i, read |-> 0]]
  /\ UNCHANGED <<notices, consents, events, raced>>

FindGranted(s, i) ==
  /\ slot[s] = Idle /\ consents[i].state = "GRANTED"
  /\ slot' = [slot EXCEPT ![s] = [op |-> "withdraw", row |-> i, read |-> 0]]
  /\ raced' = raced \cup {j \in {i} : \E t \in Slots : slot[t].op = "withdraw" /\ slot[t].row = i}
  /\ UNCHANGED <<notices, consents, events>>

Withdraw(s) ==
  /\ slot[s].op = "withdraw"
  /\ Len(events) < MaxEvents
  /\ consents' = [consents EXCEPT ![slot[s].row].state = "WITHDRAWN"]
  /\ events' = Append(events, [type |-> "ConsentWithdrawn", row |-> slot[s].row])
  /\ slot' = [slot EXCEPT ![s] = Idle]
  /\ UNCHANGED <<notices, raced>>

---------------------------------------------------------------------------

Init ==
  /\ notices = <<>> /\ consents = <<>> /\ events = <<>> /\ raced = {}
  /\ slot = [s \in Slots |-> Idle]

Next ==
  \/ \E i \in Rows(notices) : DeleteNotice(i)
  \/ \E s \in Slots :
       \/ ReadLatest(s) \/ PublishNotice(s)
       \/ \E i \in Rows(notices) : FindNotice(s, i)
       \/ RecordConsent(s)
       \/ \E i \in Rows(consents) : FindGranted(s, i)
       \/ Withdraw(s)

Spec == Init /\ [][Next]_vars

---------------------------------------------------------------------------

\* The rows, the events and the requests stay in their types.
TypeOK ==
  /\ \A i \in Rows(notices) : notices[i].version \in 1 .. MaxVersions /\ notices[i].deleted \in BOOLEAN
  /\ \A i \in Rows(consents) :
       consents[i].notice \in Rows(notices) /\ consents[i].state \in {"GRANTED", "WITHDRAWN"}
  /\ \A s \in Slots : slot[s].op \in {"idle", "publish", "record", "withdraw"}

\* "keeping a full consent-history trail": the versions of a title are numbered
\* without gaps or duplicates in the order of their publication, deleted ones
\* included, however many requests publish at once.
NoticeHistory == \A i \in Rows(notices) : notices[i].version = i

\* A withdrawal is announced exactly when the record is withdrawn, and once -
\* unless two requests found the record granted at the same time.
WithdrawalsAreAnnounced ==
  \A i \in Rows(consents) :
    LET announced == {e \in Rows(events) : events[e] = [type |-> "ConsentWithdrawn", row |-> i]}
    IN  /\ announced = {} <=> consents[i].state = "GRANTED"
        /\ i \notin raced => \A e, f \in announced : e = f
=============================================================================
