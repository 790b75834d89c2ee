------------------------------- MODULE Vendors -------------------------------
(***************************************************************************)
(* The vendor registry (VendorService): the supply-chain graph, the         *)
(* agreements and reviews of a vendor, and the risk score stored with it.   *)
(* A request checks what it needs with queries of its own, commits one      *)
(* transaction, and afterwards recomputes scores in yet another one, which  *)
(* stores them only if the vendor's row still has the version it had.       *)
(*                                                                         *)
(* A score is abstracted to what computeVendorRisk reads (Facts); versions  *)
(* to whether the row was written since.                                    *)
(***************************************************************************)
EXTENDS Naturals, FiniteSets

CONSTANTS
  Ids,         \* vendors, numbered
  Registered,  \* those registered and scored when a behaviour begins
  Slots,       \* requests in flight
  Ops,         \* the requests this instance sends
  Profiles,    \* what a vendor's row and the date say beside its criticality
               \* class: LOW or MEDIUM, HIGH or CRITICAL; how many data
               \* categories; a foreign country; nextReviewAt past or not
  Reviews,     \* outcomes of a review, with the residual risk it states
  Disturbances, \* what may happen beside requests
  None

AllOps == {"create", "update", "offboard", "sign", "review", "relate", "acknowledge"}
AllDisturbances == {"calendar", "failure"}

VARIABLES
  live,      \* vendors that are not soft-deleted
  critical,  \* vendors of HIGH or CRITICAL criticality
  profile,   \* by vendor: its profile, None before it is registered
  review,    \* by vendor: its latest review, None before there is one
  active,    \* by vendor: the ACTIVE agreements that are not past their expiry
  expiring,  \* vendors whose agreement in force ends within 30 days
  edges,     \* relationships: ends, acknowledged, not deleted, added alone
  score,     \* by vendor: the facts its stored score was computed from
  slot,      \* requests in flight
  raced,     \* history: two requests have been in flight at once
  overlooked \* history: vendors that changed and whose score nobody updates

vars == <<live, critical, profile, review, active, expiring, edges, score, slot, raced, overlooked>>

\* Numbered by the request that signs: one it has signed may be in force, and
\* another among what each request has seen.
Agreements == Slots \X (1 .. Cardinality(Slots) + 2)

Idle == [op |-> "idle", step |-> "idle", v |-> None, c |-> None, todo |-> {}, seen |-> {},
         refresh |-> {}, fresh |-> FALSE, facts |-> None, alone |-> TRUE]

Live == {e \in edges : e.live}

Children(v) == {e.child : e \in {f \in Live : f.parent = v}}

Parents(v) == {e.parent : e \in {f \in Live : f.child = v}}

\* buildScorecard: the residual score, its floor included, is computed from these.
Facts(v) ==
  [critical |-> v \in critical, profile |-> profile[v], review |-> review[v],
   dpa |-> CASE active[v] = {} -> "missing"
             [] active[v] # {} /\ v \in expiring -> "expiring"
             [] OTHER -> "held",
   children |-> Cardinality(Children(v) \cap critical \cap live),
   unacknowledged |-> Cardinality({e \in Live : e.parent = v /\ ~e.acked})]

\* The vendors whose scores request s is still going to store.
ToScore(s) ==
  CASE slot[s].step = "refresh" -> slot[s].refresh
    [] slot[s].step \in {"facts", "store"} -> slot[s].refresh \cup {slot[s].v}
    [] OTHER -> {}

---------------------------------------------------------------------------
(* A request                                                               *)

Busy(s) == slot[s].op # "idle"

Receive(s, op, v, c) ==
  /\ ~Busy(s)
  /\ IF op = "create"
     THEN profile[v] = None /\ \A t \in Slots : slot[t].op = "create" => slot[t].v # v
     ELSE v \in live
  /\ op = "relate" => c \in live /\ c # v
  /\ op = "acknowledge" => \E e \in Live : e.parent = v /\ e.child = c
  /\ op \notin {"relate", "acknowledge"} => c = v
  /\ LET others == {t \in Slots : Busy(t)}
     IN  /\ slot' = [t \in Slots |->
              IF t = s
              THEN [Idle EXCEPT !.op = op, !.step = "check", !.v = v, !.c = c,
                                !.todo = {c}, !.alone = others = {}]
              ELSE [slot[t] EXCEPT !.alone = @ /\ t \notin others]]
         /\ raced' = (raced \/ others # {})
  /\ UNCHANGED <<live, critical, profile, review, active, expiring, edges, score, overlooked>>

At(s, op, step) == slot[s].op = op /\ slot[s].step = step

Give(s, change) == slot' = [slot EXCEPT ![s] = change]

\* A write of vendor v's row, by slot s: versions read before are stale.
Written(s, v, next) ==
  [t \in Slots |-> IF t = s THEN next
                   ELSE [slot[t] EXCEPT !.fresh = @ /\ slot[t].v # v]]

Refreshing(s, vs) == [slot[s] EXCEPT !.step = "refresh", !.refresh = vs]

\* The scores follow in a transaction of their own, from the row as created.
CreateVendor(s) ==
  /\ At(s, "create", "check")
  /\ live' = live \cup {slot[s].v}
  /\ critical' \in {critical, critical \cup {slot[s].v}}
  /\ \E p \in Profiles : profile' = [profile EXCEPT ![slot[s].v] = p]
  /\ Give(s, [slot[s] EXCEPT !.step = "facts", !.fresh = TRUE])
  /\ UNCHANGED <<review, active, expiring, edges, score, raced, overlooked>>

\* One transaction.  It reads the scorecard and the new version over another
\* connection, which sees neither of its writes: the second UPDATE asks for a
\* version the row no longer has, so the score is not stored; and the scores of
\* the vendors above, which count critical children, are left alone.
Update(s) ==
  /\ At(s, "update", "check")
  /\ \/ /\ slot[s].v \in live
        /\ critical' \in {critical \cup {slot[s].v}, critical \ {slot[s].v}}
        /\ \E p \in Profiles : profile' = [profile EXCEPT ![slot[s].v] = p]
        /\ slot' = Written(s, slot[s].v, Idle)
        /\ overlooked' = overlooked
             \cup (IF critical' = critical /\ profile' = profile THEN {} ELSE {slot[s].v})
             \cup (IF critical' = critical THEN {} ELSE Parents(slot[s].v))
     \/ Give(s, Idle) /\ UNCHANGED <<critical, profile, overlooked>>  \* the version was old
  /\ UNCHANGED <<live, review, active, expiring, edges, score, raced>>

\* The parents are read over another connection before the edges go.
ReadParents(s) ==
  /\ At(s, "offboard", "check")
  /\ Give(s, [slot[s] EXCEPT !.step = "commit", !.refresh = Parents(slot[s].v)])
  /\ UNCHANGED <<live, critical, profile, review, active, expiring, edges, score, raced, overlooked>>

WithoutVendor(v) ==
  {IF v \in {e.parent, e.child} THEN [e EXCEPT !.live = FALSE] ELSE e : e \in edges}

\* Seeded fault: the parents keep their scores.
Offboard_Fault(s) ==
  /\ At(s, "offboard", "commit") /\ slot[s].v \in live
  /\ live' = live \ {slot[s].v}
  /\ edges' = WithoutVendor(slot[s].v)
  /\ Give(s, Idle)
  /\ UNCHANGED <<critical, profile, review, active, expiring, score, raced, overlooked>>

\* A parent linked since they were read is not among those to be scored.
Offboard(s) ==
  /\ At(s, "offboard", "commit")
  /\ IF slot[s].v \in live
     THEN /\ live' = live \ {slot[s].v}
          /\ edges' = WithoutVendor(slot[s].v)
          /\ Give(s, Refreshing(s, slot[s].refresh))
          /\ overlooked' = overlooked \cup (Parents(slot[s].v) \ slot[s].refresh)
     ELSE Give(s, Idle) /\ UNCHANGED <<live, edges, overlooked>>
  /\ UNCHANGED <<critical, profile, review, active, expiring, score, raced>>

\* createAgreement with status ACTIVE: the agreements the UPDATE finds.
SupersedeActive(s) ==
  /\ At(s, "sign", "check")
  /\ Give(s, [slot[s] EXCEPT !.step = "commit", !.seen = active[slot[s].v]])
  /\ UNCHANGED <<live, critical, profile, review, active, expiring, edges, score, raced, overlooked>>

CreateAgreement(s) ==
  /\ At(s, "sign", "commit")
  /\ LET v == slot[s].v
         used == active[v] \cup UNION {slot[t].seen : t \in {u \in Slots : slot[u].op = "sign"}}
         new == CHOOSE a \in Agreements : a[1] = s /\ a \notin used
     IN  /\ active' = [active EXCEPT ![v] = (@ \ slot[s].seen) \cup {new}]
         /\ expiring' \in {expiring \cup {v}, expiring \ {v}}
         /\ Give(s, [Refreshing(s, {v}) EXCEPT !.seen = {}])
  /\ UNCHANGED <<live, critical, profile, review, edges, score, raced, overlooked>>

CreateReview(s) ==
  /\ At(s, "review", "check")
  /\ \E r \in Reviews : review' = [review EXCEPT ![slot[s].v] = r]
  /\ Give(s, Refreshing(s, {slot[s].v}))
  /\ UNCHANGED <<live, critical, profile, active, expiring, edges, score, raced, overlooked>>

\* Seeded fault: only the child's own edges are searched.
Search_Fault(s) ==
  /\ At(s, "relate", "check")
  /\ IF slot[s].v \in Children(slot[s].c) THEN Give(s, Idle)
     ELSE Give(s, [slot[s] EXCEPT !.step = "commit"])
  /\ UNCHANGED <<live, critical, profile, review, active, expiring, edges, score, raced, overlooked>>

\* wouldCreateCycle: a query per vendor on the way down from the child.
Search(s) ==
  /\ At(s, "relate", "check")
  /\ \E x \in slot[s].todo :
       IF x = slot[s].v THEN Give(s, Idle)
       ELSE LET todo == (slot[s].todo \ {x}) \cup (Children(x) \ slot[s].seen)
            IN  Give(s, [slot[s] EXCEPT !.seen = @ \cup {x}, !.todo = todo,
                                        !.step = IF todo = {} THEN "commit" ELSE "check"])
  /\ UNCHANGED <<live, critical, profile, review, active, expiring, edges, score, raced, overlooked>>

\* The pair of ends is unique, deleted relationships included.
AddRelationship(s) ==
  /\ At(s, "relate", "commit")
  /\ IF \E e \in edges : e.parent = slot[s].v /\ e.child = slot[s].c
     THEN Give(s, Idle) /\ UNCHANGED edges
     ELSE /\ edges' = edges \cup {[parent |-> slot[s].v, child |-> slot[s].c, acked |-> FALSE,
                                   live |-> TRUE, alone |-> slot[s].alone]}
          /\ Give(s, [Refreshing(s, {slot[s].v}) EXCEPT !.seen = {}])
  /\ UNCHANGED <<live, critical, profile, review, active, expiring, score, raced, overlooked>>

AcknowledgeRelationship(s) ==
  /\ At(s, "acknowledge", "check")
  /\ edges' = {IF e.parent = slot[s].v /\ e.child = slot[s].c THEN [e EXCEPT !.acked = TRUE] ELSE e :
                 e \in edges}
  /\ Give(s, Refreshing(s, {slot[s].v}))
  /\ UNCHANGED <<live, critical, profile, review, active, expiring, score, raced, overlooked>>

---------------------------------------------------------------------------
(* refreshScores, one vendor after the other                               *)

ReadVersion(s) ==
  /\ slot[s].step = "refresh"
  /\ IF slot[s].refresh = {} THEN Give(s, Idle)
     ELSE \E v \in slot[s].refresh :
            LET rest == [slot[s] EXCEPT !.refresh = @ \ {v}, !.v = v]
            IN  IF v \in live THEN Give(s, [rest EXCEPT !.step = "facts", !.fresh = TRUE])
                ELSE Give(s, rest)
  /\ UNCHANGED <<live, critical, profile, review, active, expiring, edges, score, raced, overlooked>>

\* "Vendor not found" ends the request, whatever it had still to score.
BuildScorecard(s) ==
  /\ slot[s].step = "facts"
  /\ IF slot[s].v \in live
     THEN /\ Give(s, [slot[s] EXCEPT !.step = "store", !.facts = Facts(slot[s].v)])
          /\ overlooked' = overlooked \ {slot[s].v}
     ELSE Give(s, Idle) /\ overlooked' = overlooked \cup slot[s].refresh
  /\ UNCHANGED <<live, critical, profile, review, active, expiring, edges, score, raced>>

\* Seeded fault: the scores are stored whatever the version of the row.
StoreScores_Fault(s) ==
  /\ slot[s].step = "store"
  /\ LET next == [Refreshing(s, slot[s].refresh) EXCEPT !.fresh = FALSE, !.facts = None]
     IN  /\ score' = [score EXCEPT ![slot[s].v] = slot[s].facts]
         /\ slot' = Written(s, slot[s].v, next)
  /\ UNCHANGED <<live, critical, profile, review, active, expiring, edges, raced, overlooked>>

\* An UPDATE that finds another version is not noticed.
StoreScores(s) ==
  /\ slot[s].step = "store"
  /\ LET next == [Refreshing(s, slot[s].refresh) EXCEPT !.fresh = FALSE, !.facts = None]
     IN  IF slot[s].fresh /\ slot[s].v \in live
         THEN /\ score' = [score EXCEPT ![slot[s].v] = slot[s].facts]
              /\ slot' = Written(s, slot[s].v, next)
              /\ UNCHANGED overlooked
         ELSE /\ Give(s, next) /\ UNCHANGED score
              /\ overlooked' = overlooked \cup {slot[s].v}
  /\ UNCHANGED <<live, critical, profile, review, active, expiring, edges, raced>>

---------------------------------------------------------------------------
(* What happens beside requests                                            *)

\* The process dies or a database call throws: a transaction that has not
\* committed changes nothing, scores that were to follow are not stored.
RequestFails(s) ==
  /\ "failure" \in Disturbances
  /\ Busy(s)
  /\ Give(s, Idle)
  /\ overlooked' = overlooked \cup ToScore(s)
  /\ UNCHANGED <<live, critical, profile, review, active, expiring, edges, score, raced>>

\* A scheduled review falls due (the profile it leaves is any), an agreement
\* comes within 30 days of its expiry, or expires.
DatePasses(v) ==
  /\ "calendar" \in Disturbances
  /\ v \in live
  /\ \/ \E p \in Profiles : profile' = [profile EXCEPT ![v] = p] /\ UNCHANGED <<active, expiring>>
     \/ expiring' = expiring \cup {v} /\ UNCHANGED <<profile, active>>
     \/ \E a \in active[v] : active' = [active EXCEPT ![v] = @ \ {a}] /\ UNCHANGED <<profile, expiring>>
  /\ overlooked' = overlooked \cup {v}
  /\ UNCHANGED <<live, critical, review, edges, score, slot, raced>>

---------------------------------------------------------------------------

\* Registered earlier, of low criticality, without agreements, reviews or
\* relationships, and scored.
Init ==
  /\ live = Registered /\ critical = {}
  /\ profile = [v \in Ids |-> IF v \in Registered THEN CHOOSE p \in Profiles : TRUE ELSE None]
  /\ review = [v \in Ids |-> None]
  /\ active = [v \in Ids |-> {}] /\ expiring = {} /\ edges = {}
  /\ score = [v \in Ids |-> IF v \in Registered THEN Facts(v) ELSE None]
  /\ slot = [s \in Slots |-> Idle] /\ raced = FALSE /\ overlooked = {}

Commit(s) ==
  \/ CreateVendor(s) \/ Update(s) \/ ReadParents(s) \/ Offboard(s) \/ SupersedeActive(s)
  \/ CreateAgreement(s) \/ CreateReview(s) \/ Search(s) \/ AddRelationship(s)
  \/ AcknowledgeRelationship(s)

Next ==
  \/ \E s \in Slots :
       \/ \E op \in Ops : \E v, c \in Ids : Receive(s, op, v, c)
       \/ Commit(s)
       \/ ReadVersion(s) \/ BuildScorecard(s) \/ StoreScores(s)
       \/ RequestFails(s)
  \/ \E v \in Ids : DatePasses(v)

Spec == Init /\ [][Next]_vars

---------------------------------------------------------------------------

\* The vendors, their agreements and the requests stay in their types.
TypeOK ==
  /\ live \subseteq Ids /\ critical \subseteq Ids /\ expiring \subseteq Ids /\ overlooked \subseteq Ids
  /\ profile \in [Ids -> Profiles \cup {None}] /\ review \in [Ids -> Reviews \cup {None}]
  /\ active \in [Ids -> SUBSET Agreements]
  /\ \A e \in edges : e.parent \in Ids /\ e.child \in Ids \ {e.parent}
  /\ \A s \in Slots :
       /\ slot[s].op \in Ops \cup {"idle"}
       /\ slot[s].step \in {"idle", "check", "commit", "refresh", "facts", "store"}
       /\ slot[s].refresh \subseteq Ids

\* b can be reached from a over the edges in E.
Reaches(E, a, b) ==
  \A R \in SUBSET Ids :
    a \in R /\ (\A e \in E : e.parent \in R => e.child \in R) => b \in R

Acyclic(E) == \A e \in E : ~Reaches(E, e.child, e.parent)

\* "Linking this vendor would create a circular supply-chain relationship":
\* the check and the insert are separate, so requests that overlap can close a
\* cycle - but any cycle holds two relationships that were added in a race.
CyclesNeedTwoRacingEdges ==
  LET alone == {e \in Live : e.alone}
  IN  /\ Acyclic(alone)
      /\ \A e \in Live : Acyclic(alone \cup {e})

\* Wherever no request has still to store it, the stored score of a vendor is
\* that of the registry, however requests overlap - unless since it was last
\* computed a PATCH changed the vendor or the criticality class of one below
\* it, a date passed, a request that had changed the vendor failed, found
\* another version of the row, or went on to a vendor that was gone, or the
\* vendor was linked to one whose offboarding had read its parents already.
ScoresAreCurrent ==
  \A v \in live \ overlooked :
    (\A s \in Slots : v \notin ToScore(s)) => score[v] = Facts(v)

\* While requests do not overlap, an agreement that is signed supersedes the
\* one in force.
OneAgreementInForce == ~raced => \A v \in Ids : Cardinality(active[v]) <= 1
=============================================================================
