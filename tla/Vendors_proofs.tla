--------------------------- MODULE Vendors_proofs ---------------------------
(***************************************************************************)
(* Theorems about the vendor registry of MCCompliance, for any vendors and  *)
(* any number of requests in flight.                                        *)
(*                                                                          *)
(* VendorInv types the rows and the requests; a request that signs keeps    *)
(* its number in the agreement, so an agreement can always be numbered.     *)
(* The scores (Account): of a vendor that is not overlooked, either a       *)
(* request is still going to store the score as it should be (Promises), or *)
(* it is stored and whatever a request still holds for it is the same       *)
(* (Settled); a store that is right makes every other one fail, for it      *)
(* writes the row they have the version of.  A vendor that is being created *)
(* is not linked yet (Known), so nobody counts it.  The graph (GraphInv): a *)
(* search that met no other request misses no relationship, and one that    *)
(* met another misses none that was added alone; so a relationship added    *)
(* alone closes no cycle with those added alone before, and the two that    *)
(* race are the only ones that can (AddEdge).                               *)
(***************************************************************************)
EXTENDS MCCompliance, FiniteSetTheorems, TLAPS

LEMMA OneMoves ==
  ASSUME [Next]_vars
  PROVE  /\ UNCHANGED component
         /\ Gap!Next \/ UNCHANGED assessmentVars
         /\ \/ Engine(PolicyControls)!Next /\ component = "policy"
            \/ Engine(RegistryControls)!Next /\ component = "registry"
            \/ UNCHANGED engineVars
         /\ \/ Vendor(Scope.graph)!Next /\ component = "graph"
            \/ Vendor(Scope.serial)!Next /\ component = "serial"
            \/ Vendor(Scope.signing)!Next /\ component = "signing"
            \/ Vendor(Scope.ending)!Next /\ component = "ending"
            \/ UNCHANGED vendorVars
         /\ Jobs!Next \/ UNCHANGED jobVars
         /\ Trail!Next \/ UNCHANGED consentVars
         /\ Files!Next \/ UNCHANGED evidenceVars
         /\ Roadmap!Next \/ UNCHANGED frameworkVars
         /\ \/ Gate(CoreQuestions)!Next /\ component = "gate"
            \/ Gate(PackQuestions)!Next /\ component = "pack"
            \/ UNCHANGED gateVars
<1>1. CASE AssessmentStep
  BY <1>1 DEF AssessmentStep, AtWork, RestFromAssessment
<1>2. CASE EngineStep
  BY <1>2 DEF EngineStep, AtWork, RestFromAssessment
<1>3. CASE VendorStep
  BY <1>3 DEF VendorStep, AtWork, RestFromAssessment
<1>4. CASE JobStep
  BY <1>4 DEF JobStep, AtWork, RestFromJobs
<1>5. CASE ConsentStep
  BY <1>5 DEF ConsentStep, AtWork, RestFromJobs
<1>6. CASE EvidenceStep
  BY <1>6 DEF EvidenceStep, AtWork, RestFromJobs
<1>7. CASE FrameworkStep
  BY <1>7 DEF FrameworkStep, AtWork, RestFromJobs
<1>8. CASE GateStep
  BY <1>8 DEF GateStep, AtWork
<1>9. CASE UNCHANGED vars
  BY <1>9 DEF vars
<1> QED
  BY <1>1, <1>2, <1>3, <1>4, <1>5, <1>6, <1>7, <1>8, <1>9 DEF Next

---------------------------------------------------------------------------
(* The vendor registry, for any scope: an agreement keeps the number of the *)
(* request that signed it, so one can always be numbered.                    *)

RegistryScope(scope) ==
  /\ IsFiniteSet(scope.ids) /\ IsFiniteSet(scope.slots)
  /\ scope.registered \subseteq scope.ids /\ scope.ops \subseteq Vendor(scope)!AllOps
  /\ VendorProfiles # {} /\ None \notin VendorProfiles

Fact == [critical : BOOLEAN, profile : VendorProfiles \cup {None}, review : ReviewOutcomes \cup {None},
         dpa : {"missing", "expiring", "held"}, children : Nat, unacknowledged : Nat]
Edge(scope) == [parent : scope.ids, child : scope.ids, acked : BOOLEAN, live : BOOLEAN, alone : BOOLEAN]
VendorRequest(scope) ==
  [op : Vendor(scope)!AllOps \cup {"idle"},
   step : {"idle", "check", "commit", "refresh", "facts", "store"},
   v : scope.ids \cup {None}, c : scope.ids \cup {None}, todo : SUBSET scope.ids,
   seen : SUBSET (scope.ids \cup Vendor(scope)!Agreements), refresh : SUBSET scope.ids,
   fresh : BOOLEAN, facts : Fact \cup {None}, alone : BOOLEAN]

VendorRows(scope) ==
  /\ live \subseteq scope.ids /\ critical \subseteq scope.ids
  /\ expiring \subseteq scope.ids /\ overlooked \subseteq scope.ids
  /\ profile \in [scope.ids -> VendorProfiles \cup {None}]
  /\ review \in [scope.ids -> ReviewOutcomes \cup {None}]
  /\ active \in [scope.ids -> SUBSET Vendor(scope)!Agreements]
  /\ edges \subseteq Edge(scope) /\ IsFiniteSet(edges)
  /\ \A e \in edges : e.parent # e.child
  /\ score \in [scope.ids -> Fact \cup {None}]
  /\ overlapped \in BOOLEAN

VendorType(scope) == VendorRows(scope) /\ managing \in [scope.slots -> VendorRequest(scope)]

\* What is in force and what a request has seen of it holds at most one
\* agreement of each request.
OneEach(A) == \A a, b \in A : a[1] = b[1] => a = b

\* A request that is under way is about a vendor.
RequestFits(scope, s) ==
  /\ managing[s].op \in scope.ops \cup {"idle"}
  /\ managing[s].op = "idle" <=> managing[s].step = "idle"
  /\ managing[s].op # "idle" => managing[s].v \in scope.ids /\ managing[s].c \in scope.ids
  /\ managing[s].step = "store" => managing[s].facts \in Fact
  /\ managing[s].op = "relate" =>
       /\ managing[s].seen \subseteq scope.ids
       /\ managing[s].step \in {"check", "commit"} => managing[s].v # managing[s].c
  /\ managing[s].op = "sign" =>
       /\ managing[s].seen \subseteq Vendor(scope)!Agreements /\ OneEach(managing[s].seen)
       /\ managing[s].step = "commit" =>
            \A a \in active[managing[s].v] : a[1] = s => a \in managing[s].seen

VendorInv(scope) ==
  /\ VendorType(scope)
  /\ \A v \in scope.ids : OneEach(active[v])
  /\ \A s \in scope.slots : RequestFits(scope, s)

\* A step of request s leaves the others as they are, or makes what they have
\* read stale, or ends their being alone.
SlotStep(scope, s) ==
  /\ managing' \in [scope.slots -> VendorRequest(scope)]
  /\ \A t \in scope.slots \ {s} :
       /\ managing'[t].op = managing[t].op /\ managing'[t].step = managing[t].step
       /\ managing'[t].v = managing[t].v /\ managing'[t].c = managing[t].c
       /\ managing'[t].todo = managing[t].todo /\ managing'[t].seen = managing[t].seen
       /\ managing'[t].refresh = managing[t].refresh /\ managing'[t].facts = managing[t].facts
       /\ managing'[t].alone => managing[t].alone
       /\ managing'[t].fresh => managing[t].fresh

LEMMA VendorGive ==
  ASSUME NEW scope, VendorInv(scope), NEW s \in scope.slots, NEW next \in VendorRequest(scope),
         Vendor(scope)!Give(s, next)
  PROVE  SlotStep(scope, s) /\ managing'[s] = next
<1>1. /\ managing' \in [scope.slots -> VendorRequest(scope)] /\ managing'[s] = next
      /\ \A t \in scope.slots \ {s} : managing'[t] = managing[t]
  BY DEF VendorInv, VendorType, Vendor!Give
<1> QED
  BY <1>1 DEF SlotStep

LEMMA VendorWritten ==
  ASSUME NEW scope, VendorInv(scope), NEW s \in scope.slots, NEW next \in VendorRequest(scope), NEW v,
         managing' = Vendor(scope)!Written(s, v, next)
  PROVE  /\ SlotStep(scope, s) /\ managing'[s] = next
         /\ \A t \in scope.slots \ {s} : managing[t].v = v => ~managing'[t].fresh
<1>1. ASSUME NEW t \in scope.slots \ {s}
      PROVE  \E fresh \in BOOLEAN : /\ managing'[t] = [managing[t] EXCEPT !.fresh = fresh]
                                    /\ fresh => managing[t].fresh /\ managing[t].v # v
  <2>1. managing'[t] = [managing[t] EXCEPT !.fresh = @ /\ managing[t].v # v]
    BY DEF Vendor!Written
  <2> QED
    BY <2>1
<1>2. \A t \in scope.slots : managing[t] \in VendorRequest(scope)
  BY DEF VendorInv, VendorType
<1>3. \A t \in scope.slots : managing'[t] \in VendorRequest(scope)
  <2>1. managing'[s] = next
    BY DEF Vendor!Written
  <2>2. ASSUME NEW t \in scope.slots \ {s} PROVE managing'[t] \in VendorRequest(scope)
    <3>1. PICK fresh \in BOOLEAN : managing'[t] = [managing[t] EXCEPT !.fresh = fresh]
      BY <1>1
    <3>2. \A request \in VendorRequest(scope) : [request EXCEPT !.fresh = fresh] \in VendorRequest(scope)
      BY DEF VendorRequest
    <3> QED
      BY <1>2, <3>1, <3>2
  <2> QED
    BY <2>1, <2>2
<1>4. managing' = [t \in scope.slots |-> managing'[t]]
  BY DEF Vendor!Written
<1>5. managing' \in [scope.slots -> VendorRequest(scope)]
  BY <1>3, <1>4
<1>6. managing'[s] = next
  BY DEF Vendor!Written
<1>7. ASSUME NEW t \in scope.slots \ {s}
      PROVE  /\ managing'[t].op = managing[t].op /\ managing'[t].step = managing[t].step
             /\ managing'[t].v = managing[t].v /\ managing'[t].c = managing[t].c
             /\ managing'[t].todo = managing[t].todo /\ managing'[t].seen = managing[t].seen
             /\ managing'[t].refresh = managing[t].refresh /\ managing'[t].facts = managing[t].facts
             /\ managing'[t].alone = managing[t].alone
             /\ managing'[t].fresh => managing[t].fresh /\ managing[t].v # v
  <2>1. managing[t] \in VendorRequest(scope)
    BY <1>2
  <2>2. PICK fresh \in BOOLEAN : /\ managing'[t] = [managing[t] EXCEPT !.fresh = fresh]
                                 /\ fresh => managing[t].fresh /\ managing[t].v # v
    BY <1>1
  <2> QED
    BY <2>1, <2>2 DEF VendorRequest
<1> QED
  BY <1>5, <1>6, <1>7 DEF SlotStep

LEMMA VendorIdle ==
  ASSUME NEW scope
  PROVE  /\ Vendor(scope)!Idle \in VendorRequest(scope)
         /\ Vendor(scope)!Idle.op = "idle" /\ Vendor(scope)!Idle.step = "idle"
         /\ Vendor(scope)!Idle.seen = {} /\ ~Vendor(scope)!Idle.fresh
BY DEF Vendor!Idle, VendorRequest

\* The instance counts as this module does.
LEMMA VendorCounts ==
  ASSUME NEW scope, NEW S
  PROVE  Vendor(scope)!Cardinality(S) = Cardinality(S)
BY DEF Vendor!Cardinality, Cardinality

LEMMA FactsAreFacts ==
  ASSUME NEW scope, RegistryScope(scope),
         live \subseteq scope.ids, IsFiniteSet(edges),
         profile \in [scope.ids -> VendorProfiles \cup {None}],
         review \in [scope.ids -> ReviewOutcomes \cup {None}], NEW v \in scope.ids
  PROVE  Vendor(scope)!Facts(v) \in Fact
<1> DEFINE counted == Vendor(scope)!Children(v) \cap critical \cap live
           open == {e \in Vendor(scope)!Live : e.parent = v /\ ~e.acked}
           dpa == CASE active[v] = {} -> "missing"
                    [] active[v] # {} /\ v \in expiring -> "expiring"
                    [] OTHER -> "held"
           a == v \in critical
           n == Cardinality(counted)
           m == Cardinality(open)
<1>1. IsFiniteSet(counted) /\ IsFiniteSet(open)
  <2>1. counted \subseteq scope.ids /\ open \subseteq edges
    BY DEF Vendor!Live
  <2> HIDE DEF counted, open
  <2> QED
    BY <2>1, FS_Subset DEF RegistryScope
<1>2. n \in Nat /\ m \in Nat
  <2> HIDE DEF counted, open
  <2> QED
    BY <1>1, FS_CardinalityType
<1>3. dpa \in {"missing", "expiring", "held"} /\ a \in BOOLEAN
  OBVIOUS
<1>4. profile[v] \in VendorProfiles \cup {None} /\ review[v] \in ReviewOutcomes \cup {None}
  OBVIOUS
<1>5. Vendor(scope)!Facts(v) = [critical |-> a, profile |-> profile[v], review |-> review[v], dpa |-> dpa,
                               children |-> n, unacknowledged |-> m]
  BY VendorCounts DEF Vendor!Facts
<1> HIDE DEF a, n, m, dpa
<1> QED
  BY <1>2, <1>3, <1>4, <1>5 DEF Fact

LEMMA VendorInit ==
  ASSUME NEW scope, RegistryScope(scope), Vendor(scope)!Init
  PROVE  VendorInv(scope)
<1> DEFINE scored(v) == IF v \in scope.registered THEN Vendor(scope)!Facts(v) ELSE None
           unscored == [v \in scope.ids |-> None]
<1>1. /\ live = scope.registered /\ critical = {} /\ expiring = {} /\ edges = {} /\ overlooked = {}
      /\ overlapped = FALSE /\ score = [v \in scope.ids |-> scored(v)]
      /\ profile \in [scope.ids -> VendorProfiles \cup {None}]
      /\ review \in [scope.ids -> ReviewOutcomes \cup {None}]
      /\ active \in [scope.ids -> SUBSET Vendor(scope)!Agreements]
  BY DEF Vendor!Init, RegistryScope
<1>2. VendorRows(scope)
  <2>1. ASSUME NEW v \in scope.ids PROVE Vendor(scope)!Facts(v) \in Fact
    BY <1>1, FactsAreFacts, FS_EmptySet DEF RegistryScope
  <2> HIDE DEF scored
  <2>2. \A v \in scope.ids : scored(v) \in Fact \cup {None}
    BY <2>1 DEF scored
  <2>3. score \in [scope.ids -> Fact \cup {None}]
    BY <1>1, <2>2
  <2> QED
    BY <1>1, <2>3, FS_EmptySet DEF VendorRows, RegistryScope
<1>3. VendorType(scope)
  BY <1>2, VendorIdle DEF Vendor!Init, VendorType
<1>4. \A s \in scope.slots : RequestFits(scope, s)
  BY VendorIdle DEF Vendor!Init, RequestFits
<1>5. \A v \in scope.ids : OneEach(active[v])
  BY DEF Vendor!Init, OneEach
<1> QED
  BY <1>3, <1>4, <1>5 DEF VendorInv

\* What a step has to show: the rows it writes, and the request that takes it.
LEMMA VendorMoves ==
  ASSUME NEW scope, VendorInv(scope), NEW s \in scope.slots,
         VendorRows(scope)', SlotStep(scope, s), RequestFits(scope, s)',
         \A v \in scope.ids : OneEach(active'[v]) /\ \A a \in active'[v] : a[1] # s => a \in active[v]
  PROVE  VendorInv(scope)'
<1>1. VendorType(scope)'
  BY DEF VendorType, SlotStep
<1>2. ASSUME NEW t \in scope.slots \ {s} PROVE RequestFits(scope, t)'
  <2>1. RequestFits(scope, t)
    BY DEF VendorInv
  <2>2. /\ managing'[t].op = managing[t].op /\ managing'[t].step = managing[t].step
        /\ managing'[t].v = managing[t].v /\ managing'[t].c = managing[t].c
        /\ managing'[t].seen = managing[t].seen /\ managing'[t].facts = managing[t].facts
    BY DEF SlotStep
  <2>3. managing[t].op = "sign" /\ managing[t].step = "commit" =>
          \A a \in active'[managing[t].v] : a[1] = t => a \in managing[t].seen
    BY <2>1 DEF RequestFits
  <2> QED
    BY <2>1, <2>2, <2>3 DEF RequestFits, OneEach
<1> QED
  BY <1>1, <1>2 DEF VendorInv

\* Steps that leave the agreements alone.
LEMMA VendorLeavesAgreements ==
  ASSUME NEW scope, VendorInv(scope), NEW s \in scope.slots, UNCHANGED active,
         VendorRows(scope)', SlotStep(scope, s), RequestFits(scope, s)'
  PROVE  VendorInv(scope)'
BY VendorMoves DEF VendorInv

LEMMA VendorRefreshes ==
  ASSUME NEW scope, VendorInv(scope), NEW s \in scope.slots, NEW vs \in SUBSET scope.ids
  PROVE  LET next == Vendor(scope)!Refreshing(s, vs)
         IN  /\ next \in VendorRequest(scope) /\ next.step = "refresh" /\ next.refresh = vs
             /\ next.op = managing[s].op /\ next.v = managing[s].v /\ next.c = managing[s].c
             /\ next.seen = managing[s].seen /\ next.alone = managing[s].alone
<1>1. managing[s] \in VendorRequest(scope)
  BY DEF VendorInv, VendorType
<1> QED
  BY <1>1 DEF Vendor!Refreshing, VendorRequest

LEMMA VendorReceive ==
  ASSUME NEW scope, RegistryScope(scope), VendorInv(scope), NEW s \in scope.slots,
         NEW op \in scope.ops, NEW v \in scope.ids, NEW c \in scope.ids, Vendor(scope)!Receive(s, op, v, c)
  PROVE  /\ VendorInv(scope)' /\ SlotStep(scope, s)
         /\ managing'[s].op = op /\ managing'[s].step = "check" /\ managing'[s].v = v /\ managing'[s].c = c
         /\ managing'[s].todo = {c} /\ managing'[s].seen = {}
         /\ managing'[s].alone <=> (\A t \in scope.slots : ~Vendor(scope)!Busy(t))
         /\ \A t \in scope.slots \ {s} : managing'[t].alone => ~Vendor(scope)!Busy(t)
<1> DEFINE others == {t \in scope.slots : Vendor(scope)!Busy(t)}
           alone == others = {}
           next == [Vendor(scope)!Idle EXCEPT !.op = op, !.step = "check", !.v = v, !.c = c,
                                              !.todo = {c}, !.alone = alone]
<1>1. /\ next \in VendorRequest(scope) /\ next.op = op /\ next.step = "check" /\ next.v = v /\ next.c = c
      /\ next.seen = {} /\ next.todo = {c} /\ next.alone = alone
  <2>1. op \in Vendor(scope)!AllOps /\ alone \in BOOLEAN
    BY DEF RegistryScope
  <2> HIDE DEF alone
  <2> QED
    BY <2>1 DEF Vendor!Idle, VendorRequest
<1>2. managing' = [t \in scope.slots |-> IF t = s THEN next
                     ELSE [managing[t] EXCEPT !.alone = @ /\ t \notin others]]
  BY DEF Vendor!Receive
<1> HIDE DEF next
<1>3. managing'[s] = next
  BY <1>2
<1>4. ASSUME NEW t \in scope.slots \ {s}
      PROVE  \E b \in BOOLEAN : /\ managing'[t] = [managing[t] EXCEPT !.alone = b]
                                /\ b => managing[t].alone /\ t \notin others
  <2>1. managing'[t] = [managing[t] EXCEPT !.alone = managing[t].alone /\ t \notin others]
    BY <1>2
  <2> QED
    BY <2>1
<1>5. ASSUME NEW t \in scope.slots \ {s}
      PROVE  /\ managing'[t] \in VendorRequest(scope)
             /\ managing'[t].op = managing[t].op /\ managing'[t].step = managing[t].step
             /\ managing'[t].v = managing[t].v /\ managing'[t].c = managing[t].c
             /\ managing'[t].todo = managing[t].todo /\ managing'[t].seen = managing[t].seen
             /\ managing'[t].refresh = managing[t].refresh /\ managing'[t].facts = managing[t].facts
             /\ managing'[t].alone => managing[t].alone /\ t \notin others
             /\ managing'[t].fresh = managing[t].fresh
  <2>1. managing[t] \in VendorRequest(scope)
    BY DEF VendorInv, VendorType
  <2>2. PICK b \in BOOLEAN : /\ managing'[t] = [managing[t] EXCEPT !.alone = b]
                             /\ b => managing[t].alone /\ t \notin others
    BY <1>4
  <2> HIDE DEF others
  <2>3. managing'[t] \in VendorRequest(scope)
    BY <2>1, <2>2 DEF VendorRequest
  <2>4. managing'[t].alone = b
    BY <2>1, <2>2 DEF VendorRequest
  <2> QED
    BY <2>1, <2>2, <2>3, <2>4 DEF VendorRequest
<1>6. SlotStep(scope, s)
  <2>1. \A t \in scope.slots : managing'[t] \in VendorRequest(scope)
    BY <1>1, <1>3, <1>5
  <2>2. managing' = [t \in scope.slots |-> managing'[t]]
    BY <1>2
  <2> QED
    BY <1>5, <2>1, <2>2 DEF SlotStep
<1>7. VendorRows(scope)' /\ UNCHANGED active
  <2>1. /\ UNCHANGED <<live, critical, profile, review, active, expiring, edges, score, overlooked>>
        /\ overlapped' \in BOOLEAN
    BY DEF Vendor!Receive
  <2> QED
    BY <2>1 DEF VendorInv, VendorType, VendorRows
<1>8. RequestFits(scope, s)'
  <2>1. op = "relate" => v # c
    BY DEF Vendor!Receive
  <2>2. op # "idle"
    BY DEF RegistryScope, Vendor!AllOps
  <2> QED
    BY <1>1, <1>3, <2>1, <2>2 DEF RequestFits, OneEach
<1>9. VendorInv(scope)'
  BY <1>6, <1>7, <1>8, VendorLeavesAgreements
<1>10. \A t \in scope.slots \ {s} : managing'[t].alone => ~Vendor(scope)!Busy(t)
  BY <1>5
<1>11. managing'[s].alone <=> (\A t \in scope.slots : ~Vendor(scope)!Busy(t))
  BY <1>1, <1>3
<1> QED
  BY <1>1, <1>3, <1>6, <1>9, <1>10, <1>11

LEMMA ImageIsFinite ==
  ASSUME NEW S, IsFiniteSet(S), NEW f, DOMAIN f = S, f = [x \in S |-> f[x]]
  PROVE  /\ IsFiniteSet({f[x] : x \in S}) /\ Cardinality({f[x] : x \in S}) <= Cardinality(S)
<1>1. f \in Surjection(S, {f[x] : x \in S})
  BY DEF Surjection
<1> QED
  BY <1>1, FS_Surjection

LEMMA VendorEnds ==
  ASSUME NEW scope, VendorInv(scope), NEW s \in scope.slots, VendorRows(scope)', UNCHANGED active,
         Vendor(scope)!Give(s, Vendor(scope)!Idle)
  PROVE  VendorInv(scope)' /\ SlotStep(scope, s) /\ managing'[s] = Vendor(scope)!Idle
<1>1. SlotStep(scope, s) /\ managing'[s] = Vendor(scope)!Idle
  BY VendorIdle, VendorGive
<1>2. RequestFits(scope, s)'
  BY <1>1, VendorIdle DEF RequestFits
<1> QED
  BY <1>1, <1>2, VendorLeavesAgreements

LEMMA VendorTurnsToScores ==
  ASSUME NEW scope, VendorInv(scope), NEW s \in scope.slots, NEW vs \in SUBSET scope.ids,
         Vendor(scope)!Busy(s), VendorRows(scope)', UNCHANGED active,
         Vendor(scope)!Give(s, Vendor(scope)!Refreshing(s, vs))
  PROVE  VendorInv(scope)' /\ SlotStep(scope, s) /\ managing'[s] = Vendor(scope)!Refreshing(s, vs)
<1> DEFINE next == Vendor(scope)!Refreshing(s, vs)
<1>1. /\ next \in VendorRequest(scope) /\ next.step = "refresh" /\ next.refresh = vs
      /\ next.op = managing[s].op /\ next.v = managing[s].v /\ next.c = managing[s].c
      /\ next.seen = managing[s].seen
  BY VendorRefreshes
<1> HIDE DEF next
<1>2. SlotStep(scope, s) /\ managing'[s] = next
  BY <1>1, VendorGive DEF next
<1>3. RequestFits(scope, s) /\ managing[s].op # "idle"
  BY DEF VendorInv, Vendor!Busy
<1>4. RequestFits(scope, s)'
  BY <1>1, <1>2, <1>3 DEF RequestFits, OneEach
<1>5. VendorInv(scope)'
  BY <1>2, <1>4, VendorLeavesAgreements
<1> QED
  BY <1>2, <1>5 DEF next

LEMMA VendorCreate ==
  ASSUME NEW scope, VendorInv(scope), NEW s \in scope.slots, Vendor(scope)!CreateVendor(s)
  PROVE  /\ VendorInv(scope)' /\ SlotStep(scope, s)
         /\ managing'[s].op = "create" /\ managing'[s].step = "facts" /\ managing'[s].fresh
         /\ managing'[s].v = managing[s].v /\ managing'[s].refresh = managing[s].refresh
         /\ managing[s].v \in scope.ids
         /\ \E p \in VendorProfiles : profile' = [profile EXCEPT ![managing[s].v] = p]
<1> DEFINE next == [managing[s] EXCEPT !.step = "facts", !.fresh = TRUE]
<1>1. managing[s] \in VendorRequest(scope) /\ RequestFits(scope, s)
  BY DEF VendorInv, VendorType
<1>2. managing[s].op = "create" /\ managing[s].v \in scope.ids
  BY <1>1 DEF Vendor!CreateVendor, Vendor!At, RequestFits
<1>3. /\ next \in VendorRequest(scope) /\ next.op = "create" /\ next.step = "facts" /\ next.fresh
      /\ next.v = managing[s].v /\ next.c = managing[s].c /\ next.refresh = managing[s].refresh
  BY <1>1, <1>2 DEF VendorRequest
<1> HIDE DEF next
<1>4. SlotStep(scope, s) /\ managing'[s] = next
  BY <1>3, VendorGive DEF Vendor!CreateVendor, next
<1>5. RequestFits(scope, s)'
  BY <1>1, <1>2, <1>3, <1>4 DEF RequestFits
<1>6. /\ UNCHANGED <<review, active, expiring, edges, score, overlapped, overlooked>>
      /\ live' = live \cup {managing[s].v} /\ critical' \in {critical, critical \cup {managing[s].v}}
      /\ \E p \in VendorProfiles : profile' = [profile EXCEPT ![managing[s].v] = p]
  BY DEF Vendor!CreateVendor
<1>7. VendorRows(scope)'
  BY <1>2, <1>6 DEF VendorInv, VendorType, VendorRows
<1>8. VendorInv(scope)'
  BY <1>4, <1>5, <1>6, <1>7, VendorLeavesAgreements
<1> QED
  BY <1>2, <1>3, <1>4, <1>6, <1>8

LEMMA ParentsAreVendors ==
  ASSUME NEW scope, VendorInv(scope), NEW v
  PROVE  Vendor(scope)!Parents(v) \subseteq scope.ids
BY DEF Vendor!Parents, Vendor!Live, VendorInv, VendorType, VendorRows, Edge

LEMMA VendorUpdate ==
  ASSUME NEW scope, VendorInv(scope), NEW s \in scope.slots, Vendor(scope)!Update(s)
  PROVE  /\ VendorInv(scope)' /\ SlotStep(scope, s) /\ managing'[s] = Vendor(scope)!Idle
         /\ managing[s].v \in scope.ids
         /\ \/ /\ \E p \in VendorProfiles : profile' = [profile EXCEPT ![managing[s].v] = p]
               /\ \A t \in scope.slots \ {s} : managing[t].v = managing[s].v => ~managing'[t].fresh
            \/ UNCHANGED <<critical, profile, overlooked>>
<1> DEFINE v == managing[s].v
<1>1. managing[s].op = "update" /\ v \in scope.ids /\ Vendor(scope)!Parents(v) \subseteq scope.ids
  BY ParentsAreVendors DEF VendorInv, RequestFits, Vendor!Update, Vendor!At
<1>2. UNCHANGED <<live, review, active, expiring, edges, score, overlapped>>
  BY DEF Vendor!Update
<1>3. CASE /\ critical' \in {critical \cup {v}, critical \ {v}}
           /\ \E p \in VendorProfiles : profile' = [profile EXCEPT ![v] = p]
           /\ managing' = Vendor(scope)!Written(s, v, Vendor(scope)!Idle)
           /\ overlooked' = overlooked
                \cup (IF critical' = critical /\ profile' = profile THEN {} ELSE {v})
                \cup (IF critical' = critical THEN {} ELSE Vendor(scope)!Parents(v))
  <2>1. VendorRows(scope)'
    BY <1>1, <1>2, <1>3 DEF VendorInv, VendorType, VendorRows
  <2>2. /\ SlotStep(scope, s) /\ managing'[s] = Vendor(scope)!Idle
        /\ \A t \in scope.slots \ {s} : managing[t].v = v => ~managing'[t].fresh
    BY <1>3, VendorWritten, VendorIdle
  <2>3. RequestFits(scope, s)'
    BY <2>2, VendorIdle DEF RequestFits
  <2>4. VendorInv(scope)'
    BY <1>2, <2>1, <2>2, <2>3, VendorLeavesAgreements
  <2> QED
    BY <1>1, <1>3, <2>2, <2>4
<1>4. CASE Vendor(scope)!Give(s, Vendor(scope)!Idle) /\ UNCHANGED <<critical, profile, overlooked>>
  <2>1. VendorRows(scope)'
    BY <1>2, <1>4 DEF VendorInv, VendorType, VendorRows
  <2> QED
    BY <1>1, <1>2, <1>4, <2>1, VendorEnds
<1> QED
  BY <1>3, <1>4 DEF Vendor!Update

LEMMA VendorReadParents ==
  ASSUME NEW scope, VendorInv(scope), NEW s \in scope.slots, Vendor(scope)!ReadParents(s)
  PROVE  /\ VendorInv(scope)' /\ SlotStep(scope, s)
         /\ managing'[s].op = "offboard" /\ managing'[s].step = "commit" /\ managing'[s].v = managing[s].v
         /\ managing'[s].refresh = Vendor(scope)!Parents(managing[s].v)
<1> DEFINE parents == Vendor(scope)!Parents(managing[s].v)
           next == [managing[s] EXCEPT !.step = "commit", !.refresh = parents]
<1>1. managing[s] \in VendorRequest(scope) /\ RequestFits(scope, s) /\ parents \subseteq scope.ids
  BY ParentsAreVendors DEF VendorInv, VendorType
<1>2. managing[s].op = "offboard"
  BY DEF Vendor!ReadParents, Vendor!At
<1>3. Vendor(scope)!Give(s, next)
  BY DEF Vendor!ReadParents
<1> HIDE DEF parents
<1>4. /\ next \in VendorRequest(scope) /\ next.op = "offboard" /\ next.step = "commit"
      /\ next.refresh = parents /\ next.v = managing[s].v /\ next.c = managing[s].c
  BY <1>1, <1>2 DEF VendorRequest
<1> HIDE DEF next
<1>5. SlotStep(scope, s) /\ managing'[s] = next
  BY <1>3, <1>4, VendorGive
<1>6. RequestFits(scope, s)'
  BY <1>1, <1>2, <1>4, <1>5 DEF RequestFits
<1>7. VendorRows(scope)' /\ UNCHANGED active
  BY DEF Vendor!ReadParents, VendorInv, VendorType, VendorRows
<1>8. VendorInv(scope)'
  BY <1>5, <1>6, <1>7, VendorLeavesAgreements
<1> QED
  BY <1>4, <1>5, <1>8 DEF parents

LEMMA VendorOffboard ==
  ASSUME NEW scope, VendorInv(scope), NEW s \in scope.slots, Vendor(scope)!Offboard(s)
  PROVE  /\ VendorInv(scope)' /\ SlotStep(scope, s)
         /\ \/ UNCHANGED <<live, edges>> /\ managing'[s] = Vendor(scope)!Idle
            \/ /\ live' = live \ {managing[s].v}
               /\ managing'[s] = Vendor(scope)!Refreshing(s, managing[s].refresh)
               /\ \A e \in edges' : e.live =>
                    e \in edges /\ e.parent # managing[s].v /\ e.child # managing[s].v
               /\ \A e \in edges : e.parent # managing[s].v /\ e.child # managing[s].v => e \in edges'
               /\ \A e \in edges' : \E f \in edges : f.parent = e.parent /\ f.child = e.child
               /\ overlooked' = overlooked \cup (Vendor(scope)!Parents(managing[s].v) \ managing[s].refresh)
<1> DEFINE v == managing[s].v
<1>1. /\ managing[s] \in VendorRequest(scope) /\ managing[s].refresh \in SUBSET scope.ids
      /\ Vendor(scope)!Busy(s)
  BY DEF VendorInv, VendorType, VendorRequest, Vendor!Offboard, Vendor!At, Vendor!Busy
<1>2. CASE managing[s].v \notin live
  <2>1. VendorRows(scope)' /\ UNCHANGED <<active, live, edges>> /\ Vendor(scope)!Give(s, Vendor(scope)!Idle)
    BY <1>2 DEF Vendor!Offboard, VendorInv, VendorType, VendorRows
  <2> QED
    BY <2>1, VendorEnds
<1>3. CASE v \in live
  <2> DEFINE f == [e \in edges |-> IF v \in {e.parent, e.child} THEN [e EXCEPT !.live = FALSE] ELSE e]
  <2>1. /\ live' = live \ {v} /\ edges' = {f[e] : e \in edges}
        /\ Vendor(scope)!Give(s, Vendor(scope)!Refreshing(s, managing[s].refresh))
        /\ overlooked' = overlooked \cup (Vendor(scope)!Parents(v) \ managing[s].refresh)
        /\ UNCHANGED <<critical, profile, review, active, expiring, score, overlapped>>
    BY <1>3 DEF Vendor!Offboard, Vendor!WithoutVendor
  <2>2. \A e \in edges : e \in Edge(scope) /\ e.parent # e.child
    BY DEF VendorInv, VendorType, VendorRows
  <2>3. IsFiniteSet(edges')
    <3>1. IsFiniteSet(edges) /\ DOMAIN f = edges /\ f = [e \in edges |-> f[e]]
      BY DEF VendorInv, VendorType, VendorRows
    <3> HIDE DEF f
    <3>2. IsFiniteSet({f[e] : e \in edges})
      BY <3>1, ImageIsFinite
    <3> QED
      BY <2>1, <3>2
  <2>4. ASSUME NEW e \in edges
        PROVE  /\ f[e] \in Edge(scope) /\ f[e].parent = e.parent /\ f[e].child = e.child
               /\ v \notin {e.parent, e.child} => f[e] = e
               /\ v \in {e.parent, e.child} => ~f[e].live
    BY <2>2 DEF Edge
  <2> HIDE DEF f
  <2>5. VendorRows(scope)'
    BY <2>1, <2>2, <2>3, <2>4, ParentsAreVendors DEF VendorInv, VendorType, VendorRows
  <2>6. VendorInv(scope)' /\ SlotStep(scope, s) /\ managing'[s] = Vendor(scope)!Refreshing(s, managing[s].refresh)
    BY <1>1, <2>1, <2>5, VendorTurnsToScores
  <2>7. \A e \in edges' : e.live => e \in edges /\ e.parent # v /\ e.child # v
    BY <2>1, <2>4
  <2>8. \A e \in edges : e.parent # v /\ e.child # v => e \in edges'
    BY <2>1, <2>4
  <2>9. \A e \in edges' : \E g \in edges : g.parent = e.parent /\ g.child = e.child
    BY <2>1, <2>4
  <2> QED
    BY <2>1, <2>6, <2>7, <2>8, <2>9
<1> QED
  BY <1>2, <1>3

LEMMA VendorSupersede ==
  ASSUME NEW scope, VendorInv(scope), NEW s \in scope.slots, Vendor(scope)!SupersedeActive(s)
  PROVE  /\ VendorInv(scope)' /\ SlotStep(scope, s)
         /\ managing'[s].op = "sign" /\ managing'[s].step = "commit" /\ managing'[s].v = managing[s].v
         /\ managing'[s].seen = active[managing[s].v]
<1> DEFINE seen == active[managing[s].v]
           next == [managing[s] EXCEPT !.step = "commit", !.seen = seen]
<1>1. /\ managing[s] \in VendorRequest(scope) /\ RequestFits(scope, s) /\ managing[s].op = "sign"
      /\ Vendor(scope)!Give(s, next) /\ managing[s].v \in scope.ids
  BY DEF VendorInv, VendorType, Vendor!SupersedeActive, Vendor!At, RequestFits
<1>2. seen \subseteq Vendor(scope)!Agreements /\ OneEach(seen)
  BY <1>1 DEF VendorInv, VendorType, VendorRows
<1> HIDE DEF seen
<1>3. /\ next \in VendorRequest(scope) /\ next.op = "sign" /\ next.step = "commit" /\ next.seen = seen
      /\ next.v = managing[s].v /\ next.c = managing[s].c
  BY <1>1, <1>2 DEF VendorRequest
<1> HIDE DEF next
<1>4. SlotStep(scope, s) /\ managing'[s] = next
  BY <1>1, <1>3, VendorGive
<1>5. VendorRows(scope)' /\ UNCHANGED active
  BY DEF Vendor!SupersedeActive, VendorInv, VendorType, VendorRows
<1>6. RequestFits(scope, s)'
  BY <1>1, <1>2, <1>3, <1>4, <1>5 DEF RequestFits, seen
<1>7. VendorInv(scope)'
  BY <1>4, <1>5, <1>6, VendorLeavesAgreements
<1> QED
  BY <1>3, <1>4, <1>7 DEF seen

\* A number is left for the agreement a request signs.
LEMMA AgreementLeft ==
  ASSUME NEW scope, RegistryScope(scope), VendorInv(scope), NEW s \in scope.slots, managing[s].op = "sign"
  PROVE  LET used == active[managing[s].v]
                       \cup UNION {managing[t].seen : t \in {u \in scope.slots : managing[u].op = "sign"}}
         IN  \E a \in Vendor(scope)!Agreements : a[1] = s /\ a \notin used
<1> DEFINE used == active[managing[s].v]
                     \cup UNION {managing[t].seen : t \in {u \in scope.slots : managing[u].op = "sign"}}
           Signers == {u \in scope.slots : managing[u].op = "sign"}
           n == Cardinality(scope.slots)
           mine == {a \in used : a[1] = s}
           Sources == {managing[t].seen : t \in Signers} \cup {active[managing[s].v]}
           numbers == {k \in 1 .. n + 2 : \E a \in used : a[1] = s /\ a[2] = k}
<1>1. IsFiniteSet(Signers) /\ Cardinality(Signers) <= n /\ n \in Nat /\ Cardinality(Signers) \in Nat
  BY FS_Subset, FS_CardinalityType DEF RegistryScope
<1>2. /\ IsFiniteSet(Sources) /\ Cardinality(Sources) <= n + 1 /\ Cardinality(Sources) \in Nat
  <2> DEFINE f == [t \in Signers |-> managing[t].seen]
             Seen == {f[t] : t \in Signers}
  <2>1. IsFiniteSet(Seen) /\ Cardinality(Seen) <= Cardinality(Signers)
    BY <1>1, ImageIsFinite
  <2>2. Sources = Seen \cup {active[managing[s].v]}
    OBVIOUS
  <2>3. Cardinality(Seen) \in Nat
    BY <2>1, FS_CardinalityType
  <2> HIDE DEF Sources, Seen, Signers, n
  <2>4. IsFiniteSet(Sources) /\ Cardinality(Sources) <= Cardinality(Seen) + 1
    <3> DEFINE inForce == active[managing[s].v]
    <3> HIDE DEF inForce
    <3>1. Cardinality(Seen \cup {inForce}) = IF inForce \in Seen THEN Cardinality(Seen) ELSE Cardinality(Seen) + 1
      BY <2>1, FS_AddElement
    <3>2. IsFiniteSet(Seen \cup {inForce})
      BY <2>1, FS_AddElement
    <3> QED
      BY <2>2, <2>3, <3>1, <3>2 DEF inForce
  <2>5. Cardinality(Sources) \in Nat
    BY <2>4, FS_CardinalityType
  <2> QED
    BY <1>1, <2>1, <2>3, <2>4, <2>5
<1>3. \A A \in Sources : OneEach(A) /\ A \subseteq Vendor(scope)!Agreements
  BY DEF VendorInv, VendorType, VendorRows, RequestFits
<1>4. used = UNION Sources
  OBVIOUS
<1>5. IsFiniteSet(numbers) /\ Cardinality(numbers) <= Cardinality(Sources)
  <2> DEFINE With == {A \in Sources : \E a \in A : a[1] = s}
             f == [A \in With |-> CHOOSE k \in 1 .. n + 2 : \E a \in A : a[1] = s /\ a[2] = k]
  <2> HIDE DEF Sources, used
  <2>1. IsFiniteSet(With) /\ Cardinality(With) <= Cardinality(Sources) /\ Cardinality(With) \in Nat
    BY <1>2, FS_Subset, FS_CardinalityType
  <2>2. IsFiniteSet({f[A] : A \in With}) /\ Cardinality({f[A] : A \in With}) <= Cardinality(With)
    <3>1. DOMAIN f = With /\ f = [A \in With |-> f[A]]
      OBVIOUS
    <3> HIDE DEF f, With
    <3> QED
      BY <2>1, <3>1, ImageIsFinite
  <2>3. numbers \subseteq {f[A] : A \in With}
    <3> SUFFICES ASSUME NEW k \in numbers PROVE k \in {f[A] : A \in With}
      OBVIOUS
    <3>1. PICK a \in used : a[1] = s /\ a[2] = k
      OBVIOUS
    <3>2. PICK A \in Sources : a \in A
      BY <1>4
    <3>3. A \in With
      BY <3>1, <3>2
    <3>4. f[A] \in 1 .. n + 2 /\ \E b \in A : b[1] = s /\ b[2] = f[A]
      BY <3>1, <3>2, <3>3
    <3>5. PICK b \in A : b[1] = s /\ b[2] = f[A]
      BY <3>4
    <3>6. b = a
      BY <1>3, <3>1, <3>2, <3>5 DEF OneEach
    <3> QED
      BY <3>1, <3>3, <3>5, <3>6
  <2> DEFINE image == {f[A] : A \in With}
  <2> HIDE DEF image, numbers, With, n
  <2>4. IsFiniteSet(numbers) /\ Cardinality(numbers) <= Cardinality(image)
    BY <2>2, <2>3, FS_Subset DEF image
  <2>5. Cardinality(numbers) \in Nat /\ Cardinality(image) \in Nat
    BY <2>2, <2>4, FS_CardinalityType DEF image
  <2>6. Cardinality(image) <= Cardinality(With)
    BY <2>2 DEF image
  <2> QED
    BY <1>2, <2>1, <2>4, <2>5, <2>6
<1>6. IsFiniteSet(1 .. n + 2) /\ Cardinality(1 .. n + 2) = n + 2
  <2> HIDE DEF n
  <2> QED
    BY <1>1, FS_Interval
<1>7. PICK k \in 1 .. n + 2 : k \notin numbers
  <2>1. numbers # 1 .. n + 2
    <3>1. Cardinality(numbers) \in Nat
      BY <1>5, FS_CardinalityType
    <3> HIDE DEF numbers, Sources, n
    <3> QED
      BY <1>1, <1>2, <1>5, <1>6, <3>1
  <2> QED
    BY <2>1
<1>8. <<s, k>> \in Vendor(scope)!Agreements /\ <<s, k>>[1] = s /\ <<s, k>>[2] = k
  <2>1. Vendor(scope)!Agreements = scope.slots \X (1 .. n + 2)
    BY VendorCounts DEF Vendor!Agreements
  <2> HIDE DEF n, numbers, used, Sources, Signers, mine
  <2> QED
    BY <1>7, <2>1
<1>9. <<s, k>> \notin used
  <2> HIDE DEF used
  <2> QED
    BY <1>7, <1>8
<1> QED
  BY <1>8, <1>9

LEMMA VendorSign ==
  ASSUME NEW scope, RegistryScope(scope), VendorInv(scope), NEW s \in scope.slots,
         Vendor(scope)!CreateAgreement(s)
  PROVE  /\ VendorInv(scope)' /\ SlotStep(scope, s)
         /\ managing'[s].step = "refresh" /\ managing'[s].refresh = {managing[s].v}
         /\ managing'[s].op = "sign" /\ managing[s].v \in scope.ids
         /\ \A v \in scope.ids \ {managing[s].v} : active'[v] = active[v]
         /\ \E a : active'[managing[s].v] = (active[managing[s].v] \ managing[s].seen) \cup {a}
<1> DEFINE v == managing[s].v
           seen == managing[s].seen
           used == active[managing[s].v]
                     \cup UNION {managing[t].seen : t \in {u \in scope.slots : managing[u].op = "sign"}}
           new == CHOOSE a \in Vendor(scope)!Agreements : a[1] = s /\ a \notin used
           own == (active[v] \ seen) \cup {new}
           base == Vendor(scope)!Refreshing(s, {v})
           next == [base EXCEPT !.seen = {}]
<1>1. /\ managing[s] \in VendorRequest(scope) /\ RequestFits(scope, s)
      /\ managing[s].op = "sign" /\ managing[s].step = "commit" /\ v \in scope.ids
  BY DEF VendorInv, VendorType, RequestFits, Vendor!CreateAgreement, Vendor!At
<1>2. new \in Vendor(scope)!Agreements /\ new[1] = s
  <2>1. \E a \in Vendor(scope)!Agreements : a[1] = s /\ a \notin used
    BY <1>1, AgreementLeft
  <2> HIDE DEF used
  <2> QED
    BY <2>1
<1>3. active' = [active EXCEPT ![v] = own] /\ Vendor(scope)!Give(s, next)
  BY DEF Vendor!CreateAgreement
<1> HIDE DEF used, new, next
<1>4. active \in [scope.ids -> SUBSET Vendor(scope)!Agreements] /\ own \subseteq Vendor(scope)!Agreements
  BY <1>1, <1>2 DEF VendorInv, VendorType, VendorRows
<1>5. /\ next \in VendorRequest(scope) /\ next.step = "refresh" /\ next.refresh = {v}
      /\ next.op = "sign" /\ next.v = v /\ next.c = managing[s].c /\ next.seen = {}
  <2>1. /\ base \in VendorRequest(scope) /\ base.step = "refresh" /\ base.refresh = {v}
        /\ base.op = "sign" /\ base.v = v /\ base.c = managing[s].c
    BY <1>1, VendorRefreshes
  <2> HIDE DEF base
  <2> QED
    BY <2>1 DEF next, VendorRequest
<1>6. SlotStep(scope, s) /\ managing'[s] = next
  BY <1>3, <1>5, VendorGive
<1> HIDE DEF own
<1>7. /\ active'[v] = own /\ \A w \in scope.ids \ {v} : active'[w] = active[w]
      /\ active' \in [scope.ids -> SUBSET Vendor(scope)!Agreements]
  BY <1>1, <1>3, <1>4
<1>8. VendorRows(scope)'
  <2>1. UNCHANGED <<live, critical, profile, review, edges, score, overlapped, overlooked>> /\ expiring' \in {expiring \cup {v}, expiring \ {v}}
    BY DEF Vendor!CreateAgreement
  <2> QED
    BY <1>1, <1>7, <2>1 DEF VendorInv, VendorType, VendorRows
<1>9. OneEach(own) /\ \A a \in own : a[1] # s => a \in active[v]
  <2>1. OneEach(active[v])
    BY <1>1 DEF VendorInv
  <2>2. \A a \in active[v] : a[1] = s => a \in seen
    BY <1>1 DEF RequestFits
  <2> QED
    BY <1>2, <2>1, <2>2 DEF own, OneEach
<1>10. \A w \in scope.ids : OneEach(active'[w]) /\ \A a \in active'[w] : a[1] # s => a \in active[w]
  BY <1>7, <1>9 DEF VendorInv
<1>11. RequestFits(scope, s)'
  BY <1>1, <1>5, <1>6 DEF RequestFits, OneEach
<1>12. VendorInv(scope)'
  BY <1>6, <1>8, <1>10, <1>11, VendorMoves
<1>13. active'[v] = (active[v] \ seen) \cup {new}
  BY <1>7 DEF own
<1> QED
  BY <1>1, <1>5, <1>6, <1>7, <1>12, <1>13

LEMMA VendorReview ==
  ASSUME NEW scope, VendorInv(scope), NEW s \in scope.slots, Vendor(scope)!CreateReview(s)
  PROVE  /\ VendorInv(scope)' /\ SlotStep(scope, s) /\ managing[s].v \in scope.ids
         /\ managing'[s] = Vendor(scope)!Refreshing(s, {managing[s].v})
<1>1. /\ managing[s].v \in scope.ids /\ Vendor(scope)!Busy(s)
  BY DEF VendorInv, RequestFits, Vendor!CreateReview, Vendor!At, Vendor!Busy
<1>2. VendorRows(scope)' /\ UNCHANGED active
  BY <1>1 DEF Vendor!CreateReview, VendorInv, VendorType, VendorRows
<1>3. Vendor(scope)!Give(s, Vendor(scope)!Refreshing(s, {managing[s].v}))
  BY DEF Vendor!CreateReview
<1> QED
  BY <1>1, <1>2, <1>3, VendorTurnsToScores

LEMMA VendorSearch ==
  ASSUME NEW scope, VendorInv(scope), NEW s \in scope.slots, Vendor(scope)!Search(s)
  PROVE  /\ VendorInv(scope)' /\ SlotStep(scope, s) /\ managing[s].op = "relate" /\ managing[s].step = "check"
         /\ \/ managing'[s] = Vendor(scope)!Idle
            \/ \E x \in managing[s].todo :
                 LET todo == (managing[s].todo \ {x}) \cup (Vendor(scope)!Children(x) \ managing[s].seen)
                 IN  /\ x # managing[s].v
                     /\ managing'[s].seen = managing[s].seen \cup {x} /\ managing'[s].todo = todo
                     /\ managing'[s].step = IF todo = {} THEN "commit" ELSE "check"
                     /\ managing'[s].op = "relate" /\ managing'[s].v = managing[s].v
                     /\ managing'[s].c = managing[s].c /\ managing'[s].alone = managing[s].alone
<1>1. /\ managing[s] \in VendorRequest(scope) /\ RequestFits(scope, s)
      /\ managing[s].op = "relate" /\ managing[s].step = "check"
  BY DEF VendorInv, VendorType, Vendor!Search, Vendor!At
<1>2. VendorRows(scope)' /\ UNCHANGED active
  BY DEF Vendor!Search, VendorInv, VendorType, VendorRows
<1>3. PICK x \in managing[s].todo :
        IF x = managing[s].v THEN Vendor(scope)!Give(s, Vendor(scope)!Idle)
        ELSE LET todo == (managing[s].todo \ {x}) \cup (Vendor(scope)!Children(x) \ managing[s].seen)
             IN  Vendor(scope)!Give(s, [managing[s] EXCEPT !.seen = @ \cup {x}, !.todo = todo,
                                          !.step = IF todo = {} THEN "commit" ELSE "check"])
  BY DEF Vendor!Search
<1>4. CASE x = managing[s].v
  BY <1>1, <1>2, <1>3, <1>4, VendorEnds
<1>5. CASE x # managing[s].v
  <2> DEFINE todo == (managing[s].todo \ {x}) \cup (Vendor(scope)!Children(x) \ managing[s].seen)
             seen == managing[s].seen \cup {x}
             step == IF todo = {} THEN "commit" ELSE "check"
             next == [managing[s] EXCEPT !.seen = seen, !.todo = todo, !.step = step]
  <2>1. Vendor(scope)!Give(s, next)
    BY <1>3, <1>5
  <2>2. todo \subseteq scope.ids /\ x \in scope.ids /\ seen \subseteq scope.ids /\ step \in {"commit", "check"}
    BY <1>1 DEF VendorRequest, Vendor!Children, Vendor!Live, VendorInv, VendorType, VendorRows, Edge, RequestFits
  <2> HIDE DEF todo, seen, step
  <2>3. /\ next \in VendorRequest(scope) /\ next.seen = seen /\ next.todo = todo /\ next.step = step
        /\ next.op = "relate" /\ next.v = managing[s].v /\ next.c = managing[s].c
        /\ next.alone = managing[s].alone
    BY <1>1, <2>2 DEF VendorRequest
  <2> HIDE DEF next
  <2>4. SlotStep(scope, s) /\ managing'[s] = next
    BY <2>1, <2>3, VendorGive
  <2>5. RequestFits(scope, s)'
    BY <1>1, <2>2, <2>3, <2>4 DEF RequestFits
  <2>6. VendorInv(scope)'
    BY <1>2, <2>4, <2>5, VendorLeavesAgreements
  <2> QED
    BY <1>1, <1>5, <2>3, <2>4, <2>6 DEF todo, seen, step
<1> QED
  BY <1>4, <1>5

LEMMA VendorRelate ==
  ASSUME NEW scope, VendorInv(scope), NEW s \in scope.slots, Vendor(scope)!AddRelationship(s)
  PROVE  /\ VendorInv(scope)' /\ SlotStep(scope, s)
         /\ managing[s].op = "relate" /\ managing[s].step = "commit"
         /\ managing[s].v \in scope.ids /\ managing[s].c \in scope.ids
         /\ \/ managing'[s] = Vendor(scope)!Idle /\ UNCHANGED edges
            \/ /\ managing'[s].op = "relate" /\ managing'[s].step = "refresh"
               /\ managing'[s].refresh = {managing[s].v}
               /\ edges' = edges \cup {[parent |-> managing[s].v, child |-> managing[s].c,
                                        acked |-> FALSE, live |-> TRUE, alone |-> managing[s].alone]}
<1> DEFINE v == managing[s].v
           edge == [parent |-> v, child |-> managing[s].c, acked |-> FALSE, live |-> TRUE,
                    alone |-> managing[s].alone]
           base == Vendor(scope)!Refreshing(s, {v})
           next == [base EXCEPT !.seen = {}]
<1>1. /\ managing[s] \in VendorRequest(scope) /\ RequestFits(scope, s)
      /\ managing[s].op = "relate" /\ managing[s].step = "commit"
      /\ v \in scope.ids /\ managing[s].c \in scope.ids /\ v # managing[s].c
  BY DEF VendorInv, VendorType, RequestFits, Vendor!AddRelationship, Vendor!At
<1>2. UNCHANGED <<live, critical, profile, review, active, expiring, score, overlapped, overlooked>>
  BY DEF Vendor!AddRelationship
<1>3. CASE Vendor(scope)!Give(s, Vendor(scope)!Idle) /\ UNCHANGED edges
  <2>1. VendorRows(scope)'
    BY <1>2, <1>3 DEF VendorInv, VendorType, VendorRows
  <2> QED
    BY <1>1, <1>2, <1>3, <2>1, VendorEnds
<1>4. CASE edges' = edges \cup {edge} /\ Vendor(scope)!Give(s, next)
  <2>1. edge \in Edge(scope) /\ edge.parent # edge.child
    <3>1. managing[s].alone \in BOOLEAN
      BY <1>1 DEF VendorRequest
    <3> QED
      BY <1>1, <3>1 DEF Edge
  <2> HIDE DEF edge
  <2>2. IsFiniteSet(edges')
    BY <1>4, FS_AddElement DEF VendorInv, VendorType, VendorRows
  <2>3. VendorRows(scope)'
    BY <1>2, <1>4, <2>1, <2>2 DEF VendorInv, VendorType, VendorRows
  <2>4. /\ base \in VendorRequest(scope) /\ base.step = "refresh" /\ base.refresh = {v}
        /\ base.op = "relate" /\ base.v = v /\ base.c = managing[s].c
    BY <1>1, VendorRefreshes
  <2> HIDE DEF base
  <2>5. /\ next \in VendorRequest(scope) /\ next.step = "refresh" /\ next.refresh = {v}
        /\ next.op = "relate" /\ next.v = v /\ next.c = managing[s].c /\ next.seen = {}
    BY <2>4 DEF next, VendorRequest
  <2> HIDE DEF next
  <2>6. SlotStep(scope, s) /\ managing'[s] = next
    BY <1>4, <2>5, VendorGive
  <2>7. RequestFits(scope, s)'
    BY <1>1, <2>5, <2>6 DEF RequestFits
  <2>8. VendorInv(scope)'
    BY <1>2, <2>3, <2>6, <2>7, VendorLeavesAgreements
  <2> QED
    BY <1>1, <1>4, <2>5, <2>6, <2>8 DEF edge
<1> QED
  BY <1>3, <1>4 DEF Vendor!AddRelationship

LEMMA VendorAcknowledge ==
  ASSUME NEW scope, VendorInv(scope), NEW s \in scope.slots, Vendor(scope)!AcknowledgeRelationship(s)
  PROVE  /\ VendorInv(scope)' /\ SlotStep(scope, s) /\ managing[s].v \in scope.ids
         /\ managing'[s] = Vendor(scope)!Refreshing(s, {managing[s].v})
         /\ \A e \in edges : e.parent # managing[s].v => e \in edges'
         /\ \A e \in edges' : e.parent # managing[s].v => e \in edges
         /\ \A e \in edges : \E f \in edges' :
              f.parent = e.parent /\ f.child = e.child /\ f.live = e.live /\ f.alone = e.alone
         /\ \A f \in edges' : \E e \in edges :
              f.parent = e.parent /\ f.child = e.child /\ f.live = e.live /\ f.alone = e.alone
<1> DEFINE v == managing[s].v
           c == managing[s].c
           f == [e \in edges |-> IF e.parent = v /\ e.child = c THEN [e EXCEPT !.acked = TRUE] ELSE e]
<1>1. v \in scope.ids /\ Vendor(scope)!Busy(s)
  BY DEF VendorInv, RequestFits, Vendor!AcknowledgeRelationship, Vendor!At, Vendor!Busy
<1>2. /\ edges' = {f[e] : e \in edges} /\ Vendor(scope)!Give(s, Vendor(scope)!Refreshing(s, {v}))
      /\ UNCHANGED <<live, critical, profile, review, active, expiring, score, overlapped, overlooked>>
  BY DEF Vendor!AcknowledgeRelationship
<1>3. \A e \in edges : e \in Edge(scope) /\ e.parent # e.child
  BY DEF VendorInv, VendorType, VendorRows
<1>4. ASSUME NEW e \in edges
      PROVE  /\ f[e] \in Edge(scope) /\ f[e].parent = e.parent /\ f[e].child = e.child
             /\ f[e].live = e.live /\ f[e].alone = e.alone /\ (e.parent # v => f[e] = e)
  BY <1>3 DEF Edge
<1>5. IsFiniteSet(edges) /\ DOMAIN f = edges /\ f = [e \in edges |-> f[e]]
  BY DEF VendorInv, VendorType, VendorRows
<1> HIDE DEF f
<1>6. IsFiniteSet(edges')
  <2>1. IsFiniteSet({f[e] : e \in edges})
    BY <1>5, ImageIsFinite
  <2> QED
    BY <1>2, <2>1
<1>7. VendorRows(scope)'
  BY <1>2, <1>3, <1>4, <1>6 DEF VendorInv, VendorType, VendorRows
<1>8. VendorInv(scope)' /\ SlotStep(scope, s) /\ managing'[s] = Vendor(scope)!Refreshing(s, {v})
  BY <1>1, <1>2, <1>7, VendorTurnsToScores
<1>9. /\ \A e \in edges : e.parent # v => e \in edges'
      /\ \A e \in edges' : e.parent # v => e \in edges
  BY <1>2, <1>4
<1>10. \A e \in edges : \E g \in edges' :
         g.parent = e.parent /\ g.child = e.child /\ g.live = e.live /\ g.alone = e.alone
  BY <1>2, <1>4
<1>11. \A g \in edges' : \E e \in edges :
         g.parent = e.parent /\ g.child = e.child /\ g.live = e.live /\ g.alone = e.alone
  BY <1>2, <1>4
<1> QED
  BY <1>1, <1>8, <1>9, <1>10, <1>11

LEMMA VendorReadVersion ==
  ASSUME NEW scope, VendorInv(scope), NEW s \in scope.slots, Vendor(scope)!ReadVersion(s)
  PROVE  /\ VendorInv(scope)' /\ SlotStep(scope, s) /\ managing[s].step = "refresh"
         /\ \/ managing[s].refresh = {} /\ managing'[s] = Vendor(scope)!Idle
            \/ \E v \in managing[s].refresh :
                 /\ managing'[s].refresh = managing[s].refresh \ {v} /\ managing'[s].v = v
                 /\ managing'[s].op = managing[s].op
                 /\ IF v \in live THEN managing'[s].step = "facts" /\ managing'[s].fresh
                    ELSE managing'[s].step = "refresh"
<1>1. /\ managing[s] \in VendorRequest(scope) /\ RequestFits(scope, s) /\ managing[s].step = "refresh"
  <2>1. managing[s] \in VendorRequest(scope) /\ RequestFits(scope, s)
    BY DEF VendorInv, VendorType
  <2>2. managing[s].step = "refresh"
    BY Zenon DEF Vendor!ReadVersion
  <2> QED
    BY <2>1, <2>2
<1>2. VendorRows(scope)' /\ UNCHANGED active
  BY DEF Vendor!ReadVersion, VendorInv, VendorType, VendorRows
<1>3. CASE managing[s].refresh = {}
  <2>1. Vendor(scope)!Give(s, Vendor(scope)!Idle)
    BY <1>3 DEF Vendor!ReadVersion
  <2> QED
    BY <1>1, <1>2, <1>3, <2>1, VendorEnds
<1>4. CASE managing[s].refresh # {}
  <2>1. PICK v \in managing[s].refresh :
          LET rest == [managing[s] EXCEPT !.refresh = @ \ {v}, !.v = v]
          IN  IF v \in live THEN Vendor(scope)!Give(s, [rest EXCEPT !.step = "facts", !.fresh = TRUE])
              ELSE Vendor(scope)!Give(s, rest)
    BY <1>4 DEF Vendor!ReadVersion
  <2> DEFINE left == managing[s].refresh \ {v}
             rest == [managing[s] EXCEPT !.refresh = left, !.v = v]
             next == [rest EXCEPT !.step = "facts", !.fresh = TRUE]
  <2>2. v \in scope.ids /\ left \subseteq scope.ids
    BY <1>1 DEF VendorRequest
  <2>3. IF v \in live THEN Vendor(scope)!Give(s, next) ELSE Vendor(scope)!Give(s, rest)
    BY <2>1
  <2> HIDE DEF left
  <2>4. /\ rest \in VendorRequest(scope) /\ rest.refresh = left /\ rest.v = v
        /\ rest.op = managing[s].op /\ rest.step = "refresh" /\ rest.c = managing[s].c
        /\ rest.seen = managing[s].seen
    BY <1>1, <2>2 DEF VendorRequest
  <2> HIDE DEF rest
  <2>5. /\ next \in VendorRequest(scope) /\ next.refresh = left /\ next.v = v
        /\ next.op = managing[s].op /\ next.step = "facts" /\ next.fresh /\ next.c = managing[s].c
        /\ next.seen = managing[s].seen
    BY <2>4 DEF VendorRequest
  <2> HIDE DEF next
  <2>6. CASE v \in live
    <3>1. SlotStep(scope, s) /\ managing'[s] = next
      BY <2>3, <2>5, <2>6, VendorGive
    <3>2. RequestFits(scope, s)'
      BY <1>1, <2>2, <2>5, <3>1 DEF RequestFits, OneEach
    <3>3. VendorInv(scope)'
      BY <1>2, <3>1, <3>2, VendorLeavesAgreements
    <3> QED
      BY <1>1, <2>5, <2>6, <3>1, <3>3 DEF left
  <2>7. CASE v \notin live
    <3>1. SlotStep(scope, s) /\ managing'[s] = rest
      BY <2>3, <2>4, <2>7, VendorGive
    <3>2. RequestFits(scope, s)'
      BY <1>1, <2>2, <2>4, <3>1 DEF RequestFits, OneEach
    <3>3. VendorInv(scope)'
      BY <1>2, <3>1, <3>2, VendorLeavesAgreements
    <3> QED
      BY <1>1, <2>4, <2>7, <3>1, <3>3 DEF left
  <2> QED
    BY <2>6, <2>7, Zenon
<1> QED
  BY <1>3, <1>4, Zenon

LEMMA VendorBuild ==
  ASSUME NEW scope, RegistryScope(scope), VendorInv(scope), NEW s \in scope.slots,
         Vendor(scope)!BuildScorecard(s)
  PROVE  /\ VendorInv(scope)' /\ SlotStep(scope, s) /\ managing[s].step = "facts"
         /\ \/ /\ managing[s].v \notin live /\ managing'[s] = Vendor(scope)!Idle
               /\ overlooked' = overlooked \cup managing[s].refresh
            \/ /\ managing[s].v \in live /\ overlooked' = overlooked \ {managing[s].v}
               /\ managing'[s].step = "store" /\ managing'[s].op = managing[s].op
               /\ managing'[s].v = managing[s].v /\ managing'[s].refresh = managing[s].refresh
               /\ managing'[s].fresh = managing[s].fresh
               /\ managing'[s].facts = Vendor(scope)!Facts(managing[s].v)
<1>1. /\ managing[s] \in VendorRequest(scope) /\ RequestFits(scope, s) /\ managing[s].step = "facts"
      /\ managing[s].v \in scope.ids
  BY DEF VendorInv, VendorType, Vendor!BuildScorecard, RequestFits
<1>2. VendorRows(scope)' /\ UNCHANGED active
  <2>1. managing[s].refresh \subseteq scope.ids
    BY <1>1 DEF VendorRequest
  <2>2. /\ UNCHANGED <<live, critical, profile, review, active, expiring, edges, score, overlapped>>
        /\ \/ overlooked' = overlooked \ {managing[s].v}
           \/ overlooked' = overlooked \cup managing[s].refresh
    BY DEF Vendor!BuildScorecard
  <2> QED
    BY <2>1, <2>2 DEF VendorInv, VendorType, VendorRows
<1>3. CASE managing[s].v \notin live
  <2>1. /\ Vendor(scope)!Give(s, Vendor(scope)!Idle)
        /\ overlooked' = overlooked \cup managing[s].refresh
    BY <1>3 DEF Vendor!BuildScorecard
  <2> QED
    BY <1>1, <1>2, <1>3, <2>1, VendorEnds
<1>4. CASE managing[s].v \in live
  <2> DEFINE facts == Vendor(scope)!Facts(managing[s].v)
             next == [managing[s] EXCEPT !.step = "store", !.facts = facts]
  <2>1. Vendor(scope)!Give(s, next) /\ overlooked' = overlooked \ {managing[s].v}
    BY <1>4 DEF Vendor!BuildScorecard
  <2>2. facts \in Fact
    BY <1>1, FactsAreFacts DEF VendorInv, VendorType, VendorRows
  <2> HIDE DEF facts
  <2>3. /\ next \in VendorRequest(scope) /\ next.step = "store" /\ next.op = managing[s].op
        /\ next.v = managing[s].v /\ next.refresh = managing[s].refresh /\ next.facts = facts
        /\ next.c = managing[s].c /\ next.seen = managing[s].seen /\ next.fresh = managing[s].fresh
    BY <1>1, <2>2 DEF VendorRequest
  <2> HIDE DEF next
  <2>4. SlotStep(scope, s) /\ managing'[s] = next
    BY <2>1, <2>3, VendorGive
  <2>5. RequestFits(scope, s)'
    BY <1>1, <2>2, <2>3, <2>4 DEF RequestFits, OneEach
  <2>6. VendorInv(scope)'
    BY <1>2, <2>4, <2>5, VendorLeavesAgreements
  <2> QED
    BY <1>1, <1>4, <2>1, <2>3, <2>4, <2>6 DEF facts
<1> QED
  BY <1>3, <1>4

LEMMA VendorStore ==
  ASSUME NEW scope, VendorInv(scope), NEW s \in scope.slots, Vendor(scope)!StoreScores(s)
  PROVE  /\ VendorInv(scope)' /\ SlotStep(scope, s) /\ managing[s].step = "store"
         /\ managing'[s].step = "refresh" /\ managing'[s].refresh = managing[s].refresh
         /\ managing'[s].op = managing[s].op /\ managing[s].v \in scope.ids
         /\ \/ /\ managing[s].fresh /\ managing[s].v \in live
               /\ score' = [score EXCEPT ![managing[s].v] = managing[s].facts]
               /\ \A t \in scope.slots \ {s} : managing[t].v = managing[s].v => ~managing'[t].fresh
               /\ UNCHANGED overlooked
            \/ UNCHANGED score /\ overlooked' = overlooked \cup {managing[s].v}
<1> DEFINE base == Vendor(scope)!Refreshing(s, managing[s].refresh)
           next == [base EXCEPT !.fresh = FALSE, !.facts = None]
<1>1. /\ managing[s] \in VendorRequest(scope) /\ RequestFits(scope, s) /\ managing[s].step = "store"
      /\ managing[s].v \in scope.ids
  BY DEF VendorInv, VendorType, Vendor!StoreScores, RequestFits
<1>2. managing[s].facts \in Fact /\ managing[s].refresh \subseteq scope.ids
  BY <1>1 DEF VendorRequest, RequestFits
<1>3. /\ base \in VendorRequest(scope) /\ base.step = "refresh" /\ base.refresh = managing[s].refresh
      /\ base.op = managing[s].op /\ base.v = managing[s].v /\ base.c = managing[s].c
      /\ base.seen = managing[s].seen
  BY <1>2, VendorRefreshes
<1>4. /\ UNCHANGED <<live, critical, profile, review, active, expiring, edges, overlapped>>
      /\ \/ /\ managing[s].fresh /\ managing[s].v \in live
            /\ score' = [score EXCEPT ![managing[s].v] = managing[s].facts]
            /\ managing' = Vendor(scope)!Written(s, managing[s].v, next)
            /\ UNCHANGED overlooked
         \/ /\ Vendor(scope)!Give(s, next) /\ UNCHANGED score
            /\ overlooked' = overlooked \cup {managing[s].v}
  BY DEF Vendor!StoreScores
<1> HIDE DEF base
<1>5. /\ next \in VendorRequest(scope) /\ next.step = "refresh" /\ next.refresh = managing[s].refresh
      /\ next.op = managing[s].op /\ next.v = managing[s].v /\ next.c = managing[s].c
      /\ next.seen = managing[s].seen
  BY <1>3 DEF VendorRequest
<1> HIDE DEF next
<1>6. /\ SlotStep(scope, s) /\ managing'[s] = next
      /\ managing' = Vendor(scope)!Written(s, managing[s].v, next) =>
           \A t \in scope.slots \ {s} : managing[t].v = managing[s].v => ~managing'[t].fresh
  BY <1>4, <1>5, VendorGive, VendorWritten
<1>7. RequestFits(scope, s)'
  BY <1>1, <1>5, <1>6 DEF RequestFits, OneEach
<1>8. VendorRows(scope)'
  BY <1>1, <1>2, <1>4 DEF VendorInv, VendorType, VendorRows
<1>9. VendorInv(scope)'
  BY <1>4, <1>6, <1>7, <1>8, VendorLeavesAgreements
<1> QED
  BY <1>1, <1>4, <1>5, <1>6, <1>9

LEMMA VendorFails ==
  ASSUME NEW scope, VendorInv(scope), NEW s \in scope.slots, Vendor(scope)!RequestFails(s)
  PROVE  /\ VendorInv(scope)' /\ SlotStep(scope, s) /\ managing'[s] = Vendor(scope)!Idle
         /\ Vendor(scope)!ToScore(s) \subseteq scope.ids
<1>1. managing[s] \in VendorRequest(scope) /\ RequestFits(scope, s)
  BY DEF VendorInv, VendorType
<1>2. Vendor(scope)!ToScore(s) \subseteq scope.ids
  <2>1. managing[s].step \in {"facts", "store"} => managing[s].v \in scope.ids
    BY <1>1 DEF RequestFits
  <2>2. managing[s].refresh \subseteq scope.ids
    BY <1>1 DEF VendorRequest
  <2> QED
    BY <2>1, <2>2 DEF Vendor!ToScore
<1>3. /\ overlooked' = overlooked \cup Vendor(scope)!ToScore(s)
      /\ UNCHANGED <<live, critical, profile, review, active, expiring, edges, score, overlapped>>
      /\ Vendor(scope)!Give(s, Vendor(scope)!Idle)
  BY DEF Vendor!RequestFails
<1>4. VendorRows(scope)'
  BY <1>2, <1>3 DEF VendorInv, VendorType, VendorRows
<1> QED
  BY <1>2, <1>3, <1>4, VendorEnds

LEMMA VendorDatePasses ==
  ASSUME NEW scope, VendorInv(scope), NEW v \in scope.ids, Vendor(scope)!DatePasses(v)
  PROVE  /\ VendorInv(scope)' /\ \A w \in scope.ids : active'[w] \subseteq active[w]
         /\ \A w \in scope.ids \ {v} : active'[w] = active[w] /\ profile'[w] = profile[w]
         /\ profile'[v] \in VendorProfiles \cup {profile[v]}
<1>1. UNCHANGED <<live, critical, review, edges, score, managing, overlapped>> /\ overlooked' = overlooked \cup {v}
  BY DEF Vendor!DatePasses
<1>2. /\ \/ UNCHANGED profile
         \/ \E p \in VendorProfiles : profile' = [profile EXCEPT ![v] = p]
      /\ expiring' \in {expiring, expiring \cup {v}}
      /\ \/ UNCHANGED active
         \/ \E a \in active[v] : active' = [active EXCEPT ![v] = active[v] \ {a}]
  BY DEF Vendor!DatePasses
<1>3. /\ active \in [scope.ids -> SUBSET Vendor(scope)!Agreements]
      /\ profile \in [scope.ids -> VendorProfiles \cup {None}]
  BY DEF VendorInv, VendorType, VendorRows
<1>4. /\ active' \in [scope.ids -> SUBSET Vendor(scope)!Agreements]
      /\ \A w \in scope.ids : active'[w] \subseteq active[w]
      /\ \A w \in scope.ids \ {v} : active'[w] = active[w]
  BY <1>2, <1>3
<1>5. /\ profile' \in [scope.ids -> VendorProfiles \cup {None}]
      /\ \A w \in scope.ids \ {v} : profile'[w] = profile[w]
      /\ profile'[v] \in VendorProfiles \cup {profile[v]}
  BY <1>2, <1>3
<1>6. VendorType(scope)'
  BY <1>1, <1>2, <1>4, <1>5 DEF VendorInv, VendorType, VendorRows
<1>7. \A w \in scope.ids : OneEach(active'[w])
  BY <1>4 DEF VendorInv, OneEach
<1>8. ASSUME NEW s \in scope.slots PROVE RequestFits(scope, s)'
  <2>1. RequestFits(scope, s) /\ managing'[s] = managing[s]
    BY <1>1 DEF VendorInv
  <2> QED
    BY <1>4, <2>1 DEF RequestFits
<1> QED
  BY <1>4, <1>5, <1>6, <1>7, <1>8 DEF VendorInv

LEMMA VendorNext ==
  ASSUME NEW scope, RegistryScope(scope), VendorInv(scope), Vendor(scope)!Next
  PROVE  VendorInv(scope)'
<1>1. CASE \E s \in scope.slots : \E op \in scope.ops : \E v, c \in scope.ids :
              Vendor(scope)!Receive(s, op, v, c)
  BY <1>1, VendorReceive
<1>2. CASE \E s \in scope.slots : Vendor(scope)!Commit(s)
  BY <1>2, VendorCreate, VendorUpdate, VendorReadParents, VendorOffboard, VendorSupersede, VendorSign,
     VendorReview, VendorSearch, VendorRelate, VendorAcknowledge DEF Vendor!Commit
<1>3. CASE \E s \in scope.slots :
              \/ Vendor(scope)!ReadVersion(s) \/ Vendor(scope)!BuildScorecard(s)
              \/ Vendor(scope)!StoreScores(s) \/ Vendor(scope)!RequestFails(s)
  BY <1>3, VendorReadVersion, VendorBuild, VendorStore, VendorFails
<1>4. CASE \E v \in scope.ids : Vendor(scope)!DatePasses(v)
  BY <1>4, VendorDatePasses
<1> QED
  BY <1>1, <1>2, <1>3, <1>4 DEF Vendor!Next

LEMMA VendorStutters ==
  ASSUME NEW scope, VendorInv(scope), UNCHANGED vendorVars
  PROVE  VendorInv(scope)'
<1>1. UNCHANGED <<live, critical, profile, review, active, expiring, edges, score, managing, overlapped,
                 overlooked>>
  BY DEF vendorVars
<1>2. VendorType(scope)' /\ \A v \in scope.ids : OneEach(active'[v])
  BY <1>1 DEF VendorInv, VendorType, VendorRows
<1>3. \A s \in scope.slots : RequestFits(scope, s)'
  BY <1>1 DEF VendorInv, RequestFits
<1> QED
  BY <1>2, <1>3 DEF VendorInv

---------------------------------------------------------------------------
(* What a vendor's row and the requests know of vendors                     *)

\* A vendor that was registered has a profile, and only such vendors are live
\* or linked; one that is being created has none, and no other request creates it.
Known(scope) ==
  /\ \A v \in live : profile[v] # None
  /\ \A e \in edges : profile[e.parent] # None /\ profile[e.child] # None
  /\ \A s \in scope.slots :
       /\ managing[s].op = "relate" /\ managing[s].step \in {"check", "commit"} =>
            profile[managing[s].v] # None /\ profile[managing[s].c] # None
       /\ managing[s].op = "create" /\ managing[s].step = "check" =>
            /\ profile[managing[s].v] = None
            /\ \A t \in scope.slots :
                 managing[t].op = "create" /\ managing[t].step = "check" /\ managing[t].v = managing[s].v
                   => t = s

LEMMA KnownMoves ==
  ASSUME NEW scope, VendorInv(scope), Known(scope), NEW s \in scope.slots, SlotStep(scope, s),
         \A v \in scope.ids : profile[v] # None => profile'[v] # None,
         \A v \in scope.ids : profile[v] = None /\ profile'[v] # None =>
           managing[s].op = "create" /\ managing[s].step = "check" /\ managing[s].v = v,
         \A v \in live' : v \in live \/ profile'[v] # None,
         \A e \in edges' : \/ \E f \in edges : f.parent = e.parent /\ f.child = e.child
                           \/ profile'[e.parent] # None /\ profile'[e.child] # None,
         managing'[s].op = "relate" /\ managing'[s].step \in {"check", "commit"} =>
           profile'[managing'[s].v] # None /\ profile'[managing'[s].c] # None,
         managing'[s].op = "create" /\ managing'[s].step = "check" =>
           /\ profile'[managing'[s].v] = None
           /\ \A t \in scope.slots \ {s} :
                ~(managing[t].op = "create" /\ managing[t].step = "check" /\ managing[t].v = managing'[s].v)
  PROVE  Known(scope)'
<1>1. live \subseteq scope.ids /\ \A e \in edges : e.parent \in scope.ids /\ e.child \in scope.ids
  BY DEF VendorInv, VendorType, VendorRows, Edge
<1>2. \A v \in live' : profile'[v] # None
  BY <1>1 DEF Known
<1>3. \A e \in edges' : profile'[e.parent] # None /\ profile'[e.child] # None
  BY <1>1 DEF Known
<1>4. ASSUME NEW t \in scope.slots \ {s}
      PROVE  /\ managing'[t].op = managing[t].op /\ managing'[t].step = managing[t].step
             /\ managing'[t].v = managing[t].v /\ managing'[t].c = managing[t].c
             /\ managing[t].op # "idle" => managing[t].v \in scope.ids /\ managing[t].c \in scope.ids
  BY DEF SlotStep, VendorInv, RequestFits
<1>5. ASSUME NEW t \in scope.slots, managing'[t].op = "relate", managing'[t].step \in {"check", "commit"}
      PROVE  profile'[managing'[t].v] # None /\ profile'[managing'[t].c] # None
  <2>1. CASE t = s
    BY <1>5, <2>1
  <2>2. CASE t # s
    BY <1>4, <1>5, <2>2 DEF Known
  <2> QED
    BY <2>1, <2>2
<1>6. ASSUME NEW t \in scope.slots \ {s}, managing'[t].op = "create", managing'[t].step = "check"
      PROVE  profile'[managing'[t].v] = None
  <2>1. /\ managing[t].op = "create" /\ managing[t].step = "check" /\ managing[t].v \in scope.ids
        /\ managing'[t].v = managing[t].v
    BY <1>4, <1>6
  <2>2. profile[managing[t].v] = None
    BY <2>1 DEF Known
  <2>3. ~(managing[s].op = "create" /\ managing[s].step = "check" /\ managing[s].v = managing[t].v)
    BY <2>1 DEF Known
  <2> QED
    BY <2>1, <2>2, <2>3
<1>7. ASSUME NEW t \in scope.slots, NEW u \in scope.slots,
             managing'[t].op = "create", managing'[t].step = "check",
             managing'[u].op = "create", managing'[u].step = "check", managing'[u].v = managing'[t].v
      PROVE  u = t
  <2>1. CASE t = s \/ u = s
    BY <1>4, <1>7, <2>1
  <2>2. CASE t # s /\ u # s
    BY <1>4, <1>7, <2>2 DEF Known
  <2> QED
    BY <2>1, <2>2
<1> QED
  BY <1>2, <1>3, <1>5, <1>6, <1>7 DEF Known

\* Steps that leave the vendors and their relationships alone.
LEMMA KnownUntouched ==
  ASSUME NEW scope, VendorInv(scope), Known(scope), NEW s \in scope.slots, SlotStep(scope, s),
         UNCHANGED <<profile, live, edges>>,
         managing'[s].op \in {"create", "relate"} /\ managing'[s].step \in {"check", "commit"} =>
           /\ managing[s].op = managing'[s].op /\ managing[s].step = "check"
           /\ managing[s].v = managing'[s].v /\ managing[s].c = managing'[s].c
  PROVE  Known(scope)'
<1>1. managing'[s].op = "relate" /\ managing'[s].step \in {"check", "commit"} =>
        profile[managing'[s].v] # None /\ profile[managing'[s].c] # None
  BY DEF Known
<1>2. managing'[s].op = "create" /\ managing'[s].step = "check" =>
        /\ profile[managing'[s].v] = None
        /\ \A t \in scope.slots \ {s} :
             ~(managing[t].op = "create" /\ managing[t].step = "check" /\ managing[t].v = managing'[s].v)
  BY DEF Known
<1> QED
  BY <1>1, <1>2, KnownMoves

---------------------------------------------------------------------------
(* The stored scores: whoever changes the facts of a vendor goes on to       *)
(* store its score, or the vendor is overlooked.                             *)

\* Whatever is still going to be stored for v is what is stored.
Settled(scope, v) ==
  /\ score[v] = Vendor(scope)!Facts(v)
  /\ \A s \in scope.slots : managing[s].step = "store" /\ managing[s].v = v /\ managing[s].fresh =>
                              managing[s].facts = Vendor(scope)!Facts(v)

\* Request s is going to compute the score of v, or has computed it as it is.
Promises(scope, s, v) ==
  \/ managing[s].step \in {"refresh", "facts", "store"} /\ v \in managing[s].refresh
  \/ managing[s].step = "facts" /\ v = managing[s].v
  \/ /\ managing[s].step = "store" /\ v = managing[s].v
     /\ managing[s].fresh => managing[s].facts = Vendor(scope)!Facts(v)

Account(scope) ==
  \A v \in live \ overlooked : Settled(scope, v) \/ \E s \in scope.slots : Promises(scope, s, v)

LEMMA PromisesToScore ==
  ASSUME NEW scope, NEW s, NEW v, Promises(scope, s, v)
  PROVE  v \in Vendor(scope)!ToScore(s)
BY DEF Promises, Vendor!ToScore

LEMMA FactsKept ==
  ASSUME NEW scope, NEW v,
         v \in critical' <=> v \in critical, profile'[v] = profile[v], review'[v] = review[v],
         active'[v] = {} <=> active[v] = {}, v \in expiring' <=> v \in expiring,
         \A e \in edges' : e.parent = v /\ e.live => e \in edges,
         \A e \in edges : e.parent = v /\ e.live => e \in edges',
         \A e \in edges : e.parent = v /\ e.live =>
           (e.child \in critical' /\ e.child \in live' <=> e.child \in critical /\ e.child \in live)
  PROVE  Vendor(scope)!Facts(v)' = Vendor(scope)!Facts(v)
<1> DEFINE Out(E) == {e \in E : e.live /\ e.parent = v}
           Counted(E, C, L) == {e.child : e \in Out(E)} \cap C \cap L
           Unacked(E) == {e \in Out(E) : ~e.acked}
<1>1. Out(edges') = Out(edges)
  OBVIOUS
<1>2. Counted(edges', critical', live') = Counted(edges, critical, live)
  <2> SUFFICES ASSUME NEW x
               PROVE  x \in Counted(edges', critical', live') <=> x \in Counted(edges, critical, live)
    OBVIOUS
  <2> QED
    BY <1>1
<1>3. Unacked(edges') = Unacked(edges)
  BY <1>1
<1>4. /\ Vendor(scope)!Children(v) \cap critical \cap live = Counted(edges, critical, live)
      /\ {e \in Vendor(scope)!Live : e.parent = v /\ ~e.acked} = Unacked(edges)
  BY DEF Vendor!Children, Vendor!Live
<1>5. /\ (Vendor(scope)!Children(v) \cap critical \cap live)' = Counted(edges', critical', live')
      /\ {e \in Vendor(scope)!Live : e.parent = v /\ ~e.acked}' = Unacked(edges')
  BY DEF Vendor!Children, Vendor!Live
<1> HIDE DEF Counted, Unacked
<1> DEFINE dpa(A, E) == CASE A[v] = {} -> "missing"
                          [] A[v] # {} /\ v \in E -> "expiring"
                          [] OTHER -> "held"
<1>6. (v \in critical') = (v \in critical) /\ dpa(active', expiring') = dpa(active, expiring)
  OBVIOUS
<1>7. Vendor(scope)!Facts(v) =
        [critical |-> v \in critical, profile |-> profile[v], review |-> review[v],
         dpa |-> dpa(active, expiring), children |-> Cardinality(Counted(edges, critical, live)),
         unacknowledged |-> Cardinality(Unacked(edges))]
  BY <1>4, VendorCounts DEF Vendor!Facts
<1>8. Vendor(scope)!Facts(v)' =
        [critical |-> v \in critical', profile |-> profile'[v], review |-> review'[v],
         dpa |-> dpa(active', expiring'), children |-> Cardinality(Counted(edges', critical', live')),
         unacknowledged |-> Cardinality(Unacked(edges'))]
  BY <1>5, VendorCounts DEF Vendor!Facts
<1> HIDE DEF dpa
<1> QED
  BY <1>2, <1>3, <1>6, <1>7, <1>8

LEMMA FactsUntouched ==
  ASSUME NEW scope, UNCHANGED <<live, critical, profile, review, active, expiring, edges>>
  PROVE  \A v : Vendor(scope)!Facts(v)' = Vendor(scope)!Facts(v)
<1> TAKE v
<1> QED
  BY FactsKept

\* What the requests beside s promise they still do.
LEMMA OthersPromise ==
  ASSUME NEW scope, NEW s \in scope.slots, SlotStep(scope, s), NEW v,
         Vendor(scope)!Facts(v)' = Vendor(scope)!Facts(v), NEW t \in scope.slots \ {s},
         Promises(scope, t, v)
  PROVE  Promises(scope, t, v)'
BY DEF SlotStep, Promises

\* What a step of request s has to show: it promises the score of a vendor
\* itself, or leaves the facts, the score and what it had promised as they are.
LEMMA AccountMoves ==
  ASSUME NEW scope, Account(scope), NEW s \in scope.slots, SlotStep(scope, s),
         \A v \in live' \ overlooked' :
           \/ Promises(scope, s, v)'
           \/ /\ v \in live \ overlooked /\ score'[v] = score[v]
              /\ Vendor(scope)!Facts(v)' = Vendor(scope)!Facts(v)
              /\ ~Promises(scope, s, v) /\ (managing'[s].step = "store" => managing'[s].v # v)
  PROVE  Account(scope)'
<1> SUFFICES ASSUME NEW v \in live' \ overlooked', ~Promises(scope, s, v)'
             PROVE  Settled(scope, v)' \/ \E t \in scope.slots : Promises(scope, t, v)'
  BY DEF Account
<1>1. /\ v \in live \ overlooked /\ score'[v] = score[v]
      /\ Vendor(scope)!Facts(v)' = Vendor(scope)!Facts(v)
      /\ ~Promises(scope, s, v) /\ (managing'[s].step = "store" => managing'[s].v # v)
  OBVIOUS
<1>2. CASE \E t \in scope.slots : Promises(scope, t, v)
  BY <1>1, <1>2, OthersPromise
<1>3. CASE Settled(scope, v)
  <2>1. ASSUME NEW t \in scope.slots, managing'[t].step = "store", managing'[t].v = v, managing'[t].fresh
        PROVE  managing'[t].facts = Vendor(scope)!Facts(v)
    <3>1. t # s
      BY <1>1, <2>1
    <3>2. /\ managing[t].step = "store" /\ managing[t].v = v /\ managing[t].fresh
          /\ managing'[t].facts = managing[t].facts
      BY <2>1, <3>1 DEF SlotStep
    <3> QED
      BY <1>3, <3>2 DEF Settled
  <2> QED
    BY <1>1, <1>3, <2>1 DEF Settled
<1> QED
  BY <1>1, <1>2, <1>3 DEF Account

\* Steps of requests that are not about to store scores, and do not turn to it.
LEMMA AccountUntouched ==
  ASSUME NEW scope, Account(scope), NEW s \in scope.slots, SlotStep(scope, s),
         managing[s].step \notin {"refresh", "facts", "store"}, managing'[s].step # "store",
         UNCHANGED <<live, critical, profile, review, active, expiring, edges, score, overlooked>>
  PROVE  Account(scope)'
<1>1. \A v : ~Promises(scope, s, v)
  BY DEF Promises
<1>2. \A v : Vendor(scope)!Facts(v)' = Vendor(scope)!Facts(v)
  BY FactsUntouched
<1> QED
  BY <1>1, <1>2, AccountMoves

---------------------------------------------------------------------------
(* Requests that never overlap, and the agreements they sign                *)

Quiet(scope) ==
  /\ \A s, t \in scope.slots : Vendor(scope)!Busy(s) /\ Vendor(scope)!Busy(t) => s = t
  /\ \A s \in scope.slots : managing[s].op = "sign" /\ managing[s].step = "commit" =>
                              active[managing[s].v] \subseteq managing[s].seen
  /\ \A v \in scope.ids : \A a, b \in active[v] : a = b

QuietInv(scope) == ~overlapped => Quiet(scope)

LEMMA QuietMoves ==
  ASSUME NEW scope, VendorInv(scope), QuietInv(scope), NEW s \in scope.slots, SlotStep(scope, s),
         Vendor(scope)!Busy(s), UNCHANGED overlapped,
         Quiet(scope) /\ managing'[s].op = "sign" /\ managing'[s].step = "commit" =>
           active'[managing'[s].v] \subseteq managing'[s].seen,
         Quiet(scope) => \A v \in scope.ids : \A a, b \in active'[v] : a = b
  PROVE  QuietInv(scope)'
<1> SUFFICES ASSUME ~overlapped PROVE Quiet(scope)'
  BY DEF QuietInv
<1>1. Quiet(scope)
  BY DEF QuietInv
<1>2. ASSUME NEW t \in scope.slots \ {s} PROVE managing'[t].op = "idle"
  BY <1>1 DEF Quiet, Vendor!Busy, SlotStep
<1> QED
  BY <1>1, <1>2 DEF Quiet, Vendor!Busy

LEMMA QuietUntouched ==
  ASSUME NEW scope, VendorInv(scope), QuietInv(scope), NEW s \in scope.slots, SlotStep(scope, s),
         Vendor(scope)!Busy(s), UNCHANGED <<overlapped, active>>,
         ~(managing'[s].op = "sign" /\ managing'[s].step = "commit")
  PROVE  QuietInv(scope)'
BY QuietMoves DEF Quiet

---------------------------------------------------------------------------
(* One step of the registry                                                 *)

ScoreInv(scope) == VendorInv(scope) /\ Known(scope) /\ Account(scope) /\ QuietInv(scope)

LEMMA ScoreReceive ==
  ASSUME NEW scope, RegistryScope(scope), ScoreInv(scope), NEW s \in scope.slots,
         NEW op \in scope.ops, NEW v \in scope.ids, NEW c \in scope.ids, Vendor(scope)!Receive(s, op, v, c)
  PROVE  ScoreInv(scope)'
<1>1. /\ VendorInv(scope)' /\ SlotStep(scope, s)
      /\ managing'[s].op = op /\ managing'[s].step = "check" /\ managing'[s].v = v /\ managing'[s].c = c
  BY VendorReceive DEF ScoreInv
<1>2. UNCHANGED <<live, critical, profile, review, active, expiring, edges, score, overlooked>>
  BY DEF Vendor!Receive
<1>3. managing[s].step = "idle"
  BY DEF Vendor!Receive, Vendor!Busy, ScoreInv, VendorInv, RequestFits
<1>4. Known(scope)'
  <2>1. op = "relate" => profile[v] # None /\ profile[c] # None
    BY DEF Vendor!Receive, ScoreInv, Known
  <2>2. op = "create" => /\ profile[v] = None
                         /\ \A t \in scope.slots : managing[t].op = "create" => managing[t].v # v
    BY DEF Vendor!Receive
  <2> QED
    BY <1>1, <1>2, <2>1, <2>2, KnownMoves DEF ScoreInv
<1>5. Account(scope)'
  BY <1>1, <1>2, <1>3, AccountUntouched DEF ScoreInv
<1>6. QuietInv(scope)'
  <2> SUFFICES ASSUME ~overlapped' PROVE Quiet(scope)'
    BY DEF QuietInv
  <2>1. ~overlapped /\ {t \in scope.slots : Vendor(scope)!Busy(t)} = {}
    BY DEF Vendor!Receive
  <2>2. \A t \in scope.slots : managing[t].op = "idle"
    BY <2>1 DEF Vendor!Busy
  <2>3. \A t \in scope.slots \ {s} : managing'[t].op = "idle"
    BY <1>1, <2>2 DEF SlotStep
  <2>4. \A w \in scope.ids : \A a, b \in active'[w] : a = b
    BY <1>2, <2>1 DEF ScoreInv, QuietInv, Quiet
  <2> QED
    BY <1>1, <2>3, <2>4 DEF Quiet, Vendor!Busy
<1> QED
  BY <1>1, <1>4, <1>5, <1>6 DEF ScoreInv

LEMMA ScoreCreate ==
  ASSUME NEW scope, ScoreInv(scope), NEW s \in scope.slots, Vendor(scope)!CreateVendor(s)
  PROVE  ScoreInv(scope)'
<1> DEFINE v == managing[s].v
<1>1. /\ VendorInv(scope)' /\ SlotStep(scope, s)
      /\ managing'[s].op = "create" /\ managing'[s].step = "facts" /\ managing'[s].v = v /\ v \in scope.ids
      /\ \E p \in VendorProfiles : profile' = [profile EXCEPT ![v] = p]
  BY VendorCreate DEF ScoreInv
<1>2. /\ managing[s].op = "create" /\ managing[s].step = "check"
      /\ live' = live \cup {v} /\ critical' \in {critical, critical \cup {v}}
      /\ UNCHANGED <<review, active, expiring, edges, score, overlapped, overlooked>>
  BY DEF Vendor!CreateVendor, Vendor!At
<1>3. profile[v] = None /\ \A e \in edges : e.child # v
  BY <1>2 DEF ScoreInv, Known
<1>4. profile'[v] # None /\ \A w \in scope.ids \ {v} : profile'[w] = profile[w]
  BY <1>1, MCComplianceAssumption DEF ScoreInv, VendorInv, VendorType, VendorRows
<1>5. Known(scope)'
  BY <1>1, <1>2, <1>4, KnownMoves DEF ScoreInv
<1>6. Account(scope)'
  <2>1. ASSUME NEW w \in live' \ overlooked', w # v
        PROVE  /\ w \in live \ overlooked /\ Vendor(scope)!Facts(w)' = Vendor(scope)!Facts(w)
               /\ ~Promises(scope, s, w)
    <3>1. w \in live \ overlooked /\ w \in scope.ids
      BY <1>2, <2>1 DEF ScoreInv, VendorInv, VendorType, VendorRows
    <3> QED
      BY <1>2, <1>3, <1>4, <2>1, <3>1, FactsKept DEF Promises
  <2>2. Promises(scope, s, v)'
    BY <1>1 DEF Promises
  <2> QED
    BY <1>1, <1>2, <2>1, <2>2, AccountMoves DEF ScoreInv
<1>7. QuietInv(scope)'
  BY <1>1, <1>2, QuietUntouched DEF ScoreInv, Vendor!Busy
<1> QED
  BY <1>1, <1>5, <1>6, <1>7 DEF ScoreInv

LEMMA ScoreUpdate ==
  ASSUME NEW scope, ScoreInv(scope), NEW s \in scope.slots, Vendor(scope)!Update(s)
  PROVE  ScoreInv(scope)'
<1> DEFINE v == managing[s].v
<1>1. /\ VendorInv(scope)' /\ SlotStep(scope, s) /\ v \in scope.ids
      /\ managing'[s].op = "idle" /\ managing'[s].step = "idle"
  BY VendorUpdate, VendorIdle DEF ScoreInv
<1>2. /\ managing[s].op = "update" /\ managing[s].step = "check"
      /\ UNCHANGED <<live, review, active, expiring, edges, score, overlapped>>
  BY DEF Vendor!Update, Vendor!At
<1>3. QuietInv(scope)'
  BY <1>1, <1>2, QuietUntouched DEF ScoreInv, Vendor!Busy
<1>4. CASE UNCHANGED <<critical, profile, overlooked>>
  <2>1. Known(scope)'
    BY <1>1, <1>2, <1>4, KnownUntouched DEF ScoreInv
  <2>2. Account(scope)'
    BY <1>1, <1>2, <1>4, AccountUntouched DEF ScoreInv
  <2> QED
    BY <1>1, <1>3, <2>1, <2>2 DEF ScoreInv
<1>5. CASE /\ v \in live /\ critical' \in {critical \cup {v}, critical \ {v}}
           /\ \E p \in VendorProfiles : profile' = [profile EXCEPT ![v] = p]
           /\ overlooked' = overlooked
                \cup (IF critical' = critical /\ profile' = profile THEN {} ELSE {v})
                \cup (IF critical' = critical THEN {} ELSE Vendor(scope)!Parents(v))
  <2>1. /\ profile[v] # None /\ profile'[v] # None
        /\ \A w \in scope.ids \ {v} : profile'[w] = profile[w]
    BY <1>1, <1>5, MCComplianceAssumption DEF ScoreInv, Known, VendorInv, VendorType, VendorRows
  <2>2. Known(scope)'
    BY <1>1, <1>2, <2>1, KnownMoves DEF ScoreInv
  <2>3. ASSUME NEW w \in live' \ overlooked'
        PROVE  /\ w \in live \ overlooked /\ Vendor(scope)!Facts(w)' = Vendor(scope)!Facts(w)
               /\ ~Promises(scope, s, w)
    <3>1. w \in live \ overlooked /\ w \in scope.ids /\ ~Promises(scope, s, w)
      BY <1>2, <1>5, <2>3 DEF ScoreInv, VendorInv, VendorType, VendorRows, Promises
    <3>2. critical' = critical \/ \A e \in edges : e.live /\ e.parent = w => e.child # v
      BY <1>5, <2>3 DEF Vendor!Parents, Vendor!Live
    <3>3. (v = w => critical' = critical) /\ profile'[w] = profile[w]
      BY <1>5, <2>1, <2>3, <3>1
    <3>4. Vendor(scope)!Facts(w)' = Vendor(scope)!Facts(w)
      BY <1>2, <1>5, <3>1, <3>2, <3>3, FactsKept
    <3> QED
      BY <3>1, <3>4
  <2>4. Account(scope)'
    BY <1>1, <1>2, <2>3, AccountMoves DEF ScoreInv
  <2> QED
    BY <1>1, <1>3, <2>2, <2>4 DEF ScoreInv
<1> QED
  BY <1>4, <1>5 DEF Vendor!Update

LEMMA ScoreReadParents ==
  ASSUME NEW scope, ScoreInv(scope), NEW s \in scope.slots, Vendor(scope)!ReadParents(s)
  PROVE  ScoreInv(scope)'
<1>1. /\ VendorInv(scope)' /\ SlotStep(scope, s)
      /\ managing'[s].op = "offboard" /\ managing'[s].step = "commit"
  BY VendorReadParents DEF ScoreInv
<1>2. /\ managing[s].op = "offboard" /\ managing[s].step = "check"
      /\ UNCHANGED <<live, critical, profile, review, active, expiring, edges, score, overlapped, overlooked>>
  BY DEF Vendor!ReadParents, Vendor!At
<1> QED
  BY <1>1, <1>2, KnownUntouched, AccountUntouched, QuietUntouched DEF ScoreInv, Vendor!Busy

LEMMA ScoreSupersede ==
  ASSUME NEW scope, ScoreInv(scope), NEW s \in scope.slots, Vendor(scope)!SupersedeActive(s)
  PROVE  ScoreInv(scope)'
<1>1. /\ VendorInv(scope)' /\ SlotStep(scope, s)
      /\ managing'[s].op = "sign" /\ managing'[s].step = "commit" /\ managing'[s].v = managing[s].v
      /\ managing'[s].seen = active[managing[s].v]
  BY VendorSupersede DEF ScoreInv
<1>2. /\ managing[s].op = "sign" /\ managing[s].step = "check"
      /\ UNCHANGED <<live, critical, profile, review, active, expiring, edges, score, overlapped, overlooked>>
  BY DEF Vendor!SupersedeActive, Vendor!At
<1>3. QuietInv(scope)'
  BY <1>1, <1>2, QuietMoves DEF ScoreInv, Quiet, Vendor!Busy
<1> QED
  BY <1>1, <1>2, <1>3, KnownUntouched, AccountUntouched DEF ScoreInv

LEMMA ScoreSearch ==
  ASSUME NEW scope, ScoreInv(scope), NEW s \in scope.slots, Vendor(scope)!Search(s)
  PROVE  ScoreInv(scope)'
<1>1. /\ VendorInv(scope)' /\ SlotStep(scope, s) /\ managing[s].op = "relate" /\ managing[s].step = "check"
      /\ \/ managing'[s].op = "idle" /\ managing'[s].step = "idle"
         \/ /\ managing'[s].op = "relate" /\ managing'[s].v = managing[s].v
            /\ managing'[s].c = managing[s].c /\ managing'[s].step \in {"commit", "check"}
  BY VendorSearch, VendorIdle DEF ScoreInv
<1>2. UNCHANGED <<live, critical, profile, review, active, expiring, edges, score, overlapped, overlooked>>
  BY DEF Vendor!Search
<1> QED
  BY <1>1, <1>2, KnownUntouched, AccountUntouched, QuietUntouched DEF ScoreInv, Vendor!Busy

LEMMA RefreshingIs ==
  ASSUME NEW scope, VendorInv(scope), NEW s \in scope.slots, NEW vs \in SUBSET scope.ids,
         managing'[s] = Vendor(scope)!Refreshing(s, vs)
  PROVE  managing'[s].step = "refresh" /\ managing'[s].refresh = vs
BY VendorRefreshes

LEMMA ScoreOffboard ==
  ASSUME NEW scope, ScoreInv(scope), NEW s \in scope.slots, Vendor(scope)!Offboard(s)
  PROVE  ScoreInv(scope)'
<1> DEFINE v == managing[s].v
<1>1. VendorInv(scope)' /\ SlotStep(scope, s)
  BY VendorOffboard DEF ScoreInv
<1>2. /\ managing[s].op = "offboard" /\ managing[s].step = "commit"
      /\ UNCHANGED <<critical, profile, review, active, expiring, score, overlapped>>
  BY DEF Vendor!Offboard, Vendor!At
<1>3. managing[s].refresh \in SUBSET scope.ids
  BY DEF ScoreInv, VendorInv, VendorType, VendorRequest
<1>4. CASE v \notin live
  <2>1. UNCHANGED <<live, edges, overlooked>> /\ Vendor(scope)!Give(s, Vendor(scope)!Idle)
    BY <1>4 DEF Vendor!Offboard
  <2>2. managing'[s].op = "idle" /\ managing'[s].step = "idle"
    BY <2>1, VendorGive, VendorIdle DEF ScoreInv
  <2> QED
    BY <1>1, <1>2, <2>1, <2>2, KnownUntouched, AccountUntouched, QuietUntouched DEF ScoreInv, Vendor!Busy
<1>5. CASE v \in live
  <2>1. /\ live' = live \ {v} /\ managing'[s] = Vendor(scope)!Refreshing(s, managing[s].refresh)
        /\ \A e \in edges' : e.live => e \in edges /\ e.parent # v /\ e.child # v
        /\ \A e \in edges : e.parent # v /\ e.child # v => e \in edges'
        /\ \A e \in edges' : \E f \in edges : f.parent = e.parent /\ f.child = e.child
        /\ overlooked' = overlooked \cup (Vendor(scope)!Parents(v) \ managing[s].refresh)
    <3>1. live' # live
      BY <1>5 DEF Vendor!Offboard
    <3> QED
      BY <3>1, VendorOffboard DEF ScoreInv
  <2>2. managing'[s].step = "refresh" /\ managing'[s].refresh = managing[s].refresh
    BY <1>3, <2>1, RefreshingIs DEF ScoreInv
  <2>3. Known(scope)'
    BY <1>1, <1>2, <2>1, <2>2, KnownMoves DEF ScoreInv
  <2>4. ASSUME NEW w \in live' \ overlooked', w \notin managing[s].refresh
        PROVE  /\ w \in live \ overlooked /\ Vendor(scope)!Facts(w)' = Vendor(scope)!Facts(w)
               /\ ~Promises(scope, s, w)
    <3>1. w \in live \ overlooked /\ w # v /\ ~Promises(scope, s, w)
      BY <1>2, <2>1, <2>4 DEF Promises
    <3>2. \A e \in edges : e.live /\ e.parent = w => e.child # v
      BY <2>1, <2>4 DEF Vendor!Parents, Vendor!Live
    <3>3. Vendor(scope)!Facts(w)' = Vendor(scope)!Facts(w)
      BY <1>2, <2>1, <3>1, <3>2, FactsKept
    <3> QED
      BY <3>1, <3>3
  <2>5. \A w \in managing[s].refresh : Promises(scope, s, w)'
    BY <2>2 DEF Promises
  <2>6. Account(scope)'
    BY <1>1, <1>2, <2>2, <2>4, <2>5, AccountMoves DEF ScoreInv
  <2>7. QuietInv(scope)'
    BY <1>1, <1>2, <2>2, QuietUntouched DEF ScoreInv, Vendor!Busy
  <2> QED
    BY <1>1, <2>3, <2>6, <2>7 DEF ScoreInv
<1> QED
  BY <1>4, <1>5

\* Requests that change the facts of their own vendor, and turn to its score.
LEMMA AccountOfOne ==
  ASSUME NEW scope, Account(scope), NEW s \in scope.slots, SlotStep(scope, s), NEW v,
         managing[s].step \in {"check", "commit"},
         managing'[s].step = "refresh", managing'[s].refresh = {v},
         UNCHANGED <<live, critical, score, overlooked>>,
         \A w \in live \ {v} : Vendor(scope)!Facts(w)' = Vendor(scope)!Facts(w)
  PROVE  Account(scope)'
<1>1. Promises(scope, s, v)' /\ \A w : ~Promises(scope, s, w)
  BY DEF Promises
<1> QED
  BY <1>1, AccountMoves

LEMMA ScoreSign ==
  ASSUME NEW scope, RegistryScope(scope), ScoreInv(scope), NEW s \in scope.slots,
         Vendor(scope)!CreateAgreement(s)
  PROVE  ScoreInv(scope)'
<1> DEFINE v == managing[s].v
<1>1. /\ VendorInv(scope)' /\ SlotStep(scope, s)
      /\ managing'[s].step = "refresh" /\ managing'[s].refresh = {v} /\ v \in scope.ids
      /\ \A w \in scope.ids \ {v} : active'[w] = active[w]
      /\ \E a : active'[v] = (active[v] \ managing[s].seen) \cup {a}
  BY VendorSign DEF ScoreInv
<1>2. /\ managing[s].op = "sign" /\ managing[s].step = "commit"
      /\ UNCHANGED <<live, critical, profile, review, edges, score, overlapped, overlooked>>
      /\ expiring' \in {expiring \cup {v}, expiring \ {v}}
  BY DEF Vendor!CreateAgreement, Vendor!At
<1>3. Known(scope)'
  BY <1>1, <1>2, KnownUntouched DEF ScoreInv
<1>4. ASSUME NEW w \in live \ {v} PROVE Vendor(scope)!Facts(w)' = Vendor(scope)!Facts(w)
  <2>1. w \in scope.ids
    BY DEF ScoreInv, VendorInv, VendorType, VendorRows
  <2>2. active'[w] = active[w] /\ (w \in expiring' <=> w \in expiring)
    BY <1>1, <1>2, <1>4, <2>1
  <2> QED
    BY <1>2, <2>2, FactsKept
<1>5. Account(scope)'
  BY <1>1, <1>2, <1>4, AccountOfOne DEF ScoreInv
<1>6. ASSUME Quiet(scope), NEW w \in scope.ids PROVE \A a, b \in active'[w] : a = b
  <2>1. CASE w = v
    <3>1. active[v] \ managing[s].seen = {}
      BY <1>2, <1>6 DEF Quiet
    <3> QED
      BY <1>1, <2>1, <3>1
  <2>2. CASE w # v
    BY <1>1, <1>6, <2>2 DEF Quiet
  <2> QED
    BY <2>1, <2>2
<1>7. QuietInv(scope)'
  BY <1>1, <1>2, <1>6, QuietMoves DEF ScoreInv, Vendor!Busy
<1> QED
  BY <1>1, <1>3, <1>5, <1>7 DEF ScoreInv

LEMMA ScoreReview ==
  ASSUME NEW scope, ScoreInv(scope), NEW s \in scope.slots, Vendor(scope)!CreateReview(s)
  PROVE  ScoreInv(scope)'
<1> DEFINE v == managing[s].v
<1>1. /\ VendorInv(scope)' /\ SlotStep(scope, s) /\ {v} \in SUBSET scope.ids
      /\ managing'[s] = Vendor(scope)!Refreshing(s, {v})
  BY VendorReview DEF ScoreInv
<1>2. managing'[s].step = "refresh" /\ managing'[s].refresh = {v}
  BY <1>1, RefreshingIs DEF ScoreInv
<1>3. /\ managing[s].op = "review" /\ managing[s].step = "check"
      /\ UNCHANGED <<live, critical, profile, active, expiring, edges, score, overlapped, overlooked>>
      /\ \E r \in ReviewOutcomes : review' = [review EXCEPT ![v] = r]
  BY DEF Vendor!CreateReview, Vendor!At
<1>4. Known(scope)'
  BY <1>1, <1>2, <1>3, KnownUntouched DEF ScoreInv
<1>5. ASSUME NEW w \in live \ {v} PROVE Vendor(scope)!Facts(w)' = Vendor(scope)!Facts(w)
  <2>1. review'[w] = review[w]
    BY <1>3, <1>5 DEF ScoreInv, VendorInv, VendorType, VendorRows
  <2> QED
    BY <1>3, <2>1, FactsKept
<1>6. Account(scope)'
  BY <1>1, <1>2, <1>3, <1>5, AccountOfOne DEF ScoreInv
<1>7. QuietInv(scope)'
  BY <1>1, <1>2, <1>3, QuietUntouched DEF ScoreInv, Vendor!Busy
<1> QED
  BY <1>1, <1>4, <1>6, <1>7 DEF ScoreInv

LEMMA ScoreRelate ==
  ASSUME NEW scope, ScoreInv(scope), NEW s \in scope.slots, Vendor(scope)!AddRelationship(s)
  PROVE  ScoreInv(scope)'
<1> DEFINE v == managing[s].v
           edge == [parent |-> v, child |-> managing[s].c, acked |-> FALSE, live |-> TRUE,
                    alone |-> managing[s].alone]
<1>1. /\ VendorInv(scope)' /\ SlotStep(scope, s) /\ managing[s].op = "relate" /\ managing[s].step = "commit"
      /\ v \in scope.ids /\ managing[s].c \in scope.ids
      /\ \/ managing'[s].op = "idle" /\ managing'[s].step = "idle" /\ UNCHANGED edges
         \/ /\ managing'[s].op = "relate" /\ managing'[s].step = "refresh" /\ managing'[s].refresh = {v}
            /\ edges' = edges \cup {edge}
  BY VendorRelate, VendorIdle DEF ScoreInv
<1>2. UNCHANGED <<live, critical, profile, review, active, expiring, score, overlapped, overlooked>>
  BY DEF Vendor!AddRelationship
<1>3. QuietInv(scope)'
  BY <1>1, <1>2, QuietUntouched DEF ScoreInv, Vendor!Busy
<1>4. CASE managing'[s].op = "idle" /\ managing'[s].step = "idle" /\ UNCHANGED edges
  BY <1>1, <1>2, <1>3, <1>4, KnownUntouched, AccountUntouched DEF ScoreInv
<1>5. CASE managing'[s].step = "refresh" /\ managing'[s].refresh = {v} /\ edges' = edges \cup {edge}
  <2>1. edge.parent = v /\ edge.child = managing[s].c
    OBVIOUS
  <2> HIDE DEF edge
  <2>2. profile[v] # None /\ profile[managing[s].c] # None
    BY <1>1 DEF ScoreInv, Known
  <2>3. Known(scope)'
    BY <1>1, <1>2, <1>5, <2>1, <2>2, KnownMoves DEF ScoreInv
  <2>4. ASSUME NEW w \in live \ {v} PROVE Vendor(scope)!Facts(w)' = Vendor(scope)!Facts(w)
    BY <1>2, <1>5, <2>1, <2>4, FactsKept
  <2>5. Account(scope)'
    BY <1>1, <1>2, <1>5, <2>4, AccountOfOne DEF ScoreInv
  <2> QED
    BY <1>1, <1>3, <2>3, <2>5 DEF ScoreInv
<1> QED
  BY <1>1, <1>4, <1>5

LEMMA ScoreAcknowledge ==
  ASSUME NEW scope, ScoreInv(scope), NEW s \in scope.slots, Vendor(scope)!AcknowledgeRelationship(s)
  PROVE  ScoreInv(scope)'
<1> DEFINE v == managing[s].v
<1>1. /\ VendorInv(scope)' /\ SlotStep(scope, s) /\ {v} \in SUBSET scope.ids
      /\ managing'[s] = Vendor(scope)!Refreshing(s, {v})
  BY VendorAcknowledge DEF ScoreInv
<1>2. managing'[s].step = "refresh" /\ managing'[s].refresh = {v}
  BY <1>1, RefreshingIs DEF ScoreInv
<1>3. /\ managing[s].op = "acknowledge" /\ managing[s].step = "check"
      /\ UNCHANGED <<live, critical, profile, review, active, expiring, score, overlapped, overlooked>>
  BY DEF Vendor!AcknowledgeRelationship, Vendor!At
<1>4. Known(scope)'
  <2>1. \A f \in edges' : \E e \in edges : e.parent = f.parent /\ e.child = f.child
    BY VendorAcknowledge DEF ScoreInv
  <2> QED
    BY <1>1, <1>2, <1>3, <2>1, KnownMoves DEF ScoreInv
<1>5. ASSUME NEW w \in live \ {v} PROVE Vendor(scope)!Facts(w)' = Vendor(scope)!Facts(w)
  <2>1. /\ \A e \in edges : e.parent # v => e \in edges'
        /\ \A e \in edges' : e.parent # v => e \in edges
    BY VendorAcknowledge DEF ScoreInv
  <2> QED
    BY <1>3, <1>5, <2>1, FactsKept
<1>6. Account(scope)'
  BY <1>1, <1>2, <1>3, <1>5, AccountOfOne DEF ScoreInv
<1>7. QuietInv(scope)'
  BY <1>1, <1>2, <1>3, QuietUntouched DEF ScoreInv, Vendor!Busy
<1> QED
  BY <1>1, <1>4, <1>6, <1>7 DEF ScoreInv

\* A request under way that stores scores is not idle.
LEMMA BusyStoring ==
  ASSUME NEW scope, ScoreInv(scope), NEW s \in scope.slots, managing[s].step \in {"refresh", "facts", "store"}
  PROVE  Vendor(scope)!Busy(s)
BY DEF ScoreInv, VendorInv, RequestFits, Vendor!Busy

LEMMA ScoreReadVersion ==
  ASSUME NEW scope, ScoreInv(scope), NEW s \in scope.slots, Vendor(scope)!ReadVersion(s)
  PROVE  ScoreInv(scope)'
<1>1. /\ VendorInv(scope)' /\ SlotStep(scope, s) /\ managing[s].step = "refresh"
      /\ \/ managing[s].refresh = {} /\ managing'[s].op = "idle" /\ managing'[s].step = "idle"
         \/ \E v \in managing[s].refresh :
              /\ managing'[s].refresh = managing[s].refresh \ {v} /\ managing'[s].v = v
              /\ IF v \in live THEN managing'[s].step = "facts" ELSE managing'[s].step = "refresh"
  BY VendorReadVersion, VendorIdle DEF ScoreInv
<1>2. UNCHANGED <<live, critical, profile, review, active, expiring, edges, score, overlapped, overlooked>>
  BY DEF Vendor!ReadVersion
<1>3. managing'[s].step \in {"idle", "facts", "refresh"}
  BY <1>1
<1>4. Known(scope)'
  BY <1>1, <1>2, <1>3, KnownUntouched DEF ScoreInv
<1>5. \A w : Vendor(scope)!Facts(w)' = Vendor(scope)!Facts(w)
  BY <1>2, FactsUntouched
<1>6. ASSUME NEW w \in live, Promises(scope, s, w) PROVE Promises(scope, s, w)'
  BY <1>1, <1>2, <1>6 DEF Promises
<1>7. Account(scope)'
  BY <1>1, <1>2, <1>3, <1>5, <1>6, AccountMoves DEF ScoreInv
<1>8. QuietInv(scope)'
  BY <1>1, <1>2, <1>3, BusyStoring, QuietUntouched DEF ScoreInv
<1> QED
  BY <1>1, <1>4, <1>7, <1>8 DEF ScoreInv

LEMMA ScoreBuild ==
  ASSUME NEW scope, RegistryScope(scope), ScoreInv(scope), NEW s \in scope.slots,
         Vendor(scope)!BuildScorecard(s)
  PROVE  ScoreInv(scope)'
<1> DEFINE v == managing[s].v
<1>1. /\ VendorInv(scope)' /\ SlotStep(scope, s) /\ managing[s].step = "facts"
      /\ \/ /\ v \notin live /\ managing'[s].op = "idle" /\ managing'[s].step = "idle"
            /\ overlooked' = overlooked \cup managing[s].refresh
         \/ /\ v \in live /\ overlooked' = overlooked \ {v} /\ managing'[s].step = "store"
            /\ managing'[s].v = v /\ managing'[s].refresh = managing[s].refresh
            /\ managing'[s].facts = Vendor(scope)!Facts(v)
  BY VendorBuild, VendorIdle DEF ScoreInv
<1>2. UNCHANGED <<live, critical, profile, review, active, expiring, edges, score, overlapped>>
  BY DEF Vendor!BuildScorecard
<1>3. managing'[s].step \in {"idle", "store"}
  BY <1>1
<1>4. Known(scope)'
  BY <1>1, <1>2, <1>3, KnownUntouched DEF ScoreInv
<1>5. \A w : Vendor(scope)!Facts(w)' = Vendor(scope)!Facts(w)
  BY <1>2, FactsUntouched
<1>6. ASSUME NEW w \in live' \ overlooked'
      PROVE  \/ Promises(scope, s, w)'
             \/ /\ w \in live \ overlooked /\ ~Promises(scope, s, w)
                /\ managing'[s].step = "store" => managing'[s].v # w
  BY <1>1, <1>2, <1>5, <1>6 DEF Promises
<1>7. Account(scope)'
  BY <1>1, <1>2, <1>5, <1>6, AccountMoves DEF ScoreInv
<1>8. QuietInv(scope)'
  BY <1>1, <1>2, <1>3, BusyStoring, QuietUntouched DEF ScoreInv
<1> QED
  BY <1>1, <1>4, <1>7, <1>8 DEF ScoreInv

LEMMA ScoreStore ==
  ASSUME NEW scope, ScoreInv(scope), NEW s \in scope.slots, Vendor(scope)!StoreScores(s)
  PROVE  ScoreInv(scope)'
<1>0. PICK v : v = managing[s].v
  OBVIOUS
<1>1. /\ VendorInv(scope)' /\ SlotStep(scope, s) /\ managing[s].step = "store" /\ v \in scope.ids
      /\ managing'[s].step = "refresh" /\ managing'[s].refresh = managing[s].refresh
      /\ \/ /\ managing[s].fresh /\ score' = [score EXCEPT ![v] = managing[s].facts]
            /\ \A t \in scope.slots \ {s} : managing[t].v = v => ~managing'[t].fresh
            /\ UNCHANGED overlooked
         \/ UNCHANGED score /\ overlooked' = overlooked \cup {v}
  BY <1>0, VendorStore DEF ScoreInv
<1>2. UNCHANGED <<live, critical, profile, review, active, expiring, edges, overlapped>>
  BY DEF Vendor!StoreScores
<1>3. Known(scope)'
  BY <1>1, <1>2, KnownUntouched DEF ScoreInv
<1>4. \A w : Vendor(scope)!Facts(w)' = Vendor(scope)!Facts(w)
  BY <1>2, FactsUntouched
<1>5. ASSUME NEW w \in live' \ overlooked', w # v
      PROVE  \/ Promises(scope, s, w)'
             \/ /\ w \in live \ overlooked /\ ~Promises(scope, s, w) /\ score'[w] = score[w]
  <2>1. w \in scope.ids /\ score'[w] = score[w]
    BY <1>1, <1>2, <1>5 DEF ScoreInv, VendorInv, VendorType, VendorRows
  <2>2. Promises(scope, s, w) => w \in managing[s].refresh \/ w = v
    BY <1>0 DEF Promises
  <2>3. w \in managing[s].refresh => Promises(scope, s, w)'
    BY <1>1 DEF Promises
  <2>4. w \in live \ overlooked
    BY <1>1, <1>2, <1>5
  <2> QED
    BY <1>5, <2>1, <2>2, <2>3, <2>4
<1>6. CASE UNCHANGED score /\ overlooked' = overlooked \cup {v}
  <2>1. Account(scope)'
    BY <1>1, <1>4, <1>5, <1>6, AccountMoves DEF ScoreInv
  <2>2. QuietInv(scope)'
    BY <1>1, <1>2, BusyStoring, QuietUntouched DEF ScoreInv
  <2> QED
    BY <1>1, <1>3, <2>1, <2>2 DEF ScoreInv
<1>7. CASE /\ managing[s].fresh /\ score' = [score EXCEPT ![v] = managing[s].facts]
           /\ \A t \in scope.slots \ {s} : managing[t].v = v => ~managing'[t].fresh
           /\ UNCHANGED overlooked
  <2>1. score'[v] = managing[s].facts
    BY <1>1, <1>7 DEF ScoreInv, VendorInv, VendorType, VendorRows
  <2>2. ASSUME NEW t \in scope.slots
        PROVE  ~(managing'[t].step = "store" /\ managing'[t].v = v /\ managing'[t].fresh)
    BY <1>1, <1>7 DEF SlotStep
  <2>3. ASSUME v \in live \ overlooked
        PROVE  Settled(scope, v)' \/ \E t \in scope.slots : Promises(scope, t, v)'
    <3>1. CASE managing[s].facts = Vendor(scope)!Facts(v)
      BY <1>4, <2>1, <2>2, <3>1 DEF Settled
    <3>2. CASE Settled(scope, v)
      BY <1>0, <1>1, <1>7, <3>1, <3>2 DEF Settled
    <3>3. CASE Promises(scope, s, v)
      <4>1. v \in managing[s].refresh => Promises(scope, s, v)'
        BY <1>1 DEF Promises
      <4>2. v \in managing[s].refresh \/ managing[s].facts = Vendor(scope)!Facts(v)
        BY <1>1, <1>7, <3>3 DEF Promises
      <4> QED
        BY <3>1, <4>1, <4>2
    <3>4. CASE \E t \in scope.slots \ {s} : Promises(scope, t, v)
      BY <1>1, <1>4, <3>4, OthersPromise
    <3> QED
      BY <2>3, <3>2, <3>3, <3>4 DEF ScoreInv, Account
  <2>4. ASSUME NEW w \in live' \ overlooked', w # v
        PROVE  Settled(scope, w)' \/ \E t \in scope.slots : Promises(scope, t, w)'
    <3>1. CASE Promises(scope, s, w)'
      BY <3>1
    <3>2. CASE w \in live \ overlooked /\ ~Promises(scope, s, w) /\ score'[w] = score[w]
      <4>1. CASE \E t \in scope.slots \ {s} : Promises(scope, t, w)
        BY <1>1, <1>4, <4>1, OthersPromise
      <4>2. CASE Settled(scope, w)
        <5>1. ASSUME NEW t \in scope.slots, managing'[t].step = "store", managing'[t].v = w, managing'[t].fresh
              PROVE  managing'[t].facts = Vendor(scope)!Facts(w)
          BY <1>1, <4>2, <5>1 DEF Settled, SlotStep
        <5> QED
          BY <1>4, <3>2, <4>2, <5>1 DEF Settled
      <4> QED
        BY <3>2, <4>1, <4>2 DEF ScoreInv, Account
    <3> QED
      BY <1>5, <2>4, <3>1, <3>2
  <2>5. Account(scope)'
    BY <1>2, <1>7, <2>3, <2>4 DEF Account
  <2>6. QuietInv(scope)'
    BY <1>1, <1>2, BusyStoring, QuietUntouched DEF ScoreInv
  <2> QED
    BY <1>1, <1>3, <2>5, <2>6 DEF ScoreInv
<1> QED
  BY <1>1, <1>6, <1>7

LEMMA ScoreFails ==
  ASSUME NEW scope, ScoreInv(scope), NEW s \in scope.slots, Vendor(scope)!RequestFails(s)
  PROVE  ScoreInv(scope)'
<1>1. /\ VendorInv(scope)' /\ SlotStep(scope, s)
      /\ managing'[s].op = "idle" /\ managing'[s].step = "idle"
  BY VendorFails, VendorIdle DEF ScoreInv
<1>2. /\ UNCHANGED <<live, critical, profile, review, active, expiring, edges, score, overlapped>>
      /\ overlooked' = overlooked \cup Vendor(scope)!ToScore(s) /\ Vendor(scope)!Busy(s)
  BY DEF Vendor!RequestFails
<1>3. Known(scope)'
  BY <1>1, <1>2, KnownUntouched DEF ScoreInv
<1>4. \A w : Vendor(scope)!Facts(w)' = Vendor(scope)!Facts(w)
  BY <1>2, FactsUntouched
<1>5. \A w \in live' \ overlooked' : w \in live \ overlooked /\ ~Promises(scope, s, w)
  BY <1>2, PromisesToScore
<1>6. Account(scope)'
  BY <1>1, <1>2, <1>4, <1>5, AccountMoves DEF ScoreInv
<1>7. QuietInv(scope)'
  BY <1>1, <1>2, QuietUntouched DEF ScoreInv
<1> QED
  BY <1>1, <1>3, <1>6, <1>7 DEF ScoreInv

LEMMA ScoreDatePasses ==
  ASSUME NEW scope, ScoreInv(scope), NEW v \in scope.ids, Vendor(scope)!DatePasses(v)
  PROVE  ScoreInv(scope)'
<1>1. /\ VendorInv(scope)' /\ \A w \in scope.ids : active'[w] \subseteq active[w]
      /\ \A w \in scope.ids \ {v} : active'[w] = active[w] /\ profile'[w] = profile[w]
      /\ profile'[v] \in VendorProfiles \cup {profile[v]}
  BY VendorDatePasses DEF ScoreInv
<1>2. /\ v \in live /\ UNCHANGED <<live, critical, review, edges, score, managing, overlapped>>
      /\ overlooked' = overlooked \cup {v} /\ expiring' \in {expiring, expiring \cup {v}}
  BY DEF Vendor!DatePasses
<1>3. /\ live \subseteq scope.ids /\ \A e \in edges : e.parent \in scope.ids /\ e.child \in scope.ids
      /\ \A s \in scope.slots : managing[s].op # "idle" => managing[s].v \in scope.ids /\ managing[s].c \in scope.ids
  BY DEF ScoreInv, VendorInv, VendorType, VendorRows, Edge, RequestFits
<1>4. \A w \in scope.ids : profile'[w] = None <=> profile[w] = None
  BY <1>1, <1>2, MCComplianceAssumption DEF ScoreInv, Known
<1>5. Known(scope)'
  BY <1>2, <1>3, <1>4 DEF ScoreInv, Known
<1>6. ASSUME NEW w \in live' \ overlooked'
      PROVE  Settled(scope, w)' \/ \E t \in scope.slots : Promises(scope, t, w)'
  <2>1. w \in live \ overlooked /\ w # v /\ w \in scope.ids
    BY <1>2, <1>3, <1>6
  <2>2. Vendor(scope)!Facts(w)' = Vendor(scope)!Facts(w)
    BY <1>1, <1>2, <2>1, FactsKept
  <2>3. Settled(scope, w) => Settled(scope, w)'
    BY <1>2, <2>2 DEF Settled
  <2>4. \A t : Promises(scope, t, w) => Promises(scope, t, w)'
    BY <1>2, <2>2 DEF Promises
  <2> QED
    BY <2>1, <2>3, <2>4 DEF ScoreInv, Account
<1>7. QuietInv(scope)'
  <2> SUFFICES ASSUME Quiet(scope) PROVE Quiet(scope)'
    BY <1>2 DEF ScoreInv, QuietInv
  <2>1. ASSUME NEW s \in scope.slots, managing'[s].op = "sign", managing'[s].step = "commit"
        PROVE  active'[managing'[s].v] \subseteq managing'[s].seen
    BY <1>1, <1>2, <1>3, <2>1 DEF Quiet
  <2>2. \A w \in scope.ids : \A a, b \in active'[w] : a = b
    BY <1>1 DEF Quiet
  <2>3. \A s, t \in scope.slots : Vendor(scope)!Busy(s)' /\ Vendor(scope)!Busy(t)' => s = t
    BY <1>2 DEF Quiet, Vendor!Busy
  <2> QED
    BY <2>1, <2>2, <2>3 DEF Quiet
<1> QED
  BY <1>1, <1>5, <1>6, <1>7 DEF ScoreInv, Account

LEMMA ScoreInit ==
  ASSUME NEW scope, RegistryScope(scope), Vendor(scope)!Init
  PROVE  ScoreInv(scope)
<1>1. VendorInv(scope)
  BY VendorInit
<1>2. /\ live = scope.registered /\ edges = {} /\ active = [v \in scope.ids |-> {}]
      /\ score = [v \in scope.ids |-> IF v \in scope.registered THEN Vendor(scope)!Facts(v) ELSE None]
      /\ profile = [v \in scope.ids |->
                      IF v \in scope.registered THEN CHOOSE p \in VendorProfiles : TRUE ELSE None]
  BY DEF Vendor!Init
<1>3. \A s \in scope.slots : managing[s].op = "idle" /\ managing[s].step = "idle"
  BY VendorIdle DEF Vendor!Init
<1>4. Known(scope)
  <2>1. (CHOOSE p \in VendorProfiles : TRUE) # None
    BY MCComplianceAssumption
  <2> QED
    BY <1>2, <1>3, <2>1 DEF Known, RegistryScope
<1>5. Account(scope)
  BY <1>2, <1>3 DEF Account, Settled, RegistryScope
<1>6. QuietInv(scope)
  BY <1>2, <1>3 DEF QuietInv, Quiet, Vendor!Busy
<1> QED
  BY <1>1, <1>4, <1>5, <1>6 DEF ScoreInv

LEMMA ScoreNext ==
  ASSUME NEW scope, RegistryScope(scope), ScoreInv(scope), Vendor(scope)!Next
  PROVE  ScoreInv(scope)'
<1>1. CASE \E s \in scope.slots : \E op \in scope.ops : \E v, c \in scope.ids :
              Vendor(scope)!Receive(s, op, v, c)
  BY <1>1, ScoreReceive
<1>2. CASE \E s \in scope.slots : Vendor(scope)!Commit(s)
  BY <1>2, ScoreCreate, ScoreUpdate, ScoreReadParents, ScoreOffboard, ScoreSupersede, ScoreSign,
     ScoreReview, ScoreSearch, ScoreRelate, ScoreAcknowledge DEF Vendor!Commit
<1>3. CASE \E s \in scope.slots :
              \/ Vendor(scope)!ReadVersion(s) \/ Vendor(scope)!BuildScorecard(s)
              \/ Vendor(scope)!StoreScores(s) \/ Vendor(scope)!RequestFails(s)
  BY <1>3, ScoreReadVersion, ScoreBuild, ScoreStore, ScoreFails
<1>4. CASE \E v \in scope.ids : Vendor(scope)!DatePasses(v)
  BY <1>4, ScoreDatePasses
<1> QED
  BY <1>1, <1>2, <1>3, <1>4 DEF Vendor!Next

LEMMA ScoreStutters ==
  ASSUME NEW scope, ScoreInv(scope), UNCHANGED vendorVars
  PROVE  ScoreInv(scope)'
<1>1. UNCHANGED <<live, critical, profile, review, active, expiring, edges, score, managing, overlapped,
                 overlooked>>
  BY DEF vendorVars
<1>2. VendorInv(scope)'
  BY VendorStutters DEF ScoreInv
<1>3. Known(scope)'
  BY <1>1 DEF ScoreInv, Known
<1>4. \A v : Vendor(scope)!Facts(v)' = Vendor(scope)!Facts(v)
  BY <1>1, FactsUntouched
<1>5. Account(scope)'
  BY <1>1, <1>4 DEF ScoreInv, Account, Settled, Promises
<1>6. QuietInv(scope)'
  BY <1>1 DEF ScoreInv, QuietInv, Quiet, Vendor!Busy
<1> QED
  BY <1>2, <1>3, <1>5, <1>6 DEF ScoreInv

\* A score nobody is going to store is settled; and agreements that are not
\* signed in a race supersede each other.
LEMMA ScoresOf ==
  ASSUME NEW scope, RegistryScope(scope), ScoreInv(scope)
  PROVE  Vendor(scope)!ScoresAreCurrent /\ Vendor(scope)!OneAgreementInForce
<1>1. Vendor(scope)!ScoresAreCurrent
  <2> SUFFICES ASSUME NEW v \in live \ overlooked,
                      \A s \in scope.slots : v \notin Vendor(scope)!ToScore(s)
               PROVE  score[v] = Vendor(scope)!Facts(v)
    BY DEF Vendor!ScoresAreCurrent
  <2> QED
    BY PromisesToScore DEF ScoreInv, Account, Settled
<1>2. ASSUME ~overlapped, NEW v \in scope.ids PROVE Vendor(scope)!Cardinality(active[v]) <= 1
  <2>1. \A a, b \in active[v] : a = b
    BY <1>2 DEF ScoreInv, QuietInv, Quiet
  <2>2. Cardinality(active[v]) <= 1
    <3>1. CASE active[v] = {}
      BY <3>1, FS_EmptySet
    <3>2. CASE active[v] # {}
      <4>1. PICK a \in active[v] : TRUE
        BY <3>2
      <4>2. active[v] = {a}
        BY <2>1, <4>1
      <4>3. Cardinality({a}) = 1
        BY FS_Singleton
      <4> QED
        BY <4>2, <4>3
    <3> QED
      BY <3>1, <3>2
  <2> QED
    BY <2>2, VendorCounts
<1> QED
  BY <1>1, <1>2 DEF Vendor!OneAgreementInForce

---------------------------------------------------------------------------
(* The supply-chain graph: while a request has met no other, its search      *)
(* misses no relationship; once it has, none that was added alone, for none  *)
(* is added alone before both have ended.                                    *)

Alone(scope) == {e \in Vendor(scope)!Live : e.alone}

Searching(s) == managing[s].op = "relate" /\ managing[s].step \in {"check", "commit"}

\* What a search has found: the vendors below the child, or what is left to visit.
SearchFits(scope, s) ==
  Searching(s) =>
    /\ managing[s].v \notin managing[s].seen
    /\ managing[s].c \in managing[s].seen \cup managing[s].todo
    /\ managing[s].step = "commit" => managing[s].todo = {}
    /\ \A e \in Vendor(scope)!Live : (e.alone \/ managing[s].alone) /\ e.parent \in managing[s].seen =>
         e.child \in managing[s].seen \cup managing[s].todo

GraphInv(scope) ==
  /\ VendorInv(scope)
  /\ \A s, t \in scope.slots :
       Searching(s) /\ managing[s].alone /\ Vendor(scope)!Busy(t) => s = t
  /\ \A s \in scope.slots : SearchFits(scope, s)
  /\ Vendor(scope)!CyclesNeedTwoRacingEdges

VendorsAtWork ==
  /\ component = "graph" => GraphInv(Scope.graph)
  /\ component = "serial" => ScoreInv(Scope.serial)
  /\ component = "ending" => ScoreInv(Scope.ending)
  /\ component \notin {"graph", "serial", "ending"} => ScoreInv(Scope.signing)

LEMMA AcyclicEdge ==
  ASSUME NEW scope, NEW E
  PROVE  Vendor(scope)!Acyclic(E) <=>
           \A e \in E : \E R \in SUBSET scope.ids :
             /\ e.child \in R /\ e.parent \notin R
             /\ \A f \in E : f.parent \in R => f.child \in R
BY DEF Vendor!Acyclic, Vendor!Reaches

\* An edge into a set that no edge leaves closes no cycle.
LEMMA AddEdge ==
  ASSUME NEW scope, NEW E, Vendor(scope)!Acyclic(E), NEW e, NEW W \in SUBSET scope.ids,
         e.child \in W, e.parent \notin W, \A f \in E : f.parent \in W => f.child \in W
  PROVE  Vendor(scope)!Acyclic(E \cup {e})
<1> SUFFICES ASSUME NEW y \in E \cup {e}
             PROVE  \E R \in SUBSET scope.ids :
                      /\ y.child \in R /\ y.parent \notin R
                      /\ \A f \in E \cup {e} : f.parent \in R => f.child \in R
  BY AcyclicEdge
<1>1. CASE y = e
  BY <1>1
<1>2. CASE y \in E
  <2>1. PICK R \in SUBSET scope.ids :
          /\ y.child \in R /\ y.parent \notin R
          /\ \A f \in E : f.parent \in R => f.child \in R
    BY <1>2, AcyclicEdge
  <2>2. CASE e.parent \notin R
    BY <2>1, <2>2
  <2>3. CASE y.parent \notin W
    <3> DEFINE Q == R \cup W
    <3>1. Q \in SUBSET scope.ids /\ y.child \in Q /\ y.parent \notin Q
      BY <2>1, <2>3
    <3>2. \A f \in E \cup {e} : f.parent \in Q => f.child \in Q
      BY <2>1
    <3> QED
      BY <3>1, <3>2
  <2>4. CASE y.parent \in W
    <3> DEFINE Q == R \cap W
    <3>1. Q \in SUBSET scope.ids /\ y.child \in Q /\ y.parent \notin Q
      BY <1>2, <2>1, <2>4
    <3>2. \A f \in E \cup {e} : f.parent \in Q => f.child \in Q
      BY <2>1
    <3> QED
      BY <3>1, <3>2
  <2> QED
    BY <2>2, <2>3, <2>4
<1> QED
  BY <1>1, <1>2

LEMMA FewerEdges ==
  ASSUME NEW scope, NEW E, Vendor(scope)!Acyclic(E), NEW F,
         \A f \in F : \E e \in E : e.parent = f.parent /\ e.child = f.child
  PROVE  Vendor(scope)!Acyclic(F)
<1> SUFFICES ASSUME NEW f \in F
             PROVE  \E R \in SUBSET scope.ids :
                      /\ f.child \in R /\ f.parent \notin R
                      /\ \A g \in F : g.parent \in R => g.child \in R
  BY AcyclicEdge
<1>1. PICK e \in E : e.parent = f.parent /\ e.child = f.child
  OBVIOUS
<1>2. PICK R \in SUBSET scope.ids :
        /\ e.child \in R /\ e.parent \notin R
        /\ \A g \in E : g.parent \in R => g.child \in R
  BY AcyclicEdge
<1> QED
  BY <1>1, <1>2

\* A step that ends a search, or never searched, and adds no relationship.
LEMMA GraphMoves ==
  ASSUME NEW scope, GraphInv(scope), VendorInv(scope)', NEW s \in scope.slots, SlotStep(scope, s),
         Vendor(scope)!Busy(s), ~Searching(s)',
         \A f \in edges' : f.live =>
           \E e \in edges : e.live /\ e.parent = f.parent /\ e.child = f.child /\ e.alone = f.alone
  PROVE  GraphInv(scope)'
<1>1. ASSUME NEW t \in scope.slots \ {s}
      PROVE  /\ Searching(t)' <=> Searching(t)
             /\ Vendor(scope)!Busy(t)' <=> Vendor(scope)!Busy(t)
             /\ managing'[t].alone => managing[t].alone
             /\ SearchFits(scope, t)'
  <2>1. /\ managing'[t].op = managing[t].op /\ managing'[t].step = managing[t].step
        /\ managing'[t].v = managing[t].v /\ managing'[t].c = managing[t].c
        /\ managing'[t].todo = managing[t].todo /\ managing'[t].seen = managing[t].seen
        /\ managing'[t].alone => managing[t].alone
    BY DEF SlotStep
  <2>2. (Searching(t)' <=> Searching(t)) /\ (Vendor(scope)!Busy(t)' <=> Vendor(scope)!Busy(t))
    BY <2>1 DEF Searching, Vendor!Busy
  <2>3. SearchFits(scope, t)
    BY DEF GraphInv
  <2>4. SearchFits(scope, t)'
    BY <2>1, <2>2, <2>3 DEF SearchFits, Vendor!Live
  <2> QED
    BY <2>1, <2>2, <2>4
<1>2. \A t, u \in scope.slots :
        Searching(t)' /\ managing'[t].alone /\ Vendor(scope)!Busy(u)' => t = u
  BY <1>1 DEF GraphInv
<1>3. \A t \in scope.slots : SearchFits(scope, t)'
  BY <1>1 DEF SearchFits
<1>4. Vendor(scope)!CyclesNeedTwoRacingEdges'
  <2> DEFINE L == {e \in edges : e.live}
             M == {e \in edges' : e.live}
             A == {e \in L : e.alone}
             B == {e \in M : e.alone}
  <2>1. Vendor(scope)!Acyclic(A) /\ \A e \in L : Vendor(scope)!Acyclic(A \cup {e})
    BY DEF GraphInv, Vendor!CyclesNeedTwoRacingEdges, Vendor!Live
  <2>2. Vendor(scope)!Acyclic(B)
    <3>1. \A f \in B : \E e \in A : e.parent = f.parent /\ e.child = f.child
      OBVIOUS
    <3> HIDE DEF A, B
    <3> QED
      BY <2>1, <3>1, FewerEdges
  <2>3. ASSUME NEW f \in M PROVE Vendor(scope)!Acyclic(B \cup {f})
    <3>1. PICK e \in L : e.parent = f.parent /\ e.child = f.child
      OBVIOUS
    <3>2. \A g \in B \cup {f} : \E h \in A \cup {e} : h.parent = g.parent /\ h.child = g.child
      BY <3>1
    <3>3. Vendor(scope)!Acyclic(A \cup {e})
      BY <2>1
    <3> HIDE DEF A, B
    <3> QED
      BY <3>2, <3>3, FewerEdges
  <2> QED
    BY <2>2, <2>3 DEF Vendor!CyclesNeedTwoRacingEdges, Vendor!Live, Vendor!Acyclic, Vendor!Reaches
<1> QED
  BY <1>2, <1>3, <1>4 DEF GraphInv

\* Steps of a search, and requests received, that leave the relationships alone.
LEMMA GraphStays ==
  ASSUME NEW scope, GraphInv(scope), UNCHANGED edges
  PROVE  Vendor(scope)!CyclesNeedTwoRacingEdges'
BY DEF GraphInv, Vendor!CyclesNeedTwoRacingEdges, Vendor!Live, Vendor!Acyclic, Vendor!Reaches

LEMMA GraphUntouched ==
  ASSUME NEW scope, GraphInv(scope), VendorInv(scope)', UNCHANGED <<edges, managing>>
  PROVE  GraphInv(scope)'
<1>1. Vendor(scope)!CyclesNeedTwoRacingEdges'
  BY GraphStays
<1>2. \A s \in scope.slots : SearchFits(scope, s)'
  BY DEF GraphInv, SearchFits, Searching, Vendor!Live
<1>3. \A s, t \in scope.slots :
        Searching(s)' /\ managing'[s].alone /\ Vendor(scope)!Busy(t)' => s = t
  BY DEF GraphInv, Searching, Vendor!Busy
<1> QED
  BY <1>1, <1>2, <1>3 DEF GraphInv

LEMMA GraphReceive ==
  ASSUME NEW scope, RegistryScope(scope), GraphInv(scope), NEW s \in scope.slots,
         NEW op \in scope.ops, NEW v \in scope.ids, NEW c \in scope.ids, Vendor(scope)!Receive(s, op, v, c)
  PROVE  GraphInv(scope)'
<1>1. /\ VendorInv(scope)' /\ SlotStep(scope, s)
      /\ managing'[s].op = op /\ managing'[s].step = "check" /\ managing'[s].v = v /\ managing'[s].c = c
      /\ managing'[s].todo = {c} /\ managing'[s].seen = {}
      /\ managing'[s].alone <=> (\A t \in scope.slots : ~Vendor(scope)!Busy(t))
      /\ \A t \in scope.slots \ {s} : managing'[t].alone => ~Vendor(scope)!Busy(t)
  BY VendorReceive DEF GraphInv
<1>2. UNCHANGED edges
  BY DEF Vendor!Receive
<1>3. ASSUME NEW t \in scope.slots \ {s}
      PROVE  /\ Searching(t)' <=> Searching(t)
             /\ Vendor(scope)!Busy(t)' <=> Vendor(scope)!Busy(t)
             /\ Searching(t)' => ~managing'[t].alone
             /\ SearchFits(scope, t)'
  <2>1. /\ managing'[t].op = managing[t].op /\ managing'[t].step = managing[t].step
        /\ managing'[t].v = managing[t].v /\ managing'[t].c = managing[t].c
        /\ managing'[t].todo = managing[t].todo /\ managing'[t].seen = managing[t].seen
    BY <1>1 DEF SlotStep
  <2>2. (Searching(t)' <=> Searching(t)) /\ (Vendor(scope)!Busy(t)' <=> Vendor(scope)!Busy(t))
    BY <2>1 DEF Searching, Vendor!Busy
  <2>3. Searching(t)' => ~managing'[t].alone
    BY <1>1, <2>2 DEF Searching, Vendor!Busy
  <2>4. SearchFits(scope, t)
    BY DEF GraphInv
  <2>5. SearchFits(scope, t)'
    BY <1>2, <2>1, <2>2, <2>3, <2>4 DEF SearchFits, Vendor!Live
  <2> QED
    BY <2>2, <2>3, <2>5
<1>4. SearchFits(scope, s)'
  BY <1>1 DEF SearchFits
<1>5. \A t, u \in scope.slots :
        Searching(t)' /\ managing'[t].alone /\ Vendor(scope)!Busy(u)' => t = u
  <2> SUFFICES ASSUME NEW t \in scope.slots, NEW u \in scope.slots, Searching(t)', managing'[t].alone,
                      Vendor(scope)!Busy(u)', t # u
               PROVE  FALSE
    OBVIOUS
  <2>1. t = s
    BY <1>3
  <2>2. Vendor(scope)!Busy(u)
    BY <1>3, <2>1
  <2> QED
    BY <1>1, <2>1, <2>2
<1> QED
  BY <1>1, <1>2, <1>3, <1>4, <1>5, GraphStays DEF GraphInv

LEMMA GraphSearch ==
  ASSUME NEW scope, GraphInv(scope), NEW s \in scope.slots, Vendor(scope)!Search(s)
  PROVE  GraphInv(scope)'
<1>1. /\ VendorInv(scope)' /\ SlotStep(scope, s) /\ managing[s].op = "relate" /\ managing[s].step = "check"
      /\ \/ managing'[s] = Vendor(scope)!Idle
         \/ \E x \in managing[s].todo :
              LET todo == (managing[s].todo \ {x}) \cup (Vendor(scope)!Children(x) \ managing[s].seen)
              IN  /\ x # managing[s].v
                  /\ managing'[s].seen = managing[s].seen \cup {x} /\ managing'[s].todo = todo
                  /\ managing'[s].step = IF todo = {} THEN "commit" ELSE "check"
                  /\ managing'[s].op = "relate" /\ managing'[s].v = managing[s].v
                  /\ managing'[s].c = managing[s].c /\ managing'[s].alone = managing[s].alone
  BY VendorSearch DEF GraphInv
<1>2. UNCHANGED edges
  BY DEF Vendor!Search
<1>3. Vendor(scope)!Busy(s) /\ Searching(s)
  BY <1>1 DEF Vendor!Busy, Searching
<1>4. CASE managing'[s] = Vendor(scope)!Idle
  <2>1. ~Searching(s)'
    BY <1>4, VendorIdle DEF Searching
  <2> QED
    BY <1>1, <1>2, <1>3, <2>1, GraphMoves
<1>5. CASE managing'[s] # Vendor(scope)!Idle
  <2> DEFINE todo(x) == (managing[s].todo \ {x}) \cup (Vendor(scope)!Children(x) \ managing[s].seen)
  <2>1. PICK x \in managing[s].todo :
          /\ x # managing[s].v
          /\ managing'[s].seen = managing[s].seen \cup {x} /\ managing'[s].todo = todo(x)
          /\ managing'[s].step = IF todo(x) = {} THEN "commit" ELSE "check"
          /\ managing'[s].op = "relate" /\ managing'[s].v = managing[s].v
          /\ managing'[s].c = managing[s].c /\ managing'[s].alone = managing[s].alone
    BY <1>1, <1>5
  <2>2. /\ managing[s].v \notin managing[s].seen
        /\ managing[s].c \in managing[s].seen \cup managing[s].todo
        /\ \A e \in Vendor(scope)!Live : (e.alone \/ managing[s].alone) /\ e.parent \in managing[s].seen =>
             e.child \in managing[s].seen \cup managing[s].todo
    BY <1>3 DEF GraphInv, SearchFits
  <2>3. \A e \in Vendor(scope)!Live : e.parent = x => e.child \in Vendor(scope)!Children(x)
    BY DEF Vendor!Children
  <2>4. \A e \in Vendor(scope)!Live : (e.alone \/ managing'[s].alone) /\ e.parent \in managing'[s].seen =>
          e.child \in managing'[s].seen \cup managing'[s].todo
    BY <2>1, <2>2, <2>3
  <2>5. SearchFits(scope, s)'
    <3>1. Vendor(scope)!Live' = Vendor(scope)!Live
      BY <1>2 DEF Vendor!Live
    <3>2. managing'[s].v \notin managing'[s].seen
      BY <2>1, <2>2
    <3>3. managing'[s].c \in managing'[s].seen \cup managing'[s].todo
      BY <2>1, <2>2
    <3>4. managing'[s].step = "commit" => managing'[s].todo = {}
      BY <2>1
    <3> QED
      BY <2>4, <3>1, <3>2, <3>3, <3>4 DEF SearchFits
  <2>6. ASSUME NEW t \in scope.slots \ {s}
        PROVE  /\ Searching(t)' <=> Searching(t)
               /\ Vendor(scope)!Busy(t)' <=> Vendor(scope)!Busy(t)
               /\ managing'[t].alone => managing[t].alone
               /\ SearchFits(scope, t)'
    <3>1. /\ managing'[t].op = managing[t].op /\ managing'[t].step = managing[t].step
          /\ managing'[t].v = managing[t].v /\ managing'[t].c = managing[t].c
          /\ managing'[t].todo = managing[t].todo /\ managing'[t].seen = managing[t].seen
          /\ managing'[t].alone => managing[t].alone
      BY <1>1 DEF SlotStep
    <3>2. (Searching(t)' <=> Searching(t)) /\ (Vendor(scope)!Busy(t)' <=> Vendor(scope)!Busy(t))
      BY <3>1 DEF Searching, Vendor!Busy
    <3>3. SearchFits(scope, t)
      BY DEF GraphInv
    <3>4. SearchFits(scope, t)'
      BY <1>2, <3>1, <3>2, <3>3 DEF SearchFits, Vendor!Live
    <3> QED
      BY <3>1, <3>2, <3>4
  <2>7. \A t, u \in scope.slots :
          Searching(t)' /\ managing'[t].alone /\ Vendor(scope)!Busy(u)' => t = u
    BY <1>3, <2>1, <2>6 DEF GraphInv
  <2> QED
    BY <1>1, <1>2, <2>5, <2>6, <2>7, GraphStays DEF GraphInv
<1> QED
  BY <1>4, <1>5

LEMMA GraphRelate ==
  ASSUME NEW scope, GraphInv(scope), NEW s \in scope.slots, Vendor(scope)!AddRelationship(s)
  PROVE  GraphInv(scope)'
<1> DEFINE v == managing[s].v
           edge == [parent |-> v, child |-> managing[s].c, acked |-> FALSE, live |-> TRUE,
                    alone |-> managing[s].alone]
<1>1. /\ VendorInv(scope)' /\ SlotStep(scope, s)
      /\ managing[s].op = "relate" /\ managing[s].step = "commit"
      /\ \/ managing'[s] = Vendor(scope)!Idle /\ UNCHANGED edges
         \/ /\ managing'[s].op = "relate" /\ managing'[s].step = "refresh"
            /\ edges' = edges \cup {edge}
  BY VendorRelate DEF GraphInv
<1>2. Vendor(scope)!Busy(s) /\ Searching(s) /\ ~Searching(s)'
  BY <1>1, VendorIdle DEF Vendor!Busy, Searching
<1>3. CASE UNCHANGED edges
  BY <1>1, <1>2, <1>3, GraphMoves
<1>4. CASE edges' = edges \cup {edge}
  <2>1. /\ edge.parent = v /\ edge.child = managing[s].c /\ edge.live
        /\ edge.alone = managing[s].alone
    OBVIOUS
  <2> HIDE DEF edge
  <2>2. /\ v \notin managing[s].seen /\ managing[s].c \in managing[s].seen
        /\ \A e \in edges : e.live /\ (e.alone \/ managing[s].alone) /\ e.parent \in managing[s].seen =>
             e.child \in managing[s].seen
    BY <1>1, <1>2 DEF GraphInv, SearchFits, Vendor!Live
  <2>3. managing[s].seen \in SUBSET scope.ids /\ managing[s].alone \in BOOLEAN
    BY <1>1 DEF GraphInv, VendorInv, VendorType, VendorRequest, RequestFits
  <2>4. ASSUME NEW t \in scope.slots \ {s}
        PROVE  /\ Searching(t)' <=> Searching(t)
               /\ Vendor(scope)!Busy(t)' <=> Vendor(scope)!Busy(t)
               /\ managing'[t].alone => managing[t].alone
               /\ SearchFits(scope, t)'
    <3>1. /\ managing'[t].op = managing[t].op /\ managing'[t].step = managing[t].step
          /\ managing'[t].v = managing[t].v /\ managing'[t].c = managing[t].c
          /\ managing'[t].todo = managing[t].todo /\ managing'[t].seen = managing[t].seen
          /\ managing'[t].alone => managing[t].alone
      BY <1>1 DEF SlotStep
    <3>2. (Searching(t)' <=> Searching(t)) /\ (Vendor(scope)!Busy(t)' <=> Vendor(scope)!Busy(t))
      BY <3>1 DEF Searching, Vendor!Busy
    <3>3. SearchFits(scope, t)
      BY DEF GraphInv
    <3>4. Searching(t) => ~managing[t].alone /\ ~managing[s].alone
      BY <1>2 DEF GraphInv, Searching, Vendor!Busy
    <3>5. SearchFits(scope, t)'
      BY <1>4, <2>1, <3>1, <3>2, <3>3, <3>4 DEF SearchFits, Vendor!Live
    <3> QED
      BY <3>1, <3>2, <3>5
  <2>5. \A t, u \in scope.slots :
          Searching(t)' /\ managing'[t].alone /\ Vendor(scope)!Busy(u)' => t = u
    BY <1>2, <2>4 DEF GraphInv
  <2>6. SearchFits(scope, s)'
    BY <1>2 DEF SearchFits
  <2> DEFINE L == {e \in edges : e.live}
             M == {e \in edges' : e.live}
             A == {e \in L : e.alone}
             B == {e \in M : e.alone}
  <2>7. Vendor(scope)!Acyclic(A) /\ \A e \in L : Vendor(scope)!Acyclic(A \cup {e})
    BY DEF GraphInv, Vendor!CyclesNeedTwoRacingEdges, Vendor!Live
  <2>8. M = L \cup {edge} /\ B = IF managing[s].alone THEN A \cup {edge} ELSE A
    BY <1>4, <2>1
  <2>9. \A f \in A : f.parent \in managing[s].seen => f.child \in managing[s].seen
    BY <2>2
  <2>10. managing[s].alone => \A f \in L : f.parent \in managing[s].seen => f.child \in managing[s].seen
    BY <2>2
  <2> HIDE DEF A
  <2>11. Vendor(scope)!Acyclic(A \cup {edge})
    BY <2>1, <2>2, <2>3, <2>7, <2>9, AddEdge
  <2>12. ASSUME NEW y \in L, managing[s].alone PROVE Vendor(scope)!Acyclic(A \cup {y} \cup {edge})
    <3> DEFINE E == A \cup {y}
    <3>1. Vendor(scope)!Acyclic(E) /\ \A f \in E : f.parent \in managing[s].seen => f.child \in managing[s].seen
      BY <2>7, <2>9, <2>10, <2>12
    <3> HIDE DEF E
    <3>2. Vendor(scope)!Acyclic(E \cup {edge})
      BY <2>1, <2>2, <2>3, <3>1, AddEdge
    <3> QED
      BY <3>2 DEF E
  <2>13. Vendor(scope)!Acyclic(B)
    BY <2>7, <2>8, <2>11
  <2>14. ASSUME NEW y \in M PROVE Vendor(scope)!Acyclic(B \cup {y})
    <3>1. CASE managing[s].alone /\ y \in L
      <4>1. B \cup {y} = A \cup {y} \cup {edge}
        BY <2>8, <3>1
      <4> QED
        BY <2>12, <3>1, <4>1
    <3>2. CASE y = edge
      <4>1. B \cup {y} = A \cup {edge}
        BY <2>8, <3>2
      <4> QED
        BY <2>11, <4>1
    <3>3. CASE ~managing[s].alone /\ y \in L
      BY <2>7, <2>8, <3>3
    <3> QED
      BY <2>8, <3>1, <3>2, <3>3
  <2>15. Vendor(scope)!CyclesNeedTwoRacingEdges'
    BY <2>13, <2>14 DEF Vendor!CyclesNeedTwoRacingEdges, Vendor!Live, Vendor!Acyclic, Vendor!Reaches, A
  <2> QED
    BY <1>1, <2>4, <2>5, <2>6, <2>15 DEF GraphInv
<1> QED
  BY <1>1, <1>3, <1>4

LEMMA GraphCommit ==
  ASSUME NEW scope, RegistryScope(scope), GraphInv(scope), NEW s \in scope.slots, Vendor(scope)!Commit(s)
  PROVE  GraphInv(scope)'
<1> DEFINE Counterparts ==
             \A f \in edges' : f.live =>
               \E e \in edges : e.live /\ e.parent = f.parent /\ e.child = f.child /\ e.alone = f.alone
<1>1. VendorInv(scope) /\ managing[s].refresh \in SUBSET scope.ids
  BY DEF GraphInv, VendorInv, VendorType, VendorRequest
<1>2. UNCHANGED edges => Counterparts
  OBVIOUS
<1>3. ASSUME NEW vs \in SUBSET scope.ids, managing'[s] = Vendor(scope)!Refreshing(s, vs)
      PROVE  ~Searching(s)'
  BY <1>1, <1>3, VendorRefreshes DEF Searching
<1>4. managing'[s] = Vendor(scope)!Idle => ~Searching(s)'
  BY VendorIdle DEF Searching
<1> DEFINE Moves == VendorInv(scope)' /\ SlotStep(scope, s) /\ Vendor(scope)!Busy(s) /\ ~Searching(s)'
<1>5. Moves /\ Counterparts => GraphInv(scope)'
  BY GraphMoves
<1> HIDE DEF Counterparts
<1>6. CASE Vendor(scope)!CreateVendor(s)
  <2>1. Moves
    BY <1>1, <1>6, VendorCreate DEF Searching, Vendor!CreateVendor, Vendor!At, Vendor!Busy
  <2> QED
    BY <1>2, <1>5, <1>6, <2>1 DEF Vendor!CreateVendor
<1>7. CASE Vendor(scope)!Update(s)
  <2>1. Moves
    BY <1>1, <1>4, <1>7, VendorUpdate DEF Vendor!Update, Vendor!At, Vendor!Busy
  <2> QED
    BY <1>2, <1>5, <1>7, <2>1 DEF Vendor!Update
<1>8. CASE Vendor(scope)!ReadParents(s)
  <2>1. Moves
    BY <1>1, <1>8, VendorReadParents DEF Searching, Vendor!ReadParents, Vendor!At, Vendor!Busy
  <2> QED
    BY <1>2, <1>5, <1>8, <2>1 DEF Vendor!ReadParents
<1>9. CASE Vendor(scope)!Offboard(s)
  <2>0. ~Searching(s)'
    BY <1>1, <1>3, <1>4, <1>9, VendorOffboard
  <2>1. Moves
    BY <1>1, <1>9, <2>0, VendorOffboard DEF Vendor!Offboard, Vendor!At, Vendor!Busy
  <2>2. Counterparts
    BY <1>1, <1>9, VendorOffboard DEF Counterparts
  <2> QED
    BY <1>5, <2>1, <2>2
<1>10. CASE Vendor(scope)!SupersedeActive(s)
  <2>1. Moves
    BY <1>1, <1>10, VendorSupersede DEF Searching, Vendor!SupersedeActive, Vendor!At, Vendor!Busy
  <2> QED
    BY <1>2, <1>5, <1>10, <2>1 DEF Vendor!SupersedeActive
<1>11. CASE Vendor(scope)!CreateAgreement(s)
  <2>1. Moves
    BY <1>1, <1>11, VendorSign DEF Searching, Vendor!CreateAgreement, Vendor!At, Vendor!Busy
  <2> QED
    BY <1>2, <1>5, <1>11, <2>1 DEF Vendor!CreateAgreement
<1>12. CASE Vendor(scope)!CreateReview(s)
  <2>0. ~Searching(s)'
    <3>1. managing'[s] = Vendor(scope)!Refreshing(s, {managing[s].v}) /\ {managing[s].v} \in SUBSET scope.ids
      BY <1>1, <1>12, VendorReview
    <3> QED
      BY <1>3, <3>1
  <2>1. Moves
    BY <1>1, <1>12, <2>0, VendorReview DEF Vendor!CreateReview, Vendor!At, Vendor!Busy
  <2> QED
    BY <1>2, <1>5, <1>12, <2>1 DEF Vendor!CreateReview
<1>13. CASE Vendor(scope)!AcknowledgeRelationship(s)
  <2>0. ~Searching(s)'
    <3>1. managing'[s] = Vendor(scope)!Refreshing(s, {managing[s].v}) /\ {managing[s].v} \in SUBSET scope.ids
      BY <1>1, <1>13, VendorAcknowledge
    <3> QED
      BY <1>3, <3>1
  <2>1. Moves
    BY <1>1, <1>13, <2>0, VendorAcknowledge DEF Vendor!AcknowledgeRelationship, Vendor!At, Vendor!Busy
  <2>2. Counterparts
    BY <1>1, <1>13, VendorAcknowledge DEF Counterparts
  <2> QED
    BY <1>5, <2>1, <2>2
<1> QED
  BY <1>6, <1>7, <1>8, <1>9, <1>10, <1>11, <1>12, <1>13, GraphSearch, GraphRelate DEF Vendor!Commit

LEMMA GraphNext ==
  ASSUME NEW scope, RegistryScope(scope), GraphInv(scope), Vendor(scope)!Next
  PROVE  GraphInv(scope)'
<1>1. CASE \E s \in scope.slots : \E op \in scope.ops : \E v, c \in scope.ids :
              Vendor(scope)!Receive(s, op, v, c)
  BY <1>1, GraphReceive
<1>2. CASE \E s \in scope.slots : Vendor(scope)!Commit(s)
  BY <1>2, GraphCommit
<1>3. ASSUME NEW s \in scope.slots,
             \/ Vendor(scope)!ReadVersion(s) \/ Vendor(scope)!BuildScorecard(s)
             \/ Vendor(scope)!StoreScores(s) \/ Vendor(scope)!RequestFails(s)
      PROVE  GraphInv(scope)'
  <2>1. VendorInv(scope) /\ RequestFits(scope, s)
    BY DEF GraphInv, VendorInv
  <2>2. /\ UNCHANGED edges
        /\ managing[s].step \in {"refresh", "facts", "store"} \/ Vendor(scope)!Busy(s)
    BY <1>3, Zenon DEF Vendor!ReadVersion, Vendor!BuildScorecard, Vendor!StoreScores, Vendor!RequestFails
  <2>3. Vendor(scope)!Busy(s)
    BY <2>1, <2>2 DEF RequestFits, Vendor!Busy
  <2>4. VendorInv(scope)' /\ SlotStep(scope, s) /\ managing'[s].step \notin {"check", "commit"}
    <3>1. CASE Vendor(scope)!ReadVersion(s)
      BY <2>1, <3>1, VendorReadVersion, VendorIdle
    <3>2. CASE Vendor(scope)!BuildScorecard(s)
      BY <2>1, <3>2, VendorBuild, VendorIdle
    <3>3. CASE Vendor(scope)!StoreScores(s)
      BY <2>1, <3>3, VendorStore
    <3>4. CASE Vendor(scope)!RequestFails(s)
      BY <2>1, <3>4, VendorFails, VendorIdle
    <3> QED
      BY <1>3, <3>1, <3>2, <3>3, <3>4
  <2> QED
    BY <2>2, <2>3, <2>4, GraphMoves DEF Searching
<1>4. ASSUME NEW v \in scope.ids, Vendor(scope)!DatePasses(v) PROVE GraphInv(scope)'
  <2>1. VendorInv(scope)'
    BY <1>4, VendorDatePasses DEF GraphInv
  <2>2. UNCHANGED <<edges, managing>>
    BY <1>4 DEF Vendor!DatePasses
  <2> QED
    BY <2>1, <2>2, GraphUntouched
<1> QED
  BY <1>1, <1>2, <1>3, <1>4 DEF Vendor!Next

LEMMA GraphInit ==
  ASSUME NEW scope, RegistryScope(scope), Vendor(scope)!Init
  PROVE  GraphInv(scope)
<1>1. VendorInv(scope)
  BY VendorInit
<1>2. \A s \in scope.slots : ~Searching(s)
  BY VendorIdle DEF Vendor!Init, Searching
<1>3. Vendor(scope)!CyclesNeedTwoRacingEdges
  BY DEF Vendor!Init, Vendor!CyclesNeedTwoRacingEdges, Vendor!Live, Vendor!Acyclic
<1> QED
  BY <1>1, <1>2, <1>3 DEF GraphInv, SearchFits

LEMMA GraphStutters ==
  ASSUME NEW scope, GraphInv(scope), UNCHANGED vendorVars
  PROVE  GraphInv(scope)'
<1>1. UNCHANGED <<edges, managing>>
  BY DEF vendorVars
<1>2. VendorInv(scope)'
  BY VendorStutters DEF GraphInv
<1> QED
  BY <1>1, <1>2, GraphUntouched

LEMMA ScopesFit ==
  /\ RegistryScope(Scope.graph) /\ RegistryScope(Scope.serial)
  /\ RegistryScope(Scope.signing) /\ RegistryScope(Scope.ending)
BY MCComplianceAssumption, FS_Singleton DEF RegistryScope, Scope, Vendor!AllOps

LEMMA VendorsAtWorkInit == Init => VendorsAtWork
<1> SUFFICES ASSUME Init PROVE VendorsAtWork
  OBVIOUS
<1>1. \/ component = "graph" /\ Vendor(Scope.graph)!Init
      \/ component = "serial" /\ Vendor(Scope.serial)!Init
      \/ component = "ending" /\ Vendor(Scope.ending)!Init
      \/ component \notin {"graph", "serial", "ending"} /\ Vendor(Scope.signing)!Init
  BY DEF Init
<1> QED
  BY <1>1, ScopesFit, GraphInit, ScoreInit DEF VendorsAtWork

LEMMA VendorsAtWorkNext == VendorsAtWork /\ [Next]_vars => VendorsAtWork'
<1> SUFFICES ASSUME VendorsAtWork, [Next]_vars PROVE VendorsAtWork'
  OBVIOUS
<1>1. UNCHANGED component
  BY OneMoves
<1>2. ASSUME component = "graph" PROVE GraphInv(Scope.graph)'
  <2>1. Vendor(Scope.graph)!Next \/ UNCHANGED vendorVars
    BY <1>2, OneMoves
  <2> QED
    BY <1>2, <2>1, ScopesFit, GraphNext, GraphStutters DEF VendorsAtWork
<1>3. ASSUME component = "serial" PROVE ScoreInv(Scope.serial)'
  <2>1. Vendor(Scope.serial)!Next \/ UNCHANGED vendorVars
    BY <1>3, OneMoves
  <2> QED
    BY <1>3, <2>1, ScopesFit, ScoreNext, ScoreStutters DEF VendorsAtWork
<1>4. ASSUME component = "ending" PROVE ScoreInv(Scope.ending)'
  <2>1. Vendor(Scope.ending)!Next \/ UNCHANGED vendorVars
    BY <1>4, OneMoves
  <2> QED
    BY <1>4, <2>1, ScopesFit, ScoreNext, ScoreStutters DEF VendorsAtWork
<1>5. ASSUME component \notin {"graph", "serial", "ending"} PROVE ScoreInv(Scope.signing)'
  <2>1. Vendor(Scope.signing)!Next \/ UNCHANGED vendorVars
    BY <1>5, OneMoves
  <2> QED
    BY <1>5, <2>1, ScopesFit, ScoreNext, ScoreStutters DEF VendorsAtWork
<1> QED
  BY <1>1, <1>2, <1>3, <1>4, <1>5 DEF VendorsAtWork

LEMMA VendorsInvariant == Spec => []VendorsAtWork
BY VendorsAtWorkInit, VendorsAtWorkNext, PTL DEF Spec

\* The relationships that were added while no other request was under way never
\* form a cycle, nor does any cycle appear unless two of its edges raced
\* (addRelationship searches before it inserts, without a lock), for any number
\* of vendors and requests.
THEOREM CyclesNeedTwoRacingEdgesAlways == Spec => []CyclesNeedTwoRacingEdges
<1>1. VendorsAtWork => CyclesNeedTwoRacingEdges
  BY DEF VendorsAtWork, GraphInv, CyclesNeedTwoRacingEdges
<1> QED
  BY <1>1, VendorsInvariant, PTL
=============================================================================
