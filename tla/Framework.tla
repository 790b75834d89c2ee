------------------------------ MODULE Framework ------------------------------
(***************************************************************************)
(* The compliance frameworks of one organization (FrameworkService), their  *)
(* controls and requirements (ControlService, RequirementService).          *)
(* Generating replaces the drafts and may publish at once; publishing       *)
(* archives what was published before.  What a transaction replaces or      *)
(* archives it has read earlier, at READ COMMITTED: not what others commit  *)
(* meanwhile.                                                               *)
(***************************************************************************)
EXTENDS Naturals, FiniteSets, Catalog

CONSTANTS
  Ids,    \* frameworks, numbered in the order of their generation
  Codes,  \* the control templates under consideration
  Profiles,  \* the profiles a framework is generated for
  Slots,  \* requests in flight
  None

VARIABLES
  status,        \* by framework
  controls,      \* by framework: the codes of its controls
  requirements,  \* by framework: its requirements, each with its control
  slot,          \* requests in flight
  published,     \* history: something was published once
  raced          \* history: two requests that replace or publish have met

vars == <<status, controls, requirements, slot, published, raced>>

Requirements == UNION {Template[c] : c \in Codes}

Idle == [op |-> "idle", step |-> "idle", f |-> None, code |-> None, ctl |-> None, seen |-> {}]

With(st) == {f \in Ids : status[f] = st}
Exists(f) == status[f] \in {"DRAFT", "PUBLISHED", "ARCHIVED"}

Replacing == {"generate", "generate and publish", "publish"}

Begin(s, request) ==
  /\ slot[s] = Idle
  /\ slot' = [slot EXCEPT ![s] = request]
  /\ raced' = (raced \/ (request.op \in Replacing /\ \E t \in Slots : slot[t].op \in Replacing))
  /\ UNCHANGED <<status, controls, requirements, published>>

Request(op, step, f, code, ctl) ==
  [Idle EXCEPT !.op = op, !.step = step, !.f = f, !.code = code, !.ctl = ctl]

---------------------------------------------------------------------------
(* Generate and publish                                                    *)

Unused == {f \in Ids : status[f] = "none" /\ \A t \in Slots : slot[t].f # f}

\* The transaction reads the drafts it is about to delete.
FindDrafts(s, op, profile) ==
  /\ op \in {"generate", "generate and publish"}
  /\ \E f \in Unused :
       /\ \A g \in Unused : f <= g
       /\ Begin(s, [Request(op, IF op = "generate" THEN "commit" ELSE "archive", f, profile, None)
                      EXCEPT !.seen = With("DRAFT")])

\* A framework asked for by id, or the latest one; both must be a draft.
FindTarget(s, f) ==
  /\ status[f] = "DRAFT"
  /\ Begin(s, Request("publish", "archive", f, None, None))

Give(s, change) == slot' = [slot EXCEPT ![s] = change]

\* Seeded fault: what is published is not archived.
Archive_Fault(s) ==
  /\ slot[s].step = "archive"
  /\ Give(s, [slot[s] EXCEPT !.step = "commit", !.ctl = {}])
  /\ UNCHANGED <<status, controls, requirements, published, raced>>

\* The UPDATE that archives finds what is published now.
Archive(s) ==
  /\ slot[s].step = "archive"
  /\ Give(s, [slot[s] EXCEPT !.step = "commit", !.ctl = With("PUBLISHED") \ {slot[s].f}])
  /\ UNCHANGED <<status, controls, requirements, published, raced>>

\* The templates a request to generate selects, of those under consideration.
Selected(s) == IF slot[s].op = "publish" THEN {} ELSE SelectTemplates(slot[s].code) \cap Codes

\* Seen drafts lose their children; a generated framework is given its own.
Children(s, rows, generated) ==
  [g \in Ids |-> IF g \in slot[s].seen THEN {}
                 ELSE IF g = slot[s].f /\ slot[s].op # "publish" THEN generated
                 ELSE rows[g]]

\* The commit: seen drafts are gone whatever has become of them, archived ones
\* archived, and the target, unless it was deleted meanwhile, is published.
Replace(s) ==
  /\ slot[s].op \in Replacing /\ slot[s].step = "commit"
  /\ LET f == slot[s].f
         publishing == slot[s].op # "generate"
         gone == publishing /\ slot[s].op = "publish" /\ ~Exists(f)
     IN  IF gone THEN UNCHANGED <<status, controls, requirements, published>>
         ELSE /\ status' = [g \in Ids |->
                   IF g = f THEN (IF publishing THEN "PUBLISHED" ELSE "DRAFT")
                   ELSE IF g \in slot[s].seen THEN "deleted"
                   ELSE IF publishing /\ g \in slot[s].ctl /\ status[g] = "PUBLISHED" THEN "ARCHIVED"
                   ELSE status[g]]
              /\ controls' = Children(s, controls, Selected(s))
              /\ requirements' = Children(s, requirements,
                   UNION {[code : Template[c], ctl : {c}] : c \in Selected(s)})
              /\ published' = (published \/ publishing)
  /\ Give(s, Idle)
  /\ UNCHANGED raced

\* An error, a foreign key the deletion would break among them, rolls back.
RollBack(s) ==
  /\ slot[s].op \in Replacing
  /\ Give(s, Idle)
  /\ UNCHANGED <<status, controls, requirements, published, raced>>

---------------------------------------------------------------------------
(* Controls and requirements added by hand                                 *)

CheckControl(s, f, code) ==
  /\ Exists(f) /\ code \notin controls[f]
  /\ Begin(s, Request("control", "commit", f, code, None))

\* A framework that was deleted meanwhile breaks the foreign key, a code that
\* was taken meanwhile the unique index.
CreateControl(s) ==
  /\ slot[s].op = "control"
  /\ controls' = IF Exists(slot[s].f) THEN [controls EXCEPT ![slot[s].f] = @ \cup {slot[s].code}]
                 ELSE controls
  /\ Give(s, Idle)
  /\ UNCHANGED <<status, requirements, published, raced>>

\* Seeded fault: the control may be one of another framework.
ControlOnFramework_Fault(f, ctl) == \E g \in Ids : ctl \in controls[g]

ControlOnFramework(f, ctl) == ctl \in controls[f]

CheckRequirement(s, f, code, ctl) ==
  /\ Exists(f)
  /\ \A r \in requirements[f] : r.code # code
  /\ ctl # None => ControlOnFramework(f, ctl)
  /\ Begin(s, Request("requirement", "commit", f, code, ctl))

CheckMapping(s, f, code, ctl) ==
  /\ \E r \in requirements[f] : r.code = code
  /\ ControlOnFramework(f, ctl)
  /\ Begin(s, Request("map", "commit", f, code, ctl))

\* Both also write RequirementMapped when a control is given.
SaveRequirement(s) ==
  /\ slot[s].op \in {"requirement", "map"}
  /\ LET f == slot[s].f
         others == {r \in requirements[f] : r.code # slot[s].code}
         there == \E r \in requirements[f] : r.code = slot[s].code
     IN  requirements' = IF Exists(f) /\ (slot[s].op = "map" <=> there)
                         THEN [requirements EXCEPT ![f] = others \cup {[code |-> slot[s].code, ctl |-> slot[s].ctl]}]
                         ELSE requirements
  /\ Give(s, Idle)
  /\ UNCHANGED <<status, controls, published, raced>>

---------------------------------------------------------------------------

Init ==
  /\ status = [f \in Ids |-> "none"]
  /\ controls = [f \in Ids |-> {}] /\ requirements = [f \in Ids |-> {}]
  /\ slot = [s \in Slots |-> Idle] /\ published = FALSE /\ raced = FALSE

Check(s) ==
  \/ \E op \in Replacing : \E profile \in Profiles : FindDrafts(s, op, profile)
  \/ \E f \in Ids :
       \/ FindTarget(s, f)
       \/ \E code \in Codes : CheckControl(s, f, code)
       \/ \E code \in Requirements :
            \/ \E ctl \in Codes \cup {None} : CheckRequirement(s, f, code, ctl)
            \/ \E ctl \in Codes : CheckMapping(s, f, code, ctl)

Next ==
  \E s \in Slots :
    \/ Check(s)
    \/ Archive(s) \/ Replace(s) \/ RollBack(s) \/ CreateControl(s) \/ SaveRequirement(s)

Spec == Init /\ [][Next]_vars

---------------------------------------------------------------------------

\* The rows and the requests stay in their types.
TypeOK ==
  /\ status \in [Ids -> {"none", "DRAFT", "PUBLISHED", "ARCHIVED", "deleted"}]
  /\ controls \in [Ids -> SUBSET Codes]
  /\ \A f \in Ids : requirements[f] \subseteq [code : Requirements, ctl : Codes \cup {None}]
  /\ \A s \in Slots : slot[s].step \in {"idle", "archive", "commit"}

\* An organization that has published a framework has exactly one published
\* framework, unless two requests that replace or publish have met; a requirement
\* is only ever mapped to a control of its own framework.
OneFrameworkPublished ==
  /\ published /\ ~raced => Cardinality(With("PUBLISHED")) = 1
  /\ \A f \in Ids : \A r \in requirements[f] : r.ctl # None => r.ctl \in controls[f]
=============================================================================
