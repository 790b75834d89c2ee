---------------------------- MODULE MCCompliance ----------------------------
(***************************************************************************)
(* The components of the compliance work - assessments and their engine,    *)
(* vendors, jobs, consent, evidence and frameworks - for TLC, side by side:  *)
(* in a behaviour one of them is at work and the others stay as they are    *)
(* (as in MCRecords), so the state space is the sum of theirs.              *)
(***************************************************************************)
EXTENDS Naturals, FiniteSets, TLC

CONSTANTS
  Slots,     \* requests in flight
  Lone,      \* the slot of the instance whose requests never overlap
  Workers,   \* job slots
  Requests,  \* rows with a job
  AssessmentVersions, AuditEvents, NoticeVersions, ConsentEvents, Approvals,  \* bounds
  CoreQuestions, PackQuestions,  \* questions under consideration
  GraphVendors, SerialVendors, SerialRegistered, SigningVendors, EndingVendors,  \* see Scope
  VendorProfiles, ReviewOutcomes,  \* what a score depends on beside them
  PolicyControls, RegistryControls,  \* controls under consideration
  Frameworks, Codes,  \* frameworks, and control templates under consideration
  None

ASSUME MCComplianceAssumption ==
  /\ AssessmentVersions \in Nat \ {0} /\ AuditEvents \in Nat
  /\ NoticeVersions \in Nat /\ ConsentEvents \in Nat /\ Approvals \in Nat
  /\ IsFiniteSet(Slots) /\ None \notin Requests
  /\ IsFiniteSet(GraphVendors) /\ IsFiniteSet(SerialVendors) /\ IsFiniteSet(SigningVendors)
  /\ IsFiniteSet(EndingVendors)
  /\ SerialRegistered \subseteq SerialVendors
  /\ VendorProfiles # {} /\ None \notin VendorProfiles
  /\ IsFiniteSet(PolicyControls) /\ IsFiniteSet(RegistryControls)
  /\ None \notin Frameworks /\ None \notin Codes

VARIABLES
  component,
  current, status, frozen, inputs, report, scans, chain, assessing,
  answers, typed, texts, findings, vendors,
  live, critical, profile, review, active, expiring, edges, score, managing, overlapped, overlooked,
  row, submit, job, stalls, run, cancel, late, excuse,
  notices, consents, events, consenting, withdrawnTwice,
  file, approved, collecting,
  frameworkStatus, controls, requirements, building, published, replacedTwice,
  industry, stored, evaluation, readiness

assessmentVars == <<current, status, frozen, inputs, report, scans, chain, assessing>>
engineVars     == <<answers, typed, texts, findings, vendors>>
vendorVars     == <<live, critical, profile, review, active, expiring, edges, score, managing,
                    overlapped, overlooked>>
jobVars        == <<row, submit, job, stalls, run, cancel, late, excuse>>
consentVars    == <<notices, consents, events, consenting, withdrawnTwice>>
evidenceVars   == <<file, approved, collecting>>
frameworkVars  == <<frameworkStatus, controls, requirements, building, published, replacedTwice>>
gateVars       == <<industry, stored, evaluation, readiness>>

---------------------------------------------------------------------------

Gap == INSTANCE Assessment WITH
  Ops <- {"upload", "initiate", "answer", "submit", "evaluate", "version", "confirm", "token", "scan"},
  MaxVersions <- AssessmentVersions, MaxEvents <- AuditEvents, slot <- assessing

Engine(considered) == INSTANCE ControlEngine WITH Controls <- considered

\* The vendor registry four times: relationships added by concurrent requests;
\* requests one at a time, that may fail; agreements signed while requests fail
\* and dates pass; and vendors offboarded while others are linked to them.
Scope ==
  [graph |-> [ids |-> GraphVendors, registered |-> GraphVendors, slots |-> Slots,
              ops |-> {"relate"}, disturbances |-> {}],
   serial |-> [ids |-> SerialVendors, registered |-> SerialRegistered, slots |-> {Lone},
               ops |-> {"create", "update", "offboard", "relate", "acknowledge"},
               disturbances |-> {"failure"}],
   signing |-> [ids |-> SigningVendors, registered |-> SigningVendors, slots |-> Slots,
                ops |-> {"sign", "update"}, disturbances |-> {"calendar", "failure"}],
   ending |-> [ids |-> EndingVendors, registered |-> EndingVendors, slots |-> Slots,
               ops |-> {"offboard", "relate", "review"}, disturbances |-> {}]]

Vendor(scope) == INSTANCE Vendors WITH
  Ids <- scope.ids, Registered <- scope.registered, Slots <- scope.slots, Ops <- scope.ops,
  Profiles <- VendorProfiles, Reviews <- ReviewOutcomes, Disturbances <- scope.disturbances,
  slot <- managing, raced <- overlapped

Jobs == INSTANCE JobRequest WITH
  Kinds <- {"report", "ai", "notification"}, Faulty <- TRUE

Trail == INSTANCE Consent WITH
  MaxVersions <- NoticeVersions, MaxEvents <- ConsentEvents,
  slot <- consenting, raced <- withdrawnTwice

Files == INSTANCE Evidence WITH MaxEvents <- Approvals, slot <- collecting

Profiles == {[industry |-> "education", maturity |-> "basic", sensitivity |-> "medium",
              processorCount |-> n, isSdf |-> FALSE] : n \in {0, 1}}

Roadmap == INSTANCE Framework WITH
  Ids <- Frameworks, status <- frameworkStatus, slot <- building, raced <- replacedTwice

\* A free text that matches two industries, one industry's key, and neither.
Texts == {[key |-> "healthcare", matches |-> {"healthcare"}],
          [key |-> None, matches |-> {"healthcare", "it_saas"}],
          [key |-> None, matches |-> {}]}

Gate(questions) == INSTANCE Questionnaire WITH
  Considered <- questions, Industries <- Texts, report <- readiness

---------------------------------------------------------------------------

Components ==
  {"assessment", "policy", "registry", "graph", "serial", "signing", "ending", "jobs", "consent",
   "evidence", "framework", "gate", "pack"}

Init ==
  /\ component \in Components
  /\ Gap!Init
  /\ IF component = "registry" THEN Engine(RegistryControls)!Init ELSE Engine(PolicyControls)!Init
  /\ \/ component = "graph" /\ Vendor(Scope.graph)!Init
     \/ component = "serial" /\ Vendor(Scope.serial)!Init
     \/ component = "ending" /\ Vendor(Scope.ending)!Init
     \/ component \notin {"graph", "serial", "ending"} /\ Vendor(Scope.signing)!Init
  /\ Jobs!Init /\ Trail!Init /\ Roadmap!Init
  /\ IF component = "pack" THEN Gate(PackQuestions)!Init ELSE Gate(CoreQuestions)!Init
  /\ component \notin {"gate", "pack"} => industry = [key |-> None, matches |-> {}]
  /\ Files!Init /\ (component # "evidence" => ~file.mapped)

AtWork(c) == component = c /\ UNCHANGED component

RestFromAssessment == UNCHANGED <<jobVars, consentVars, evidenceVars, frameworkVars, gateVars>>

AssessmentStep ==
  AtWork("assessment") /\ Gap!Next /\ UNCHANGED <<engineVars, vendorVars>> /\ RestFromAssessment

EngineStep ==
  /\ \/ AtWork("policy") /\ Engine(PolicyControls)!Next
     \/ AtWork("registry") /\ Engine(RegistryControls)!Next
  /\ UNCHANGED <<assessmentVars, vendorVars>> /\ RestFromAssessment

VendorStep ==
  /\ \/ AtWork("graph") /\ Vendor(Scope.graph)!Next
     \/ AtWork("serial") /\ Vendor(Scope.serial)!Next
     \/ AtWork("signing") /\ Vendor(Scope.signing)!Next
     \/ AtWork("ending") /\ Vendor(Scope.ending)!Next
  /\ UNCHANGED <<assessmentVars, engineVars>> /\ RestFromAssessment

RestFromJobs == UNCHANGED <<assessmentVars, engineVars, vendorVars, gateVars>>

JobStep ==
  /\ AtWork("jobs") /\ Jobs!Next
  /\ RestFromJobs /\ UNCHANGED <<consentVars, evidenceVars, frameworkVars>>

ConsentStep ==
  /\ AtWork("consent") /\ Trail!Next
  /\ RestFromJobs /\ UNCHANGED <<jobVars, evidenceVars, frameworkVars>>

EvidenceStep ==
  /\ AtWork("evidence") /\ Files!Next
  /\ RestFromJobs /\ UNCHANGED <<jobVars, consentVars, frameworkVars>>

FrameworkStep ==
  /\ AtWork("framework") /\ Roadmap!Next
  /\ RestFromJobs /\ UNCHANGED <<jobVars, consentVars, evidenceVars>>

GateStep ==
  /\ \/ AtWork("gate") /\ Gate(CoreQuestions)!Next
     \/ AtWork("pack") /\ Gate(PackQuestions)!Next
  /\ UNCHANGED <<assessmentVars, engineVars, vendorVars, jobVars, consentVars, evidenceVars,
                 frameworkVars>>

Next ==
  \/ AssessmentStep \/ EngineStep \/ VendorStep
  \/ JobStep \/ ConsentStep \/ EvidenceStep \/ FrameworkStep \/ GateStep

vars == <<component, assessmentVars, engineVars, vendorVars, jobVars, consentVars, evidenceVars,
          frameworkVars, gateVars>>

Spec == Init /\ [][Next]_vars

Symmetry == Permutations(Slots) \cup Permutations(Workers)

---------------------------------------------------------------------------
(* The properties of the instances, under names a configuration can use    *)

\* The rows and the requests in flight of every component stay in their types.
TypeOK ==
  /\ Gap!TypeOK
  /\ IF component = "registry" THEN Engine(RegistryControls)!TypeOK ELSE Engine(PolicyControls)!TypeOK
  /\ CASE component = "graph" -> Vendor(Scope.graph)!TypeOK
       [] component = "serial" -> Vendor(Scope.serial)!TypeOK
       [] component = "ending" -> Vendor(Scope.ending)!TypeOK
       [] OTHER -> Vendor(Scope.signing)!TypeOK
  /\ IF component = "pack" THEN Gate(PackQuestions)!TypeOK ELSE Gate(CoreQuestions)!TypeOK
  /\ Jobs!TypeOK /\ Trail!TypeOK /\ Files!TypeOK /\ Roadmap!TypeOK

\* See Assessment: held events are chained.
HeldEventsAreChained == Gap!HeldEventsAreChained

\* See ControlEngine: for the controls of either instance.
ScoreHolds(considered) ==
  UNCHANGED <<answers, vendors>> /\ Engine(considered)!AnswerFor("Q-CHILDREN-DATA") # "yes"
    => Engine(considered)!Score' >= Engine(considered)!Score

EvidenceNeverLowersScore ==
  [][/\ component = "policy" => ScoreHolds(PolicyControls)
     /\ component = "registry" => ScoreHolds(RegistryControls)]_engineVars

\* See Questionnaire: what the gate accepts suits the engine, and can be accepted
\* again.
GateIsSound ==
  /\ component = "gate" => Gate(CoreQuestions)!GateFitsEngine /\ Gate(CoreQuestions)!ReportsCanBeRepeated
  /\ component = "pack" => Gate(PackQuestions)!ReportsCanBeRepeated

\* See Vendors.
CyclesNeedTwoRacingEdges == component = "graph" => Vendor(Scope.graph)!CyclesNeedTwoRacingEdges

\* What requests leave behind: vendors whose stored score is out of date for no
\* other reason than those ScoresAreCurrent names, at most one agreement in force
\* where none was signed in a race (Vendors), and one published framework
\* (Framework).
RegistryIsSound ==
  /\ component = "serial" => Vendor(Scope.serial)!ScoresAreCurrent
  /\ component = "ending" => Vendor(Scope.ending)!ScoresAreCurrent
  /\ component = "signing" =>
       Vendor(Scope.signing)!ScoresAreCurrent /\ Vendor(Scope.signing)!OneAgreementInForce
  /\ Roadmap!OneFrameworkPublished

\* A request that is stranded, or cancelled and announced, met a fault or a race
\* (JobRequest).
JobsAreAccountable == Jobs!StrandedHasExcuse /\ Jobs!CancelledWasRunning

\* The histories kept for an audit have no gaps, whatever overlaps: versions of
\* assessments and notices, withdrawals of consent, approvals of evidence.
TrailsAreComplete ==
  /\ Gap!VersionsNumbered
  /\ Trail!NoticeHistory /\ Trail!WithdrawalsAreAnnounced
  /\ Files!LockedWasApproved
=============================================================================
