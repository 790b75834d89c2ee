---------------------------- MODULE Questionnaire ----------------------------
(***************************************************************************)
(* The gate of an assessment's evaluation: the questionnaire of the         *)
(* organization's industry must be answered in the current version before   *)
(* its controls are evaluated (AssessmentService.evaluate).  The answers    *)
(* are read first and the industry afterwards, while other requests answer  *)
(* questions, change the industry in the settings, or start a new version.  *)
(*                                                                          *)
(* An answer is stored as it is sent: true, false, the text "yes", or some  *)
(* other text or number.  (A null is refused by the database client.)       *)
(***************************************************************************)
EXTENDS Naturals, Catalog

CONSTANTS
  Considered,  \* the questions under consideration; all others are answered
  Industries,  \* the values of Organization.industry under consideration
  None

VARIABLES
  industry,   \* Organization.industry
  stored,     \* the answers in the current version, "none" where there is none
  evaluation, \* an evaluation under way: the answers it read, and whether they
              \* are of a version that has been replaced meanwhile
  report      \* the current version's last report: its answers and its domain

vars == <<industry, stored, evaluation, report>>

Values == {"true", "false", "yes", "other"}
Unanswered == [q \in Considered |-> "none"]

\* ALIASES: the domains in the order their patterns are tried.
AliasOrder ==
  <<"banking_finance", "healthcare", "ecommerce_retail", "education_edtech",
    "space_technology", "automobile", "food_manufacturing", "hotels", "it_saas", "telecom">>

\* normalizeIndustry: a text that is a domain's key stands for it, any other one
\* for the first domain with a pattern that matches it, or for none.
Normalize(text) ==
  IF text.key \in Domains THEN text.key
  ELSE LET hits == {i \in DOMAIN AliasOrder : AliasOrder[i] \in text.matches}
       IN  IF hits = {} THEN None
           ELSE AliasOrder[CHOOSE i \in hits : \A j \in hits : i <= j]

---------------------------------------------------------------------------

\* UpdateOrganization: whatever the assessments have answered so far.
SetIndustry(text) ==
  /\ industry' = text
  /\ UNCHANGED <<stored, evaluation, report>>

\* Seeded fault: what is sent replaces the version's questionnaire.
SaveQuestionnaire_Fault(q, value) ==
  /\ stored' = [Unanswered EXCEPT ![q] = value]
  /\ UNCHANGED <<industry, evaluation, report>>

\* Any code is stored, whether the organization is asked it or not.
SaveQuestionnaire(q, value) ==
  /\ stored' = [stored EXCEPT ![q] = value]
  /\ UNCHANGED <<industry, evaluation, report>>

\* The new version has no answers and no report yet.
CreateVersion ==
  /\ stored' = Unanswered
  /\ report' = None
  /\ evaluation' = IF evaluation = None THEN None ELSE [evaluation EXCEPT !.replaced = TRUE]
  /\ UNCHANGED industry

---------------------------------------------------------------------------
(* evaluate                                                                *)

\* requireAssessment and the three queries of the version found.
ReadAnswers ==
  /\ evaluation = None
  /\ evaluation' = [answers |-> stored, replaced |-> FALSE]
  /\ UNCHANGED <<industry, stored, report>>

\* Seeded fault: an organization with a pack is asked nothing else.
Required_Fault(domain) ==
  IF domain \in Domains THEN Pack[domain] \cap Considered ELSE Core \cap Considered

Required(domain) == QuestionsFor(domain) \cap Considered

\* Seeded fault: follow-ups are never required.
Hidden_Fault(q, answers) == ParentsOf(q) \cap Considered # {}

\* The parent's stored value is compared with true, strictly.
Hidden(q, answers) ==
  \E p \in ParentsOf(q) : p \in Considered /\ answers[p] # "true"

Missing(domain, answers) ==
  {q \in Required(domain) : ~Hidden(q, answers) /\ answers[q] = "none"}

\* The industry is read, the gate decides, and a report replaces the version's.
Decide ==
  /\ evaluation # None
  /\ LET domain == Normalize(industry)
         accepted == Missing(domain, evaluation.answers) = {}
     IN  report' = IF accepted /\ ~evaluation.replaced
                   THEN [answers |-> evaluation.answers, domain |-> domain]
                   ELSE report
  /\ evaluation' = None
  /\ UNCHANGED <<industry, stored>>

---------------------------------------------------------------------------

Init ==
  /\ industry \in Industries
  /\ stored = Unanswered
  /\ evaluation = None
  /\ report = None

Next ==
  \/ \E text \in Industries : SetIndustry(text)
  \/ \E q \in Considered : \E value \in Values : SaveQuestionnaire(q, value)
  \/ CreateVersion \/ ReadAnswers \/ Decide

Spec == Init /\ [][Next]_vars

---------------------------------------------------------------------------

\* Answers, evaluations and reports stay in their types.
TypeOK ==
  /\ industry \in Industries
  /\ stored \in [Considered -> Values \cup {"none"}]
  /\ evaluation # None => evaluation.answers \in [Considered -> Values \cup {"none"}]
  /\ report # None => report.domain \in Domains \cup {None}

\* truthyAnswer: what the engine reads in a stored value.
Truthy(value) ==
  CASE value \in {"true", "yes"} -> "yes"
    [] value = "false" -> "no"
    [] OTHER -> "none"

AskedByControls == UNION {Asks[c] : c \in DOMAIN Asks}

\* The gate hands the engine what it needs: in a report, a question some control
\* asks that the engine cannot read was answered unreadably, or follows a parent
\* that was not answered with the boolean true - by no, not at all while it is
\* not asked, or by the text "yes", which the engine takes for true.
GateFitsEngine ==
  report # None =>
    \A q \in Considered \cap AskedByControls :
      Truthy(report.answers[q]) = "none" /\ report.answers[q] # "other"
        => \E p \in ParentsOf(q) \cap Considered :
             report.answers[p] \in {"false", "yes", "other"}

\* What was accepted once can be evaluated again, whatever the industry was in
\* between: back in the report's industry, the version lacks an answer only after
\* a parent was changed to true and revealed a follow-up.
ReportsCanBeRepeated ==
  report # None =>
    \A q \in Missing(report.domain, stored) :
      \E p \in ParentsOf(q) \cap Considered :
        stored[p] = "true" /\ report.answers[p] # "true"
=============================================================================
