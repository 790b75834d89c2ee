---------------------------- MODULE ControlEngine ----------------------------
(***************************************************************************)
(* The readiness engine of an assessment (control-engine.service.ts): the   *)
(* status of a control from three kinds of evidence - answers, documents    *)
(* and CLI findings - and the score of all of them with its ceilings.  The  *)
(* evidence grows and is corrected by requests; an evaluation is a function *)
(* of what is stored, so it is an operator of the state here.               *)
(*                                                                          *)
(* A finding's confidence has no influence (a strong finding with matching  *)
(* text is already covered by "any finding with matching text") and is left *)
(* out, and so are reasoning, references and severity.                      *)
(***************************************************************************)
EXTENDS Naturals, FiniteSets, Catalog

CONSTANT Controls  \* the controls under consideration, of those in Asks

VARIABLES
  answers,   \* truthyAnswer of each question: "yes", "no" or "none"
  typed,     \* controls a READY document's type hints at
  texts,     \* controls whose keywords occur in the documents' text, and
             \* "long" when some text is long enough to be searched
  findings,  \* controls some CLI finding matches, and "other" when one
             \* matches none of them
  vendors    \* the live vendors: none, all with an agreement, one without

vars == <<answers, typed, texts, findings, vendors>>

ConsentControls == {"Notice", "Collect", "Withdraw"}

\* The questions whose answer some control looks at.
Questions ==
  UNION {Asks[c] : c \in Controls}
    \cup (IF Controls \cap {"VendorInventory", "VendorDpa"} # {} THEN {"Q-VENDORS"} ELSE {})
    \cup (IF Controls \cap ConsentControls # {} THEN {"Q-CHILDREN-DATA"} ELSE {})

AnswerFor(q) == IF q \in Questions THEN answers[q] ELSE "none"

---------------------------------------------------------------------------
(* evaluateOne                                                             *)

Tech(c)      == c \in findings
StrongDoc(c) == c \in texts
WeakDoc(c)   == c \in typed /\ ~StrongDoc(c)
Positive(c)  == \E q \in Asks[c] : AnswerFor(q) = "yes"
Negative(c)  == \E q \in Asks[c] : AnswerFor(q) = "no"

ChildrenSensitive(c) == c \in ConsentControls /\ AnswerFor("Q-CHILDREN-DATA") = "yes"

NotApplicable(c) ==
  \/ c = "SdfDpo" /\ AnswerFor("Q-SDF") = "no"
  \/ c \in {"VendorDpa", "VendorInventory"} /\ AnswerFor("Q-VENDORS") = "no" /\ vendors = "none"

\* What the vendor registry decides whatever the answers say.
RegistryFails(c) ==
  \/ c = "VendorDpa" /\ vendors = "missingDpa"
  \/ c = "VendorInventory" /\ AnswerFor("Q-VENDORS") = "yes" /\ vendors = "none"

Triangulated(c) ==
  \/ Tech(c) /\ (Positive(c) \/ StrongDoc(c))
  \/ StrongDoc(c) /\ Positive(c) /\ ~ChildrenSensitive(c)

SomeEvidence(c) ==
  \/ Positive(c) /\ ~Tech(c) /\ ~StrongDoc(c)
  \/ Tech(c) /\ ~Positive(c) /\ ~StrongDoc(c)
  \/ StrongDoc(c) /\ ~Positive(c) /\ ~Negative(c)
  \/ WeakDoc(c)

EvaluateOne(c) ==
  CASE NotApplicable(c) -> "NOT_APPLICABLE"
    [] ~NotApplicable(c) /\ RegistryFails(c) -> "FAIL"
    [] OTHER ->
         IF Negative(c) /\ ~Tech(c) /\ ~StrongDoc(c) THEN "FAIL"
         ELSE IF Triangulated(c)
              THEN IF ChildrenSensitive(c) /\ ~Tech(c) THEN "PARTIAL" ELSE "PASS"
              ELSE IF SomeEvidence(c) THEN "PARTIAL" ELSE "UNKNOWN"

---------------------------------------------------------------------------
(* evaluateControls: the score in tenths of a point                        *)

\* Seeded fault: the two ceilings are swapped.
Ceiling_Fault ==
  CASE findings = {} -> 750
    [] findings # {} /\ "long" \notin texts -> 550
    [] OTHER -> 1000

Ceiling ==
  CASE findings = {} -> 550
    [] findings # {} /\ "long" \notin texts -> 750
    [] OTHER -> 1000

Scored == {c \in Controls : EvaluateOne(c) # "NOT_APPLICABLE"}

\* In twentieths: a PASS counts 1, a PARTIAL 0.45.
Points == 20 * Cardinality({c \in Scored : EvaluateOne(c) = "PASS"})
          + 9 * Cardinality({c \in Scored : EvaluateOne(c) = "PARTIAL"})

Score ==
  IF Scored = {} THEN 0
  ELSE LET n == Cardinality(Scored)
           rounded == (100 * Points + n) \div (2 * n)
       IN  IF rounded > Ceiling THEN Ceiling ELSE rounded

---------------------------------------------------------------------------
(* The requests that change what an evaluation reads                       *)

SaveQuestionnaire(q, value) ==
  /\ answers' = [answers EXCEPT ![q] = value]
  /\ UNCHANGED <<typed, texts, findings, vendors>>

\* A READY document, with text that matches some controls or with none.
UploadDocument(hints, hits, long) ==
  /\ typed' = typed \cup hints
  /\ texts' = texts \cup hits \cup (IF long THEN {"long"} ELSE {})
  /\ UNCHANGED <<answers, findings, vendors>>

SubmitEvidenceBatch(found) ==
  /\ findings' = findings \cup found
  /\ UNCHANGED <<answers, typed, texts, vendors>>

\* Vendors are registered, offboarded, and sign or lose their agreements.
VendorsChange ==
  /\ Controls \cap {"VendorInventory", "VendorDpa"} # {}
  /\ vendors' \in {"none", "covered", "missingDpa"} \ {vendors}
  /\ UNCHANGED <<answers, typed, texts, findings>>

Init ==
  /\ answers = [q \in Questions |-> "none"]
  /\ typed = {} /\ texts = {} /\ findings = {} /\ vendors = "none"

Next ==
  \/ \E q \in Questions : \E value \in {"yes", "no", "none"} : SaveQuestionnaire(q, value)
  \/ \E hints \in {{}, Controls} : \E c \in Controls : \E long \in BOOLEAN :
       \/ UploadDocument(hints, {}, FALSE)
       \/ UploadDocument(hints, {c}, long)
  \/ \E c \in Controls \cup {"other"} : SubmitEvidenceBatch({c})
  \/ VendorsChange

Spec == Init /\ [][Next]_vars

---------------------------------------------------------------------------

\* The evidence is of the kinds the engine knows.
TypeOK ==
  /\ answers \in [Questions -> {"yes", "no", "none"}]
  /\ typed \subseteq Controls
  /\ texts \subseteq Controls \cup {"long"}
  /\ findings \subseteq Controls \cup {"other"}
  /\ vendors \in {"none", "covered", "missingDpa"}

\* Another document or another finding never lowers the score, ceilings
\* included, unless children's data is processed (see ChildrenConsentIsPartial).
EvidenceNeverLowersScore ==
  [][UNCHANGED <<answers, vendors>> /\ AnswerFor("Q-CHILDREN-DATA") # "yes" => Score' >= Score]_vars

\* "Children-sensitive consent needs tech OR fails to PARTIAL below": with
\* policy text and an affirmative answer, but no finding, the control is PARTIAL.
ChildrenConsentIsPartial ==
  \A c \in Controls :
    ChildrenSensitive(c) /\ StrongDoc(c) /\ Positive(c) /\ ~Tech(c) => EvaluateOne(c) = "PARTIAL"
=============================================================================
