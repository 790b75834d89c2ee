------------------------------- MODULE Catalog -------------------------------
(***************************************************************************)
(* The questionnaire of an assessment and the controls that read its        *)
(* answers (assessments/domain): the questions every organization is asked, *)
(* the pack each industry adds, the questions a control looks at, and the   *)
(* templates a compliance framework is generated from.  Every question of   *)
(* the catalog is required; wording and options are left out.               *)
(***************************************************************************)
EXTENDS Naturals

---------------------------------------------------------------------------
(* The controls of the engine: questionCodes of each (control-registry.ts)  *)

Asks ==
  [Notice |-> {"Q-NOTICE-PUBLISHED"},
   Collect |-> {"Q-CONSENT-COLLECT"},
   Withdraw |-> {"Q-CONSENT-WITHDRAW"},
   Access |-> {"Q-RIGHTS-ACCESS"},
   Correct |-> {"Q-RIGHTS-CORRECT"},
   Erasure |-> {"Q-RIGHTS-DELETE"},
   Grievance |-> {"Q-GRIEVANCE"},
   BreachDetect |-> {"Q-BREACH-PROCESS"},
   BreachNotify |-> {"Q-BREACH-PROCESS"},
   RetentionSchedule |-> {"Q-RETENTION"},
   RetentionLogs |-> {"Q-RETENTION"},
   VendorInventory |-> {"Q-VENDORS", "Q-VENDOR-INVENTORY"},
   VendorDpa |-> {"Q-DPA"},
   GovOwner |-> {"Q-PRIVACY-OWNER"},
   GovTraining |-> {"Q-TRAINING"},
   SdfDpo |-> {"Q-SDF", "Q-DPO"}]

---------------------------------------------------------------------------
(* The core questionnaire, by stage                                        *)

ProfileQuestions ==
  {"Q-AUDIT-NOTICE-PUBLIC", "Q-AUDIT-CONTACT-CHANNEL", "Q-AUDIT-HOSTING-REGION",
   "Q-AUDIT-INFORMAL-CHANNELS", "Q-AUDIT-SYSTEMS-MAPPED", "Q-BIZ-MODEL", "Q-DATA-VOLUME",
   "Q-DATA-CATEGORIES", "Q-CHILDREN-DATA", "Q-CROSS-BORDER", "Q-FIDUCIARY-ROLE"}

ConsentAndRightsQuestions ==
  {"Q-NOTICE-PUBLISHED", "Q-NOTICE-PURPOSE", "Q-CONSENT-COLLECT", "Q-CONSENT-WITHDRAW",
   "Q-CONSENT-MANAGER", "Q-RIGHTS-ACCESS", "Q-RIGHTS-CORRECT", "Q-RIGHTS-DELETE",
   "Q-RIGHTS-NOMINATION", "Q-GRIEVANCE", "Q-GRIEVANCE-SLA"}

OperationsQuestions ==
  {"Q-VENDORS", "Q-DPA", "Q-VENDOR-INVENTORY", "Q-RETENTION", "Q-RETENTION-ERASURE",
   "Q-BREACH-PROCESS", "Q-BREACH-NOTIFY", "Q-LOG-RETENTION", "Q-PRIVACY-OWNER", "Q-TRAINING",
   "Q-SDF", "Q-DPO", "Q-DPIA", "Q-AUDIT"}

Core == ProfileQuestions \cup ConsentAndRightsQuestions \cup OperationsQuestions

---------------------------------------------------------------------------
(* The industry packs                                                      *)

Automobile ==
  {"Q-AUTO-SEGMENT", "Q-AUTO-CONNECTED", "Q-AUTO-TELEMETRY-NOTICE", "Q-AUTO-BIOMETRIC",
   "Q-AUTO-DEALER-CRM", "Q-AUTO-DEALER-DPA", "Q-AUTO-MARKETING", "Q-AUTO-RETENTION",
   "Q-AUTO-RIGHTS"}

BankingFinance ==
  {"Q-BFSI-SEGMENTS", "Q-BFSI-KYC", "Q-BFSI-LOCALISATION", "Q-BFSI-FRAUD",
   "Q-BFSI-RETENTION-CONFLICT", "Q-BFSI-BREACH-REG", "Q-BFSI-ACCOUNT-AGG",
   "Q-BFSI-CONSENT-UNBUNDLE", "Q-BFSI-CHILDREN"}

EcommerceRetail ==
  {"Q-ECOM-MODEL", "Q-ECOM-TRACKING", "Q-ECOM-MARKETING", "Q-ECOM-SELLERS",
   "Q-ECOM-SELLER-DPA", "Q-ECOM-PAYMENTS", "Q-ECOM-RETENTION", "Q-ECOM-RETURNS",
   "Q-ECOM-CHILDREN"}

EducationEdtech ==
  {"Q-EDU-MODEL", "Q-EDU-UNDER18", "Q-EDU-PARENTAL", "Q-EDU-VERIFY-METHOD", "Q-EDU-NO-TRACK",
   "Q-EDU-SCHOOL-SHARE", "Q-EDU-RETENTION", "Q-EDU-ACCESS", "Q-EDU-BIOMETRIC"}

FoodManufacturing ==
  {"Q-FOOD-OPS", "Q-FOOD-WORKFORCE", "Q-FOOD-BIOMETRIC", "Q-FOOD-TRACEABILITY",
   "Q-FOOD-QA-LABS", "Q-FOOD-QA-DPA", "Q-FOOD-LOGISTICS", "Q-FOOD-CCTV", "Q-FOOD-RETENTION"}

Healthcare ==
  {"Q-HLTH-SETTING", "Q-HLTH-RECORDS", "Q-HLTH-CONSENT-TX", "Q-HLTH-RESEARCH",
   "Q-HLTH-RESEARCH-CONSENT", "Q-HLTH-ACCESS-CTRL", "Q-HLTH-SHARING", "Q-HLTH-RETENTION",
   "Q-HLTH-CHILDREN"}

Hotels ==
  {"Q-HTL-MODEL", "Q-HTL-PMS", "Q-HTL-ID-PROOF", "Q-HTL-OTA", "Q-HTL-OTA-DPA",
   "Q-HTL-MARKETING", "Q-HTL-CCTV", "Q-HTL-CHILDREN", "Q-HTL-RIGHTS"}

ItSaas ==
  {"Q-SAAS-ROLE", "Q-SAAS-DPA-CUSTOMER", "Q-SAAS-SUBPROCESSORS", "Q-SAAS-RESIDENCY",
   "Q-SAAS-EMPLOYEE", "Q-SAAS-SUPPORT", "Q-SAAS-LOGS", "Q-SAAS-TRAINING-DATA",
   "Q-SAAS-TRAINING-OPT"}

SpaceTechnology ==
  {"Q-SPACE-SEGMENT", "Q-SPACE-WORKFORCE", "Q-SPACE-GEO", "Q-SPACE-CROSSBORDER",
   "Q-SPACE-PARTNERS", "Q-SPACE-PARTNER-DPA", "Q-SPACE-EXPORT", "Q-SPACE-ACCESS",
   "Q-SPACE-BREACH"}

Telecom ==
  {"Q-TEL-LICENSE", "Q-TEL-LOCATION", "Q-TEL-CDR", "Q-TEL-LAWFUL", "Q-TEL-TRAI",
   "Q-TEL-PARTNERS", "Q-TEL-BREACH", "Q-TEL-SDF", "Q-TEL-CHILDREN"}

\* INDUSTRY_PACKS
Pack ==
  [automobile |-> Automobile, banking_finance |-> BankingFinance,
   ecommerce_retail |-> EcommerceRetail, education_edtech |-> EducationEdtech,
   food_manufacturing |-> FoodManufacturing, healthcare |-> Healthcare, hotels |-> Hotels,
   it_saas |-> ItSaas, space_technology |-> SpaceTechnology, telecom |-> Telecom]

\* INDUSTRY_DOMAIN_KEYS
Domains == DOMAIN Pack

\* getQuestionsForDomain: an unknown industry is asked the core questions only.
QuestionsFor(domain) == Core \cup (IF domain \in Domains THEN Pack[domain] ELSE {})

---------------------------------------------------------------------------
(* showIf: a follow-up is visible when its parent was answered true         *)

CoreFollowUps ==
  [parent : {"Q-VENDORS"}, code : {"Q-DPA", "Q-VENDOR-INVENTORY"}]
    \cup [parent : {"Q-SDF"}, code : {"Q-DPO", "Q-DPIA", "Q-AUDIT"}]

PackFollowUps ==
  {[parent |-> "Q-AUTO-CONNECTED", code |-> "Q-AUTO-TELEMETRY-NOTICE"],
   [parent |-> "Q-AUTO-DEALER-CRM", code |-> "Q-AUTO-DEALER-DPA"],
   [parent |-> "Q-ECOM-SELLERS", code |-> "Q-ECOM-SELLER-DPA"],
   [parent |-> "Q-FOOD-WORKFORCE", code |-> "Q-FOOD-BIOMETRIC"],
   [parent |-> "Q-FOOD-QA-LABS", code |-> "Q-FOOD-QA-DPA"],
   [parent |-> "Q-HLTH-RESEARCH", code |-> "Q-HLTH-RESEARCH-CONSENT"],
   [parent |-> "Q-HTL-OTA", code |-> "Q-HTL-OTA-DPA"],
   [parent |-> "Q-SAAS-TRAINING-DATA", code |-> "Q-SAAS-TRAINING-OPT"],
   [parent |-> "Q-SPACE-PARTNERS", code |-> "Q-SPACE-PARTNER-DPA"]}

FollowUps == CoreFollowUps \cup PackFollowUps

ParentsOf(code) == {f.parent : f \in {g \in FollowUps : g.code = code}}

---------------------------------------------------------------------------
(* The templates of a compliance framework (framework/domain/templates.ts)  *)

\* requirementCodes of each control template.
Template ==
  [NOTICE |-> {"REQ-NOTICE-01"}, CONSENT |-> {"REQ-CONSENT-01", "REQ-CONSENT-02"},
   PURPOSE |-> {"REQ-PURPOSE-01"}, INVENTORY |-> {"REQ-INVENTORY-01"},
   SECURITY |-> {"REQ-SECURITY-01"}, RETENTION |-> {"REQ-RETENTION-01"},
   RIGHTS |-> {"REQ-RIGHTS-01"}, TRAINING |-> {"REQ-TRAINING-01"},
   CHILDREN |-> {"REQ-CHILDREN-01"}, PROCESSOR |-> {"REQ-PROCESSOR-01"},
   TRANSFER |-> {"REQ-TRANSFER-01"}, DPO |-> {"REQ-DPO-01"}, AUDIT |-> {"REQ-AUDIT-01"},
   DPIA |-> {"REQ-DPIA-01"}]

MaturityRank == [basic |-> 1, intermediate |-> 2, advanced |-> 3]
SensitivityRank == [low |-> 1, medium |-> 2, high |-> 3]

\* What a profile lacks that a template demands.
Unselected(profile) ==
  (IF profile.isSdf THEN {} ELSE {"DPO", "AUDIT", "DPIA"})
    \cup (IF profile.processorCount >= 1 THEN {} ELSE {"PROCESSOR"})
    \cup (IF MaturityRank[profile.maturity] >= 2 THEN {} ELSE {"TRAINING", "TRANSFER"})
    \cup (IF SensitivityRank[profile.sensitivity] >= 3 THEN {} ELSE {"TRANSFER"})
    \cup (IF /\ profile.industry \in {"education", "healthcare", "gaming", "social"}
             /\ SensitivityRank[profile.sensitivity] >= 2
          THEN {} ELSE {"CHILDREN"})

\* selectTemplatesForProfile
SelectTemplates(profile) == DOMAIN Template \ Unselected(profile)
=============================================================================
