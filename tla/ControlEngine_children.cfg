\* Children's data, policy text and no CLI finding: ChildrenConsentIsPartial fails.
SPECIFICATION Spec
CONSTANT Controls = {"Notice", "BreachNotify"}
INVARIANT ChildrenConsentIsPartial
CHECK_DEADLOCK FALSE
