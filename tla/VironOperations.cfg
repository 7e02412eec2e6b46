CONSTANT Ops = {"op1"}
SPECIFICATION Spec
INVARIANTS
  StartedOnce
  StartedWithConsent
  OutcomeIsTrue
