CONSTANTS
  Base = 8
  WordBytes = 2
  Poly = 48
  Messages <- MCMessages
  Foreign <- MCForeign
  Alterations <- MCAlterations
SPECIFICATION Spec
CHECK_DEADLOCK FALSE
INVARIANTS TypeOK RoundTrip ParsesExactly DamageNoticed
