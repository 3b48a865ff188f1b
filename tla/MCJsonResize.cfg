SPECIFICATION MCSpec
CONSTANTS
  Blank = Blank
CHECK_DEADLOCK FALSE
INVARIANTS ResizeAssertion
