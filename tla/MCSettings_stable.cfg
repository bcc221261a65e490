SPECIFICATION Spec
CONSTANTS
  Kinds = {"stable"}
  Calls = {c1, c2, c3}
  Values = {none, a, b}
  EmptyValue = none
  MaxClock = 1
  Faults = {}
SYMMETRY CallSymmetry
PROPERTIES ConfirmsPending
CHECK_DEADLOCK FALSE
