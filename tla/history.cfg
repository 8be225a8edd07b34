SPECIFICATION Spec
CONSTANTS
  Branches = {m, t}
  Paths = {a, b}
SYMMETRY Interchangeable
CHECK_DEADLOCK FALSE
INVARIANTS  ActedOnWhatWasShown DerivationsAgree 
