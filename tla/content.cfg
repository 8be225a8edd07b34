SPECIFICATION ContentSpec
CONSTANTS
  Samples <- SomePayloads
  Signatures <- SomeSignatures
  MaxEdits = 1
  NoRef = NoRef
  m = m
  Branches = {m, t}
SYMMETRY Interchangeable
CHECK_DEADLOCK FALSE
INVARIANTS PayloadsAreExact SpansAreExact 
PROPERTIES WorkIsNotLost
