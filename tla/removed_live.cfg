SPECIFICATION FreshSpec
CONSTANTS
  Samples <- SomePayloads
  Signatures <- SomeSignatures
  MaxEdits = 1
  NoRef = NoRef
  m = m
  Branches = {m, t}
CHECK_DEADLOCK FALSE
PROPERTIES RemovesOnlyTheDeleted
