CONSTANTS
  Keys = {n1, n2}
  Values = {m1, m2}
  Writers = {n1, n2}
  Readers = {r1}
  Signers = {m1, m2}
SYMMETRY Alike
SPECIFICATION Spec
CHECK_DEADLOCK FALSE
INVARIANTS SilenceMeansPrefix RecordsDamageAndTailsAreToldApart  ReaderSeesATruth  AcknowledgedIsKeptUnlessOvertaken
PROPERTIES DeducedChoiceIsUndoable RestoreUndoes
