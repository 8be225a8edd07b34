SPECIFICATION Spec
CONSTANTS
  None = None
  Procs = {p, q}
SYMMETRY Interchangeable
CHECK_DEADLOCK FALSE
   
PROPERTIES  ReceivedNeverMovesBack
