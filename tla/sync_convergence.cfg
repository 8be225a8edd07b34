SPECIFICATION FairSpec
CONSTANTS
  None = None
  Replicas <- Two
  Refs <- Main
  Own <- Plans
  Blobs <- Contents
  Needs <- Order
  Policy <- Adopted
  MaxCrashes = 1
CHECK_DEADLOCK FALSE
INVARIANTS SealedOnce ReceivedMeansTheSame
 
