\* One user on two branches, more commits than the queue holds, one crash anywhere.
CONSTANTS
    Proc = {p1}
    Ref = {main, dev, torn}
    TornName = torn
    Key = {k1}
    Patches = 3
    MaxQueue = 2
    MaxSeq = 3
    MaxCrashes = 1
    MaxFaults = 0
    Free = Free
    Stale = Stale
    Anon = Anon
    Patch <- MCPatch
    RefState <- MCRefState
    NoState <- MCNoState
    Prev <- MCPrev
    BlockOf <- MCBlockOf
    Chain <- MCChain
    History <- MCHistory
    Fold <- MCFold
SPECIFICATION FairSessionSpec
PROPERTY CommitsGetSealed
