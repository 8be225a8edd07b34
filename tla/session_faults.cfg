\* One user with two keys on two branches, two crashes, one media fault.
CONSTANTS
    Proc = {p1}
    Ref = {main, dev, torn}
    TornName = torn
    Key = {k1, k2}
    Patches = 2
    MaxQueue = 2
    MaxSeq = 3
    MaxCrashes = 2
    MaxFaults = 1
    Free = Free
    Stale = Stale
    Anon = Anon
    Patch <- MCPatch
    RefState <- MCRefState
    NoState <- MCNoState
    Prev <- MCPrev
    BlockOf <- MCBlockOf
    Chain <- MCChain
    History <- MCHistory
    Fold <- MCFold
SYMMETRY Symmetric
SPECIFICATION SessionSpec
INVARIANTS  PublishedOnce UndrainedIsRetriable
