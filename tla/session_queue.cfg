\* Two users on two branches, one crash anywhere, sound media.
CONSTANTS
    Proc = {p1, p2}
    Ref = {main, dev, torn}
    TornName = torn
    Key = {k1}
    Patches = 2
    MaxQueue = 2
    MaxSeq = 3
    MaxCrashes = 1
    MaxFaults = 0
    Free = Free
    Stale = Stale
    Anon = Anon
    Patch <- MCPatch
    RefState <- MCRefState
    NoState <- MCNoState
    Prev <- MCPrev
    BlockOf <- MCBlockOf
    Chain <- MCChain
    History <- MCHistory
    Fold <- MCFold
SYMMETRY Symmetric
SPECIFICATION SessionSpec
PROPERTY ImplementsCommitQueue
