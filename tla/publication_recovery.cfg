\* One user, repeated crashes, two keys: every lead can be and is completed.
CONSTANTS
    Proc = {p1}
    Ref = {main}
    Key = {k1, k2}
    Target = {t1}
    MaxSeq = 2
    MaxCrashes = 3
    Free = Free
    Stale = Stale
    Anon = Anon
    RefState <- MCRefState
    NoState <- MCNoState
    Prev <- MCPrev
    Fold <- DistinctFold
SPECIFICATION FairSpec
INVARIANTS LeadIsRecoverable
PROPERTIES LeadsAreCompleted
