\* Two commands racing on two names that differ only in case.
CONSTANTS
    Proc = {p1, p2}
    Ref = {main, Main}
    Key = {k1}
    Target = {t1, t2}
    MaxSeq = 2
    MaxCrashes = 1
    Free = Free
    Stale = Stale
    Anon = Anon
    RefState <- MCRefState
    NoState <- MCNoState
    Prev <- MCPrev
    Fold <- CollidingFold
SYMMETRY Symmetric
SPECIFICATION Spec
INVARIANTS LogIsAChain NoCaseCollision PointerLeadsByAtMostOne AckedIsLogged
PROPERTIES NoLostUpdate RepairSparesLeads ImplementsRegister
