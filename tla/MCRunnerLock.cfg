CONSTANTS
    r1 = r1  r2 = r2
    p1 = p1  p2 = p2
    NoRunner = NoRunner
    NoPid = NoPid
    Runner = {r1, r2}
    Pid = {p1, p2}
    PidOf <- TwoProcesses
    Run = {x1}
    MaxLoopErrors = 1
SPECIFICATION FairSpec
INVARIANTS SoleTicker BodyUnderLock 
PROPERTIES OwnershipSettles DataDirIsTicked
CHECK_DEADLOCK FALSE
