SPECIFICATION MCSpec
CONSTANTS
    Children = {c1, c2, c3}
    Callers = {r1}
    Main = main
    SchedFiber = r1
    Reused = {c1, c2}
    Nested = FALSE
    Fresh = Fresh
    Ended = Ended
    None = None
    Sched = {s1, s2}
    Owned = {o1, o2}
    MayFail = TRUE
    Guards = {g1, g2, g3}
    Mutexes = {mutex}
    RWMutexes = {rwmutex}
    FSThreads = {"t1", "t2"}
    FSCalls <- MCCalls
    Paths <- MCPaths
    Trees <- MCTrees
    Refused = {}
    Keys = {"c", "d"}
    Words = {"w"}
    Empty = "empty"
    MaxArgs = 4
    MaxHelps = 2
INVARIANTS
    ThisRuns
    ContextKept
    SwitchesSound
    Handshake
    Exclusion
    MkdirMade
    RmTruthful
    MvKeeps
    ArgsExact
PROPERTIES
    StartReturns
    JoinReturns
    OpenedInTheEnd
\* The application ends.
CHECK_DEADLOCK FALSE
