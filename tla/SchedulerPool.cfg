SPECIFICATION Spec
CONSTANTS
    Workers = {w1, w2}
    Caller = c
    Others = {}
    UseCaller = FALSE
    Fibers = {f1}
    Funcs = {g1, g2}
    Pool = {p1, p2}
    AnyThread = AnyThread
    Nil = Nil
    StoppingInit = {TRUE}
    AutoStopInit = {FALSE}
    Pins = {AnyThread}
    SpawnPins = {AnyThread}
    SwitchTargets = {}
    Waiting = {f1, g1}
    Resubmit = FALSE
    MaxYields = 1
    MaxStarts = 1
SYMMETRY PoolSymmetry
INVARIANTS
    TypeOK
    SwapInPre
    FiberAsserts
    CountsExact
    NoTaskLost
    RunOnce
    Ownership
PROPERTIES
    LastExitDrains
    ImplementsPool
\* The program ends once stop() has returned for the last time.
CHECK_DEADLOCK FALSE
