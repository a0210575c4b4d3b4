SPECIFICATION FairSpec
CONSTANTS
    Workers = {w1}
    Caller = c
    Others = {}
    UseCaller = TRUE
    Fibers = {f1}
    Funcs = {g1}
    Pool = {p1}
    AnyThread = AnyThread
    Nil = Nil
    StoppingInit = {TRUE}
    AutoStopInit = {FALSE}
    Pins = {AnyThread, c}
    SpawnPins = {AnyThread}
    SwitchTargets = {}
    Waiting = {}
    Resubmit = FALSE
    MaxYields = 2
    MaxStarts = 1
PROPERTIES
    StopReturns
    StopDrains
    EveryTaskRuns
\* The program ends once stop() has returned for the last time.
CHECK_DEADLOCK FALSE
