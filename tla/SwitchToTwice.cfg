SPECIFICATION Spec
CONSTANTS
    Workers = {w1, w2}
    Caller = c
    Others = {}
    UseCaller = FALSE
    Fibers = {f1}
    Funcs = {g1}
    Pool = {p1}
    AnyThread = AnyThread
    Nil = Nil
    StoppingInit = {TRUE}
    AutoStopInit = {TRUE, FALSE}
    Pins = {AnyThread}
    SpawnPins = {AnyThread}
    SwitchTargets = {w1, w2}
    Waiting = {}
    Resubmit = FALSE
    MaxYields = 1
    MaxStarts = 1
INVARIANTS
    SwapInNotExec
\* The program ends once stop() has returned for the last time.
CHECK_DEADLOCK FALSE
