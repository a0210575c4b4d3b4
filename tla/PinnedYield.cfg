SPECIFICATION Spec
CONSTANTS
    Workers = {w1, w2}
    Caller = c
    Others = {}
    UseCaller = FALSE
    Fibers = {f1}
    Funcs = {g1}
    Pool = {p1, p2}
    AnyThread = AnyThread
    Nil = Nil
    StoppingInit = {TRUE}
    AutoStopInit = {FALSE}
    Pins = {AnyThread, w1}
    SpawnPins = {AnyThread}
    SwitchTargets = {}
    Waiting = {}
    Resubmit = FALSE
    MaxYields = 1
    MaxStarts = 1
INVARIANT
    PinHonoured
\* The program ends once stop() has returned for the last time.
CHECK_DEADLOCK FALSE
