SPECIFICATION Spec
CONSTANTS
    Workers = {}
    Caller = c
    Others = {o}
    UseCaller = TRUE
    Fibers = {f1}
    Funcs = {g1, g2}
    Pool = {p1, p2}
    AnyThread = AnyThread
    Nil = Nil
    StoppingInit = {TRUE, FALSE}
    AutoStopInit = {TRUE, FALSE}
    Pins = {AnyThread}
    SpawnPins = {AnyThread}
    SwitchTargets = {o, c}
    Waiting = {f1, g1}
    Resubmit = TRUE
    MaxYields = 2
    MaxStarts = 2
INVARIANTS
    NoTaskLost
\* The program ends once stop() has returned for the last time.
CHECK_DEADLOCK FALSE
