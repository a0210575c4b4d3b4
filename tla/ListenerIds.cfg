SPECIFICATION Spec
CONSTANTS
    Vars = {x, y}
    Values = {a, b}
    Default = a
    Setters = {}
    Adders = {t1, t2}
    Clearers = {}
    Listeners = {l1, l2}
    Removing = {}
    Throwing = FALSE
    MaxSets = 0
    None = None
INVARIANTS
    IdsUnique
CHECK_DEADLOCK FALSE
