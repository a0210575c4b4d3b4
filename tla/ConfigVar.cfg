SPECIFICATION FairSpec
CONSTANTS
    Vars = {x}
    Values = {a, b}
    Default = a
    Setters = {t1, t2}
    Adders = {t3, t5}
    Clearers = {t4}
    Listeners = {l1, l2, l3}
    Removing = {l3}
    Throwing = TRUE
    MaxSets = 3
    None = None
INVARIANTS
    ToldAll
    IdsUnique
PROPERTIES
    IterationStable
    SetReturns
\* The threads stop when every bound is used up.
CHECK_DEADLOCK FALSE
