SPECIFICATION MCSpec
CONSTANTS
    Patterns <- AllPatterns
    Letters = {"m", "x"}
    Items = {"m"}
    MaxLen = 6
    Thrown = Thrown
    CastKinds = {"scalar", "vector", "set", "map"}
    Scalars = {"0", "1", "01", "x"}
    ElementOf <- MCElementOf
    MapKeys = {"a", "b"}
    MaxItems = 3
    LogNames = {"root", "system", "app"}
    LogDocs <- MCLogDocs
    BadFormats = {"bad"}
    DefaultFormat = "default"
    OwnFormat = "own"
    MaxChanges = 1
    Threads = {t1, t2}
    Full = TRUE
    Start = 3
    MaxTime = 8
    MaxTroubles = 2
    None = None
    NoFile = NoFile
INVARIANTS
    ErrorExact
    ItemsFaithful
    TextStable
    DumpRestores
    NotAstray
    Recovered
\* The parser, the dump and the clock come to an end.
CHECK_DEADLOCK FALSE
