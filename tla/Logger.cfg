SPECIFICATION Spec
CONSTANTS
    Threads = {t1, t2}
    Setters = {s1, s2}
    Names = {"system", "http", "app"}
    Root = "root"
    AppNames = {"app"}
    Levels = {1, 3}
    Patterns = {"own"}
    BadPatterns = {"bad"}
    DefaultPattern = "default"
    Configs <- Distinct
    Daemon = FALSE
    MaxConfigs = 2
    MaxCalls = 2
    None = None
INVARIANTS
    EventKept
    FormatterPresent
    ConfigApplied
SYMMETRY
    LoggerSymmetry
