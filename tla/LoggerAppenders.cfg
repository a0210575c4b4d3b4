SPECIFICATION Spec
CONSTANTS
    Threads = {t1}
    Setters = {s1}
    Names = {"system", "http"}
    Root = "root"
    AppNames = {}
    Levels = {1, 3}
    Patterns = {"own"}
    BadPatterns = {"bad"}
    DefaultPattern = "default"
    Configs <- AppendersOnly
    Daemon = FALSE
    MaxConfigs = 2
    MaxCalls = 0
    None = None
INVARIANTS
    ConfigApplied
