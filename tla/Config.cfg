SPECIFICATION Spec
CONSTANTS
    Loaders = {t1, t2}
    Files = {"f1", "f2"}
    Names <- MCNames
    CharsOf <- MCChars
    Documents <- MCDocuments
    Start <- MCStart
    Broken = Broken
    Gone = Gone
    Unconvertible = Unconvertible
    Default = "0"
    Early = {"tcp.port", "fiber.size"}
    Late = {"log.level"}
    SameSecond = TRUE
    Epoch = 1
    Garbage = {1, 2}
    MaxEdits = 2
    MaxLoads = 2
    None = None
INVARIANTS
    LoadedOnReturn
    CacheFresh
SYMMETRY
    LoaderSymmetry
\* The loaders and the editor stop when every bound is used up.
CHECK_DEADLOCK FALSE
