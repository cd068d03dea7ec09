SPECIFICATION Spec
CONSTANTS
    Proc = {p1, p2}
    MaxVersion = 2
    Exts <- ExtsInOrder
    Offered = {"FILENAMES", "UPDATEINFO"}
    BuildCache = TRUE
    ParseErrors = FALSE
    OneRefresher = TRUE
    LoadTwice = FALSE
SYMMETRY ProcSymmetry
INVARIANTS SolvFilesHonest PoolIsOneVersion
