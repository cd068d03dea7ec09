SPECIFICATION Spec
CONSTANTS
    Proc = {p1}
    MaxVersion = 2
    Exts <- TwoExts
    Offered = {"FILENAMES", "UPDATEINFO"}
    BuildCache = TRUE
    ParseErrors = TRUE
    OneRefresher = TRUE
    LoadTwice = FALSE
INVARIANT WriteExtHasRepodata
