SPECIFICATION Spec
CONSTANTS
    Proc = {p1}
    MaxVersion = 2
    Exts <- TwoExts
    Offered = {"FILENAMES"}
    BuildCache = TRUE
    ParseErrors = TRUE
    OneRefresher = FALSE
    LoadTwice = FALSE
INVARIANT ProvidesFresh
