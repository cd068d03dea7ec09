SPECIFICATION Spec
CONSTANTS
    Proc = {p1}
    MaxVersion = 3
    MaxTime = 3
    MaxCrash = 2
    MetadataExpire = 1
    CheckConfigFileAge = TRUE
    UseMetalink = FALSE
    RepoGpgCheck = TRUE
    Strategies = {"LAZY", "ONLY_CACHE", "TRY_CACHE"}
INVARIANT TrueMeansCurrent
