SPECIFICATION Spec
CONSTANTS
    Proc = {p1}
    MaxVersion = 2
    MaxTime = 2
    MaxCrash = 0
    MetadataExpire = 0
    CheckConfigFileAge = FALSE
    UseMetalink = FALSE
    RepoGpgCheck = TRUE
    Strategies = {"ONLY_CACHE"}
PROPERTY OnlyCacheNeverDownloads
