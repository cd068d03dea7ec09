SPECIFICATION FairSpec
CONSTANTS
    Proc = {p1}
    MaxVersion = 2
    MaxTime = 3
    MaxCrash = 2
    MetadataExpire = 1
    CheckConfigFileAge = TRUE
    UseMetalink = TRUE
    RepoGpgCheck = FALSE
    Strategies = {"TRY_CACHE"}
PROPERTIES CacheRecovers ExpireIsHonoured
