SPECIFICATION Spec
CONSTANTS
    Proc = {p1, p2}
    MaxVersion = 2
    MaxTime = 1
    MaxCrash = 1
    MetadataExpire = 0
    CheckConfigFileAge = FALSE
    UseMetalink = TRUE
    RepoGpgCheck = FALSE
    Strategies = {"TRY_CACHE"}
SYMMETRY ProcSymmetry
PROPERTY ReplacementAtHand
