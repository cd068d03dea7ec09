SPECIFICATION Spec
CONSTANTS
    Procs = {p1, p2}
    Threads = {t1}
    LockTypes = {"rpmdb", "metadata"}
    NoProc = NoProc
    RefModulus = 16
    Goals <- TwoGoals
    NameOf <- TxNames
    VersionOf <- TxVersions
    InitialDb = {"A1", "C1", "E1"}
    LocalPkgs = {"B1"}
    UnsignedPkgs = {"B1"}
    GpgCheck = TRUE
    OnlyTrusted = FALSE
    TestRuns = {FALSE, TRUE}
    KeepCache = FALSE
    MaxRuns <- OneRunsTwice
    TxThread = t1
    Kinds = {"REMOTE", "LOCAL", "MEDIA"}
    Updaters = {p1}
    Cleaners = {p2}
    Stamps = {1, 2}
    UpdateFlags = {{}, {"SIMULATE"}}
    HasKeys = TRUE
    RepoRequired = FALSE
    MaxUpdates = 2
    RepoThread = t1
    HistIds = {"a"}
    HistName <- NamedAfterIds
    Evrs3 <- TwoEvrs
    GroupIds = {"g"}
    EnvIds = {"e"}
    MemberSets <- GroupMembers
    OldHistory <- OneOldTransaction
    OldGroups <- OneOldGroup
    OldRpmdb <- OneInstalled
    OldReasons <- OneDependency
    NoEvr = NoEvr
    MaxTrans = 3
    MaxItems = 2
    ModNames = {"m", "n"}
    ModCatalogs <- Catalogs
    ModDefaults <- DefaultStreams
    ModRpms <- StreamRpms
    HotfixRepos = {"h"}
    ModProfiles = {1}
    ModOldFiles <- OldModuleFiles
    StreamPrefixes <- OneBeginsOther
    DashedStreams = {}
    PlatformInputs <- Platforms
    MaxModSteps = 3
INVARIANTS
    WriteAhead HistoryIsTrue NoRollback
    HistoryRemembers MergeEndsAtRpmdb
    SaveIsFaithful ActiveRespectsSettings
PROPERTIES FailSafeOutlivesStream
CHECK_DEADLOCK FALSE
