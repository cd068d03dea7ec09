SPECIFICATION LoadersSpec
CONSTANTS
    NumRepos = 4
    SkipIfUnavailable = {1, 3}
    RepoFiles <- TwoRepoFiles
    RhsmFile = "redhat"
    Versions = {1, 2, 9}
    Broken = 9
    RhsmVersion = 5
    PluginSeq <- TwoPlugins
    PluginsDisabled = {"p"}
    PluginsEnabled = {}
    MaxEdits = 2
    MaxSetups = 2
    MaxSacks = 2
    RepoFileIds <- FileIds
    Mounts <- TwoMounts
    KeyfileOf <- Keyfiles
    DataEdits <- KeyEdits
    RuntimeSets <- OptionSets
    TimeExprs <- Times
    RedhatRepo = {}
    MaxUint = 1000000
    ContextProxy = "unset"
    MaxConfEdits = 2
INVARIANTS LoaderContract LoaderFresh CheckedIsFresh
PROPERTIES ThreadsCallEnds LoaderSettles
CHECK_DEADLOCK FALSE
