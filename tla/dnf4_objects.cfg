SPECIFICATION Spec
CONSTANTS
    Procs = {p1}
    Threads = {t1}
    LockTypes = {"rpmdb"}
    NoProc = NoProc
    RefModulus = 16
    Depth = 2
    StepCounts = {2}
    StepShares <- Shares
    LeafPercents = {50}
    Actions = {"A"}
    ActionLevels = {2}
    StateProc = p1
    StateThread = t1
    MaxTakes = 1
    SackRepos = {"system", "a", "cmdline"}
    PackagesOf <- SackPackages
    SystemRepo = "system"
    CmdlineRepo = "cmdline"
    PkgName <- OneName
    RepoIncludes <- IncludedInA
    RepoExcludes <- NoExcludes
    MainIncludes = {}
    MainExcludes = {1}
    DisableExcludes = {}
    PkgSets = {{"a1"}}
    MaxMapEdits = 2
    Queries = {q1, q2}
    PkgArch <- SackArch
    PkgEvr <- SackEvr
    PkgEvrId <- SackEvrId
    PkgBuilt <- SackBuilt
    PkgObsoletes <- SackObsoletes
    RepoPriority <- Priorities
    Noarch = 9
    Filters <- QueryFilters
    ExcludeFlags = {{}}
    MaxFilters = 2
    GoalTable <- KernelsAndProtected
    RunningKernel = "k1"
    NoKernel = NoKernel
    InstallonlyProvides = {"k", "only"}
    InstallonlyLimit = 2
    AskedPkgs = {"k1"}
    ProtectedPkgs = {"b1"}
    SelectorCalls <- Selectors
    RunFlags = {{}, {"ALLOW_UNINSTALL", "IGNORE_WEAK"}}
    MaxJobs = 2
    MaxRuns = 2
    ScProcs = {s1}
    ScRepos <- OneRepo
    ScSystem = "system"
    ScMetadataOnly = {}
    ScRequired = {}
    ScUnavailable = FALSE
    ScExts <- OneExt
    ScOffered = {"filelists"}
    ScBuildCache = TRUE
    StatMoves = TRUE
    MaxScVersion = 3
    RrPkg <- RpmPkgs
    RrRepo <- RpmRepos
    SystemKeys <- KeysOfSystem
    RepoKeys <- KeysOfRepo
    ModuleIncludes = {"foo2"}
    RrGoals <- RpmGoals
    Signatures = {"k1", "k2", "unsigned"}
    MaxCommits = 2
    MaxSpoils = 1
    AdvSeq <- Advisories
    AdvPackages <- AdvisedPkgs
    AdvVersion <- VersionOrder
    AdvFilters <- AdvisoryFilters
    AdvStreams = {"m1", "m2"}
    NoContainer = FALSE
SYMMETRY ObjectsSymmetry
INVARIANTS
    RefcountBalanced StepWindow ConsideredFresh QueryIsExact RunKeepsPromises
    BinaryIsHonest ElementsAreVerified CallbacksBalance AdvisoriesAgree
CHECK_DEADLOCK FALSE
