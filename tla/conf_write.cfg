SPECIFICATION Spec
CONSTANTS
    Slot = {s1, s2, s3}
    Guard = {g1, g2}
    Cell = {c1, c2, c3, c4}
    Null = Null
    ptr_owner = TRUE
    AssignInUse = FALSE
    SelfCopy = FALSE
    Message = {m1, m2}
    Reader = {r1, r2}
    max_items = 2
    MaxKept = 0
    ClearRaces = FALSE
    Proc = {p1}
    COUNTME_WINDOW = 3
    COUNTME_OFFSET = 2
    COUNTME_BUDGET = 3
    COUNTME_BUCKETS <- ShortBuckets
    MaxTime = 11
    ByteBits = 2
    MapNames = {n1, n2}
    PoolSizes = {3, 5}
    ListNames = {l1, l2}
    DepStrings = {"a"}
    BadDeps = {"x"}
    GlobDeps <- TwoDepsGlob
    PkgDeps <- MarkedRequires
    Evrs <- ManyEvrs
    MaxListLen = 3
    MaxMapOps = 4
    CsItems <- TwoItems
    CsAttr <- ItemAttr
    CsLower <- ItemLower
    CsGlob <- ItemGlob
    CsFilters <- ItemFilters
    CsQueries = {"q1", "q2"}
    MaxCsOps = 5
    RhConfs <- HandleConfs
    LogThreads = {t1, t2}
    MaxRhSteps = 5
    MaxHandlers = 3
    SqTable <- QueryPkgs
    SqRepoPkgs <- QueryRepos
    SqIdOf <- QueryIds
    SqQueries = {q1, q2}
    SqCalls <- QueryCalls
    SqSpecs <- QuerySpecs
    SqBlock = 4
    FailuresMove = FALSE
    MaxSqOps = 4
    CpFiles <- WholeFiles
    CpSections = {"m", "r"}
    CpKeys = {"a", "b"}
    CpValues <- PlainValues
    CpUnquoted <- IniUnquoted
    CpFirst <- IniFirst
    MaxCpEdits = 2
    ConfTable <- OptionTable
    RepoOptions = {"name", "r_skip", "r_retries"}
    ConfBinds <- OptionBinds
    ConfTexts <- OptionTexts
    ConfFiles <- MainAndRepoFiles
    ConfVarDirs <- VarDirs
    ConfGlobs <- IdGlobs
    BadIds = {"r#"}
    UintRange = 16
    MaxConfSteps = 3
    MaxRepos = 3
    Interactive = TRUE
    TsPkgs = {"A1", "A2", "B1"}
    TsName <- TsNames
    TsVersion <- TsVersions
    TsInstalled = {"A1"}
    Amounts = {1}
    TsTotal = 2
    NoPkg = "nopkg"
    Argvs <- CommandLines
    SetoptKinds <- SetoptNames
    Matching <- SpecMatches
    Root = FALSE
    RepoPkgs = {"A1", "A2", "B1"}
SYMMETRY LibdnfSymmetry
PROPERTIES AllDataWritten
CHECK_DEADLOCK FALSE
