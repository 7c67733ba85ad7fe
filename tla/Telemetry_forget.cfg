\* Telemetry alone: what docs/telemetry.md says of a forget.
SPECIFICATION CommandsSpec
CONSTANTS
    Focus = {"telemetry"}
    t1 = t1
    c1 = c1
    v1 = v1
    v2 = v2
    Tokens = {t1}
    Pids = {1, 2}
    Consumers = {c1}
    Leases = {}
    NoConsumer = NoConsumer
    NoLease = NoLease
    NoToken = NoToken
    Lineages <- ParentAndChild
    TTLs = {0}
    DefaultTTL = 2
    IdleTTL = 1
    MaxTime = 2
    MaxGen = 2
    Editors = {v1, v2}
    Names = {"a"}
    Contents = {"v"}
    Projects = {"root", "sub"}
    Toplevel = "root"
    Neutral = {1}
    Given = {10}
    Manifest <- mcManifest
    MaxSaves = 2
    AutoProtect = TRUE
    NoPath = NoPath
    Workers = {v1, v2}
    Manifests <- mcManifests
    NamedRefs <- mcNamed
    Dangerous = {"PATH"}
    Outside = {".."}
    Added = "n"
    AddedRef = "@N"
    Aliases <- mcAliases
    FirstFiles <- mcFiles
    MaxStarts = 2
    MaxCommits = 1
    Unset = Unset
    Clients <- mcClients
    FirstConfigs <- mcConfigs
    Headers = {"[x]", "[y]"}
    ClientAdds <- mcAdds
    Squatted = {"hermes"}
    OwnEnv <- mcEnv
    ProjectOf <- mcProjectOf
    MaxCommands = 2
    MaxClientSaves = 1
    MaxFailures = 1
    Wishes <- mcWishes
    VaultItems <- mcItems
    AliasOf <- mcAliasOf
    Reviewed <- mcReviewed
    FirstRC <- mcRC
    MaxAppCommands = 4
    MaxAppFailures = 2
    SecretItems <- mcSecretItems
    FileContents <- mcContents
    Notes <- mcNotes
    ServerOf <- mcServerOf
    MaxFileBytes = 2
    ChunkSize = 2
    MaxCommitted = 2
    MaxGates = 2
    MaxMoves = 2
    NoContents = NoContents
    OwnScripts = {"a", "b"}
    HooksPaths = {"", "in", "out"}
    PathLeads <- mcPathLeads
    MaxInstalls = 3
    MaxUserEdits = 1
    Processes = {v1, v2}
    DaysPerYear = 2
    ErasureTTL = 3
    NoStateFile = NoStateFile
    TornState = TornState
    MaxDay = 2
    MaxRuns = 4
    MaxLost = 1
    Upgraders = {v1, v2}
    Releases <- mcReleases
    Asked <- mcAsked
    FirstRelease <- mcFirst
    Precedence <- mcPrecedence
    MaxUpgrades = 4
    MaxBadDownloads = 1
SYMMETRY Symmetry
CHECK_DEADLOCK FALSE
INVARIANT ForgottenIsErased
