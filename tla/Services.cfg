\* Every service in turn, each with faults of its own.
SPECIFICATION ServicesSpec
CONSTANTS
    Focus = {"auth", "output", "door", "backup", "redactor", "runner",
             "audit", "tools"}
    h1 = h1
    h2 = h2
    n1 = n1
    n2 = n2
    Handlers = {h1, h2}
    Nonces = {n1, n2}
    Skew = 1
    TTL = 3
    MaxDelay = 1
    MaxTime = 5
    None = None
    Limit = 3
    MaxChunk = 4
    MaxBytes = 9
    Validity = {TRUE}
    Callers = {h1}
    Doormen = {v1, v2}
    GuessWindow = 1
    GuessLimit = 2
    MaxNow = 2
    MaxRequests = 4
    Passwords = {"p", "q"}
    u1 = u1
    u2 = u2
    u3 = u3
    v1 = v1
    v2 = v2
    Exporters = {v1, v2}
    BackupPaths = {u1, u2, u3}
    Passphrases = {"pp"}
    SigningKey = "k"
    TrustRoots = {"k"}
    Keep = 1
    Period = 1
    MaxClock = 2
    MaxBegun = 2
    MaxTroubles = 1
    Secrets <- mcSecrets
    MinRedactLen = 2
    Alphabet <- mcAlphabet
    MaxInput <- mcMaxInput
    Runners = {v1, v2}
    Threshold = 2
    Output = 2
    MaxHours = 4
    MaxDeaths = 1
    d1 = d1
    c1 = c1
    k1 = k1
    k2 = k2
    r1 = r1
    Daemons = {d1}
    Clis = {c1}
    Keys = {k1, k2}
    VaultKey = k1
    Dirs = {r1}
    Cuts = {"none", "part"}
    MaxEvents = 3
    MaxFaults = 2
    NoValue = NoValue
    Connections = {v1, v2}
    Roots = {"p", "q"}
    Tools <- mcTools
    WritesEnabled = FALSE
    MaxTokens = 3
    MaxCalls = 2
    Tokenless = Tokenless
SYMMETRY Symmetry
CHECK_DEADLOCK FALSE
INVARIANTS   GuessesBounded BackupsServe
     CommandServed 
    StaleTokensReplaced
