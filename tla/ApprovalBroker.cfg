\* Two decisions on one approval while the vault is locked, and approvals,
\* sessions and leases run out.
SPECIFICATION BrokerSpec
CONSTANTS
    t1 = t1
    t2 = t2
    t3 = t3
    a1 = a1
    d1 = d1
    d2 = d2
    c1 = c1
    Tokens = {t1, t2, t3}
    Pids = {}
    Consumers = {c1}
    Leases = {a1}
    Deciders = {d1, d2}
    NoConsumer = NoConsumer
    NoLease = NoLease
    NoToken = NoToken
    Lineages <- NoProcess
    TTLs = {0}
    DefaultTTL = 1
    IdleTTL = 0
    ApprovalTTL = 1
    MaxTime = 2
    MaxGen = 1
SYMMETRY Symmetry
INVARIANTS LockedHasNoLiveSession LeaseIffGranted
PROPERTY DecisionsFinal
CHECK_DEADLOCK FALSE
