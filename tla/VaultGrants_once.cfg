\* Commands of one process race for once grants, over two turns; the marks of the audit log.
SPECIFICATION FocusSpec
CONSTANTS
    w1 = w1
    w2 = w2
    w3 = w3
    i1 = i1
    Workers = {w1, w2}
    Process <- OneProcess
    Items = {i1}
    NoItem = NoItem
    Policy <- SessionPolicy
    Ops = {"batch", "single", "env"}
    LeaseScopes = {"once"}
    SecretScopes = {"once"}
    ConvScopes = {"once"}
    Turns = 2
    Faults = 1
    Reporters = {w1, w2}
PROPERTIES OnceMeansOnce CommandsEnd FailureSurfaces
CHECK_DEADLOCK FALSE
