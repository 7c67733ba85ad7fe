\* A lock while another command of the same process is under way.
SPECIFICATION Spec
CONSTANTS
    w1 = w1
    w2 = w2
    w3 = w3
    i1 = i1
    Workers = {w1, w2}
    Process <- OneProcess
    Items = {i1}
    NoItem = NoItem
    Policy <- SessionPolicy
    Ops = {"batch", "revokeAll"}
    LeaseScopes = {"session"}
    SecretScopes = {"session"}
    ConvScopes = {"once"}
    Turns = 2
    Faults = 0
PROPERTIES RevocationFinal
CHECK_DEADLOCK FALSE
