\* Every kind of command in three processes; three requests under one id share a
\* client, a reference, both or neither.
SPECIFICATION AccessSpec
CONSTANTS
    w1 = w1
    w2 = w2
    w3 = w3
    i1 = i1
    q1 = q1
    a1 = a1
    a2 = a2
    r1 = r1
    r2 = r2
    Workers = {w1, w2, w3}
    Process <- OwnProcess
    Items = {i1}
    NoItem = NoItem
    Policy <- AutoPolicy
    Ops = {"env", "new", "revokeLease", "revokeItem", "revokeAll",
           "grantPlain", "plain", "grantMut", "mut"}
    LeaseScopes = {"once", "session"}
    SecretScopes = {"none"}
    ConvScopes = {"window"}
    Turns = 1
    Faults = 0
    Revealers = {w1, w2, w3}
    RequestIds = {q1}
    Actors = {a1, a2}
    Refs = {r1, r2}
    NoOne = NoOne
    RateLimit = 1
    RateWindow = 2
    RevealTTL = 2
    Lag = 1
    RevealUntil = 3
SYMMETRY Symmetry
INVARIANTS RevokedLeaseIsBarren AuditedAndOwn RevealedOnce
CHECK_DEADLOCK FALSE
