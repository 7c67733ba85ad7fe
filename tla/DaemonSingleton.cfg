\* Two daemons, two clients, a stop and a crash.
SPECIFICATION Spec
CONSTANTS
    d1 = d1
    d2 = d2
    c1 = c1
    c2 = c2
    s1 = s1
    Daemons = {d1, d2}
    Clients = {c1, c2}
    Stoppers = {s1}
    NoFile = NoFile
    Crashes = 1
INVARIANT ListenerHoldsLock
PROPERTIES FilesLeadToServer StrandedLeaves
CHECK_DEADLOCK FALSE
