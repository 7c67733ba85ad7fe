\* Two goroutines of the daemon and a CLI process on a new or an existing home: operations in
\* flight together, failed calls, crashes and power losses.
SPECIFICATION Spec
CONSTANTS
    d1 = d1
    d2 = d2
    c1 = c1
    daemon = daemon
    cli = cli
    p1 = p1
    p2 = p2
    Threads = {d1, d2, c1}
    Procs = {daemon, cli}
    ProcOf <- Home
    Passwords = {p1, p2}
    FirstPassword = p1
    VaultAtStart = {TRUE, FALSE}
    MaxOps = 3
    MaxFaults = 1
    None = None
    Torn = Torn
SYMMETRY Daemons
INVARIANTS AckDurable KeyMatchesData ForgetHolds
