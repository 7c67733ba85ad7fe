\* Two ids and two commands, one job at a time, a crash or a loss of power.
SPECIFICATION FairSpec
CONSTANTS
    j1 = j1
    j2 = j2
    c1 = c1
    c2 = c2
    Ids = {j1, j2}
    Commands = {c1, c2}
    None = None
    MaxActive = 1
    MaxCrashes = 1
INVARIANTS LaunchOnce FinalIsDurable
PROPERTY StopEnds
