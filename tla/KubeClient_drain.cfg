CONSTANTS
    Hosts = {h1, h2}
    Pods = {p1, p2}
    Named = {p1}
    Tolerant = {p2}
    ApiFaults = TRUE
    Deadline = TRUE
    MaxRuns = 2
SPECIFICATION FairSpec
INVARIANTS
    NoPodRuns
    Schedulable
PROPERTY
    DrainEnds
CHECK_DEADLOCK FALSE
