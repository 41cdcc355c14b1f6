\* Three launchers, two of them with one pid; any of them can fail or be killed.
CONSTANTS
    l1 = l1
    l2 = l2
    l3 = l3
    p1 = p1
    p2 = p2
    Launchers = {l1, l2, l3}
    Pids = {p1, p2}
    PidOf <- TwoPids
    Size = 2
    NoFile = NoFile
    NoOne = NoOne
SPECIFICATION FairSpec
INVARIANTS TypeOK Intact
PROPERTIES ExtractedOnce Served Implements
CHECK_DEADLOCK FALSE
