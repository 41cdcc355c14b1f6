\* Three generations of tracees and one SIGKILL.
CONSTANTS
    r = r
    c1 = c1
    c2 = c2
    cmd = cmd
    lib = lib
    noPath = noPath
    noProc = noProc
    Procs = {r, c1, c2}
    Root = r
    Paths = {cmd, lib}
    Command = cmd
    NoPath = noPath
    NoProc = noProc
    BadPaths = {}
    Kinds = {"probe", "fork"}
    ExitCodes = {"0"}
    MaxCalls = 1
    MaxKills = 1
    MaxSignals = 0
SPECIFICATION Spec
INVARIANTS ReportSound CompleteUnlessSkewed NobodyLeftBehind
SYMMETRY Siblings
CHECK_DEADLOCK FALSE
