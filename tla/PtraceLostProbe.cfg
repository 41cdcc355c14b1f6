\* A probe lost between a parent and its child, without any SIGKILL.
CONSTANTS
    r = r
    c1 = c1
    c2 = c2
    cmd = cmd
    lib = lib
    noPath = noPath
    noProc = noProc
    Procs = {r, c1}
    Root = r
    Paths = {cmd, lib}
    Command = cmd
    NoPath = noPath
    NoProc = noProc
    BadPaths = {}
    Kinds = {"probe", "fork"}
    ExitCodes = {"0"}
    MaxCalls = 1
    MaxKills = 0
    MaxSignals = 0
SPECIFICATION Spec
INVARIANT EveryCallReported
CHECK_DEADLOCK FALSE
