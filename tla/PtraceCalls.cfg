\* Parent and child, every kind of call, a signal and a SIGKILL, under fairness.
CONSTANTS
    r = r
    c1 = c1
    c2 = c2
    cmd = cmd
    lib = lib
    noPath = noPath
    noProc = noProc
    Procs = {r, c1}
    Root = r
    Paths = {cmd, lib}
    Command = cmd
    NoPath = noPath
    NoProc = noProc
    BadPaths = {lib}
    Kinds = {"probe", "dirprobe", "exec", "fork", "await"}
    ExitCodes = {"0", "42"}
    MaxCalls = 1
    MaxKills = 1
    MaxSignals = 1
SPECIFICATION FairSpec
INVARIANTS TypeOK PhaseInStep NoReportWithoutLaunch
PROPERTY Termination
CHECK_DEADLOCK FALSE
