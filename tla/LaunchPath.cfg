\* One launch on the machine that built the bundle is enough.
CONSTANTS
    l1 = l1
    f1 = f1
    Launchers = {l1}
    Files = {f1}
    NoFile = NoFile
    FileNames <- AnyName
    Setups <- MCPathSetups
    NoMeta = NoMeta
    NoScript = NoScript
    User = User
    Commands = {"app"}
SPECIFICATION LaunchSpec
INVARIANT PathServesPayload
CHECK_DEADLOCK FALSE
