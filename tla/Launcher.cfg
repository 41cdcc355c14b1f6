\* Three launches of the entries of one or two bundles.
CONSTANTS
    l1 = l1
    l2 = l2
    l3 = l3
    f1 = f1
    f2 = f2
    Launchers = {l1, l2, l3}
    Files = {f1, f2}
    NoFile = NoFile
    FileNames <- AnyName
    Setups <- MCSetups
    NoMeta = NoMeta
    NoScript = NoScript
    User = User
    Commands = {"app"}
SPECIFICATION LaunchSpec
INVARIANTS LaunchTypeOK LossNeedsTwo AloneIsEnough ValidatedRuns HomesServed
SYMMETRY Alike
CHECK_DEADLOCK FALSE
