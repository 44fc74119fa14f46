\* Three invocations at once, with failures, kills and reboots.
SPECIFICATION Spec
CONSTANTS
    Invocation = {p1, p2, p3}
    Commands = {"build", "up", "run", "down"}
    None = None
    MaxEdits = 1
    MaxFaults = 3
SYMMETRY Interchangeable
INVARIANTS TypeOK StaleHasRedeployer UpsKeepTheService UpOkRunsItsSource
PROPERTY ImplementsDeployment
