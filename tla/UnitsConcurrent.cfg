\* Three invocations at once, failing commands, kills and reboots.
SPECIFICATION Spec
CONSTANTS
    Invocation = {p1, p2, p3}
    Definition = {d1, d2}
    None = None
    MaxFaults = 2
    MaxCrashes = 2
SYMMETRY Interchangeable
INVARIANTS TypeOK StaleDefinitionHasReloader EnsureOkIsDurable NoOrphan
PROPERTY ImplementsDeployment
