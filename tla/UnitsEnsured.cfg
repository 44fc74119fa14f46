\* A second ensure with another definition, nothing fails.
SPECIFICATION Spec
CONSTANTS
    Invocation = {p1}
    Definition = {d1, d2}
    None = None
    MaxFaults = 0
    MaxCrashes = 0
INVARIANT EnsuredIsRunning
