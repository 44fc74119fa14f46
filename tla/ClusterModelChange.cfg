\* The specification changes once.
SPECIFICATION Spec
CONSTANTS
    Invocation = {p1}
    Definition = {d1}
    None = None
    HasArtifact = FALSE
    MaxEdits = 0
    MaxRespecs = 1
    MaxFaults = 0
    MaxCrashes = 0
INVARIANT UnitIffDaemon
