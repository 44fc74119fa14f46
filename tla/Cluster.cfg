\* The specification changes, a command fails, one is killed or the host reboots.
SPECIFICATION FairSpec
CONSTANTS
    Invocation = {p1}
    Definition = {d1}
    None = None
    HasArtifact = TRUE
    MaxEdits = 1
    MaxRespecs = 1
    MaxFaults = 1
    MaxCrashes = 1
INVARIANTS TypeOK DownUndoesUp UpDeploys
PROPERTIES BuildFailureDeploysNothing ServiceComesBack DaemonComesBack
