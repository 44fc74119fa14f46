\* One command after another while two facts about the host change.
SPECIFICATION FairSpec
CONSTANTS
    Systems <- MCSystems
    Specs = {{}, {"tart", "ghcup"}}
    None = None
    MaxChanges = 2
INVARIANTS TypeOK DoctorVouches DispatchedWhereDoctorLooked
PROPERTY EveryCommandEnds
