\* A pipe of one character; longer lines than one overrun.
\* The run ends: deadlock is not checked.
SPECIFICATION FairSpec
CONSTANTS
    Capacity = 1
    Limit = 1
    MaxOutput = 5
INVARIANTS TypeOK NothingLost
PROPERTY RunEnds
CHECK_DEADLOCK FALSE
