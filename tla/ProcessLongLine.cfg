\* A line longer than the limit.  The run ends: deadlock is not checked.
SPECIFICATION Spec
CONSTANTS
    Capacity = 1
    Limit = 1
    MaxOutput = 3
INVARIANT RunCaptures
CHECK_DEADLOCK FALSE
