\* Two processes, nothing fails.
SPECIFICATION Spec
CONSTANTS
    Process = {p1, p2}
    Inode = {i1, i2, i3}
    None = None
    MaxFaults = 0
INVARIANT EnsureReturnsRunnable
