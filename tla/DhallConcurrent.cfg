\* Three processes share a cache; a failing write, a kill or a power failure.
SPECIFICATION Spec
CONSTANTS
    Process = {p1, p2, p3}
    Inode = {i1, i2, i3, i4}
    None = None
    MaxFaults = 1
SYMMETRY Interchangeable
INVARIANTS TypeOK BrokenHasWriter CacheVerified CacheSound TripsOnlyWhenRaced
