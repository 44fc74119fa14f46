\* Two processes on one host, a host that uses the images: two builds, one change.
SPECIFICATION Spec
CONSTANTS
    p1 = p1
    p2 = p2
    h1 = h1
    h2 = h2
    Process = {p1, p2}
    Host = {h1, h2}
    HostOf <- MCHostOf
    ArchOf <- MCArchOf
    Cuda <- MCCuda
    Manifests <- MCManifests
    Registries <- MCRegistries
    PageSize = 1
    None = None
    MaxChanges = 1
    MaxBuilds = 2
    MaxPulls = 1
SYMMETRY Symmetry
INVARIANTS TypeOK FindsTheNewest TagTellsArch PushesTheLastBuilt
 
