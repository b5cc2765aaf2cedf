SPECIFICATION SafeSpec
CONSTANTS
    p1 = p1
    p2 = p2
    u1 = u1
    u2 = u2
    u3 = u3
    Projects <- MCProjects
    Uris <- MCUris
    Snapshots <- MCSnapshots
    MaxRev = 3
    MaxSpawnFailures = 1
    NoProject = NoProject
    NoWorker = NoWorker
INVARIANTS
    RegistryOK
    NoOrphanMarker
    NoStaleMarker
    Converged
PROPERTIES
    ClearsOnlyStale
