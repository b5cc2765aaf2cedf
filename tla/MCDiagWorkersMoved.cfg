SPECIFICATION SafeSpec
CONSTANTS
    p1 = p1
    p2 = p2
    u1 = u1
    u2 = u2
    u3 = u3
    Projects <- MCProjects
    Uris <- MCUris
    Snapshots <- MCMoving
    MaxRev = 2
    MaxSpawnFailures = 0
    NoProject = NoProject
    NoWorker = NoWorker
PROPERTIES
    ClearsOnlyStale
