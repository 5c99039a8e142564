\* One host, two events in batches of one or two, with and without sync.
CONSTANTS
    Streams = {s1}
    EventIds = {1, 2}
    Processes = {p1}
    Host = p1
    Options <- MCOptions
    None = None
    MaxBatch = 2
    MaxEvents = 2
    BatchSize = 1
SPECIFICATION RecoverySpec
INVARIANTS
    CheckpointBacked
    SnapshotsBacked
CONSTRAINT Claimed
