\* Five events on two streams, polls of two, two restarts of the host.
CONSTANTS
    Streams = {s1, s2}
    EventIds = {1, 2, 3, 4, 5}
    None = None
    BatchSize = 2
    MaxEvents = 5
    MaxRestarts = 2
SPECIFICATION Spec
INVARIANT
    NothingSkipped
PROPERTIES
    SavedCheckpointMonotone
    EverythingAcknowledged
