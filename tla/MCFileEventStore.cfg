\* Two processes, three events in batches of one or two, three sets of options.
CONSTANTS
    Streams = {s1}
    EventIds = {e1, e2, e3}
    Processes = {p1, p2}
    Options <- MCOptions
    None = None
    MaxBatch = 2
SPECIFICATION Spec
SYMMETRY Symmetry
INVARIANTS
    TypeOK
    MemoryMatchesJournal
    AcknowledgedKept
    JournalRestores
    ReopensUnlessPowerLost
PROPERTIES
    ImplementsDurableLog
