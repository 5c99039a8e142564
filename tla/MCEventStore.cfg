\* Two clients racing on two streams, three events, batches of 0 to 2.
CONSTANTS
    Streams = {s1, s2}
    EventIds = {e1, e2, e3}
    Clients = {c1, c2}
    None = None
    MaxBatch = 2
    MaxAppends = 3
SPECIFICATION Spec
SYMMETRY Symmetry
INVARIANTS
    TypeOK
    StoreWellFormed
    RestoreRoundTrip
    ViewsArePrefixes
    NoLostUpdate
    BatchesStayCommitted
