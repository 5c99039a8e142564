\* Two nodes, lists of up to three facts, chunks of one fact, up to three threads;
\* four identifiers, three of which share a fingerprint.
CONSTANTS
    a = a
    b = b
    f1 = f1
    f2 = f2
    f3 = f3
    Entities = {a, b}
    FactIds = {f1, f2, f3}
    Relations = {"r"}
    None = None
    Calls <- MCCalls
    Parallel = {1, 2, 3}
    ChunkFacts = 1
    i1 = i1
    i2 = i2
    i3 = i3
    i4 = i4
    Ids = {i1, i2, i3, i4}
    Hashes = {1, 2}
    hash <- MCHash
    Indexes = {0, 1, 2}
SPECIFICATION Spec
INVARIANTS
    BulkEqualsReload
    BulkAgreesWithReplay
    BulkReplacementHidesPrior
    IndexIsMap
