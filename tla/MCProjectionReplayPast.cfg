\* The same instance, for what the documentation says of known time.
CONSTANTS
    node_stream = node_stream
    fact_stream = fact_stream
    a = a
    b = b
    f1 = f1
    f2 = f2
    f3 = f3
    Streams = {node_stream, fact_stream}
    EventIds = {1, 2, 3, 4, 5}
    Entities = {a, b}
    FactIds = {f1, f2, f3}
    Relations = {"r"}
    Inputs <- MCInputs
    None = None
    MaxEvents = 5
SPECIFICATION Spec
INVARIANT
    CorrectionsKeepThePast
