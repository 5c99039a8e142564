\* Two sources, one of them with a malformed alias attribute.
CONSTANTS
    None = None
    Streams = {s1}
    Stream = s1
    EventIds <- MCEventIds
    Entities = {1, 2, 3, 4, 5, 6}
    FactIds <- MCFactIds
    Relations = {"calls", "uses", "owns"}
    FactRank <- MCFactRank
    Normalized <- MCNormalized
    Malformed = {"Auth "}
    ExactKey <- MCExactKey
    GeneratedId <- MCGeneratedId
    Extractions <- MCPadded
    Policies <- MCPolicies
    Times = {1, 2}
    Estimate <- MCEstimate
    IdTokens = 1
    OriginTokens = 4
    EvidenceTokens = 4
    Requests <- MCRequests
    Queries <- MCQueries
    Answers <- MCAnswers
    MaxEvents = 7
SPECIFICATION Spec
INVARIANTS
    LinkersCanBeBuilt
CHECK_DEADLOCK FALSE
