--------------------------- MODULE ProjectionParts ---------------------------
(***************************************************************************)
(* `MemoryProjection::try_from_parts` (src/src/projection/memory/parts.rs) *)
(* builds a projection from lists of nodes and facts without a replay.     *)
(* Threads prepare chunks of the facts; the rest is sequential.            *)
(***************************************************************************)
EXTENDS MemoryProjection

CONSTANTS
    Calls,       \* the arguments: nodes, facts, known_at and source_position
    Parallel,    \* what thread::available_parallelism may answer
    ChunkFacts   \* facts that are worth a thread (16_384 in the code)

\* What try_from_parts takes.
Arguments ==
    [nodes: Seq(Entities), facts: Seq(Fact), known_at: Time, position: Nat \cup {None}]

\* The last part tells the error of a thread from a list of endpoints.
ASSUME PartsAssumption ==
    /\ Calls \subseteq Arguments
    /\ Parallel \subseteq Nat \ {0}
    /\ ChunkFacts \in Nat \ {0}
    /\ None \notin Seq(SUBSET Nat)

VARIABLES
    pc,          \* "idle", "prepare" or "done"
    call,        \* the arguments of the call
    chunks,      \* chunks[c]: the facts of thread c
    prepared,    \* prepared[c]: the endpoints of its facts; None for an error
    finished,    \* the threads that have ended, in that order
    projection   \* under construction, then the result; None for an error

parts_vars == <<pc, call, chunks, prepared, finished, projection>>

CeilDiv(n, d) == (n + d - 1) \div d

Smaller(m, n) == IF m < n THEN m ELSE n

Distinct(seq) == \A k \in DOMAIN seq : \A j \in 1..(k - 1) : seq[j] # seq[k]

\* prepare_facts: the split into chunks.
Chunked(facts, parallelism) ==
    LET wanted == Smaller(parallelism, CeilDiv(Len(facts), ChunkFacts))
        workers == IF wanted < 1 THEN 1 ELSE wanted
        size == CeilDiv(Len(facts), workers)
    IN  IF workers = 1 THEN <<facts>>
        ELSE [c \in 1..CeilDiv(Len(facts), size) |->
                SubSeq(facts, (c - 1) * size + 1, Smaller(c * size, Len(facts)))]

\* The nodes, all of them revisions of known_at; None for a repeated one.
InsertNodes(nodes, known_at) ==
    IF ~Distinct(nodes) THEN None
    ELSE [EmptyProjection EXCEPT
            !.nodes = [k \in DOMAIN nodes |->
                         <<[id |-> nodes[k], recorded_at |-> known_at, position |-> k - 1]>>],
            !.node_lookup = [e \in Entities |-> Lookup({k \in DOMAIN nodes : nodes[k] = e})]]

\* Mutant: a fact of the last moment counts as too late.
CanPrepareFactBefore(p, fact, known_at) ==
    /\ fact.recorded_at < known_at
    /\ ValidFact(fact)
    /\ p.node_lookup[fact.source] # None
    /\ p.node_lookup[fact.target] # None

CanPrepareFact(p, fact, known_at) ==
    /\ fact.recorded_at <= known_at
    /\ ValidFact(fact)
    /\ p.node_lookup[fact.source] # None
    /\ p.node_lookup[fact.target] # None

\* prepare_fact for the facts of a chunk, up to the first error.
PrepareFacts(p, facts, known_at) ==
    IF \A k \in DOMAIN facts : CanPrepareFact(p, facts[k], known_at)
    THEN [k \in DOMAIN facts |-> {p.node_lookup[facts[k].source], p.node_lookup[facts[k].target]}]
    ELSE None

\* Mutant: a fact may be replaced twice.
SupersedeAgain(p, fact) ==
    IF p = None THEN None
    ELSE IF fact.supersedes = None THEN p
    ELSE IF p.fact_lookup[fact.supersedes] = None THEN None
    ELSE ApplySupersession(p, fact)

\* apply_supersession, when all facts are in the lookup already.
Supersede(p, fact) ==
    IF p = None THEN None
    ELSE IF fact.supersedes = None THEN p
    ELSE IF p.fact_lookup[fact.supersedes] = None \/ p.supersessions[fact.supersedes] # None
    THEN None
    ELSE ApplySupersession(p, fact)

\* The supersessions of a list of facts, one after the other.
SupersedeAll(p, facts) ==
    LET linked[k \in 0..Len(facts)] ==
            IF k = 0 THEN p ELSE Supersede(linked[k - 1], facts[k])
    IN  linked[Len(facts)]

\* The rest of try_from_parts: unique facts, supersessions, incident index.
Assemble(p, facts, ends, position) ==
    LET looked == [p EXCEPT !.fact_lookup = [f \in FactIds |-> FactAt(facts, f)]]
        linked == SupersedeAll(looked, facts)
        offsets == Offsets(Len(p.nodes), ends)
    IN  IF ~Distinct([k \in DOMAIN facts |-> facts[k].id]) \/ linked = None THEN None
        ELSE [linked EXCEPT !.facts = facts,
                            !.incident_offsets = offsets,
                            !.incident_facts = Incidents(offsets, ends),
                            !.last_global_position = position]

\* Mutant: results are collected as the threads end.
CollectedAsFinished == FlattenSeq([k \in DOMAIN finished |-> prepared[finished[k]]])

\* The threads are joined in the order of their chunks.
Collected == FlattenSeq(prepared)

-----------------------------------------------------------------------------
NoCall == [nodes |-> <<>>, facts |-> <<>>, known_at |-> 0, position |-> None]

PartsInit ==
    /\ pc = "idle"
    /\ call = NoCall
    /\ chunks = <<>> /\ prepared = <<>> /\ finished = <<>>
    /\ projection = None

\* try_from_parts, to the start of the threads.
Call(args, parallelism) ==
    /\ pc = "idle"
    /\ call' = args
    /\ projection' = InsertNodes(args.nodes, args.known_at)
    /\ pc' = IF projection' = None THEN "done" ELSE "prepare"
    /\ chunks' = IF projection' = None THEN <<>> ELSE Chunked(args.facts, parallelism)
    /\ prepared' = [c \in DOMAIN chunks' |-> <<>>]
    /\ finished' = <<>>

Prepare(c) ==
    /\ pc = "prepare"
    /\ c \notin ToSet(finished)
    /\ prepared' = [prepared EXCEPT ![c] = PrepareFacts(projection, chunks[c], call.known_at)]
    /\ finished' = Append(finished, c)
    /\ UNCHANGED <<pc, call, chunks, projection>>

\* The join of the threads and everything after it.
Join ==
    /\ pc = "prepare"
    /\ ToSet(finished) = DOMAIN chunks
    /\ pc' = "done"
    /\ projection' = IF \E c \in DOMAIN prepared : prepared[c] = None THEN None
                     ELSE Assemble(projection, call.facts, Collected, call.position)
    /\ UNCHANGED <<call, chunks, prepared, finished>>

\* The caller has its result, and may call again.
Return ==
    /\ pc = "done"
    /\ pc' = "idle"
    /\ call' = NoCall
    /\ chunks' = <<>> /\ prepared' = <<>> /\ finished' = <<>>
    /\ projection' = None

PartsNext ==
    \/ \E args \in Calls, parallelism \in Parallel : Call(args, parallelism)
    \/ \E c \in DOMAIN chunks : Prepare(c)
    \/ Join
    \/ Return

PartsSpec == PartsInit /\ [][PartsNext]_parts_vars

-----------------------------------------------------------------------------
Accepted == pc = "done" /\ projection # None

\* However the threads are scheduled, the bulk projection is field by field
\* what decoding its own snapshot gives: the lookups and the incident index of
\* try_from_parts are those of rebuild_indexes, and none of its results is
\* rejected by the checks of decoding.
BulkEqualsReload == Accepted => RebuildIndexes(Canonical(projection)) = projection

\* The nodes of a call as events.
NodesReplayed(nodes, known_at) ==
    LET inserted[k \in 0..Len(nodes)] ==
            IF k = 0 THEN EmptyProjection
            ELSE InsertNode(inserted[k - 1],
                            [id |-> nodes[k], recorded_at |-> known_at, position |-> k - 1])
    IN  inserted[Len(nodes)]

\* One fact as an event; None once one is refused.
Put(p, fact) ==
    IF p = None THEN None
    ELSE IF ~CanInsertFact(p, fact) THEN None
    ELSE InsertFact(p, fact)

\* The nodes of the call and a list of facts as events.
FactsReplayed(facts) ==
    LET put[k \in 0..Len(facts)] ==
            IF k = 0 THEN NodesReplayed(call.nodes, call.known_at)
            ELSE Put(put[k - 1], facts[k])
    IN  put[Len(facts)]

\* What replay accepts by known_at, the bulk construction accepts too, and it
\* records the same facts and supersessions, so its views are the same.
BulkAgreesWithReplay ==
    (/\ pc = "done"
     /\ Distinct(call.nodes)
     /\ \A k \in DOMAIN call.facts : call.facts[k].recorded_at <= call.known_at
     /\ FactsReplayed(call.facts) # None) =>
        /\ projection # None
        /\ Canonical(projection) = [Canonical(FactsReplayed(call.facts)) EXCEPT !.last_global_position = call.position]

\* No view of a bulk projection shows a fact beside the one that replaced it,
\* whatever the order of the list: priors may come after their replacements.
BulkReplacementHidesPrior ==
    Accepted =>
        \A valid_at, known_at \in 0..(call.known_at + 1) :
            LET facts == ToSet(ViewRef(projection, valid_at, known_at).facts)
            IN  \A f, g \in facts : g.supersedes # f.id

\* "Rejects ... invalid supersession chains" (parts.rs:29-31): facts that
\* try_from_parts accepts are facts that replay accepts in some order.  Two
\* facts that supersede each other have no such order.
BulkAcceptsOnlyChains ==
    Accepted => \E order \in SetToSeqs(ToSet(call.facts)) : FactsReplayed(order) # None

=============================================================================
