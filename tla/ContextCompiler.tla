-------------------------- MODULE ContextCompiler --------------------------
(***************************************************************************)
(* `ContextCompiler` (src/src/context): the part of a projection around    *)
(* some seeds that fits a token budget.  The compiler reads the projection *)
(* and keeps no state.                                                     *)
(*                                                                         *)
(* The estimator is replaceable and external: it gives every text and      *)
(* identifier a positive number of tokens.  The graph form of the bundle   *)
(* is left out.                                                            *)
(***************************************************************************)
EXTENDS MemoryProjection, Retrieval

CONSTANTS
    FactRank,         \* FactRank[id]: where a fact identifier, a hash, comes in their order
    Estimate,         \* Estimate[text]: tokens of a text
    IdTokens,         \* tokens of an identifier or attribute key
    OriginTokens,     \* tokens of a node's attributes extracted_by and extraction_source
    EvidenceTokens    \* tokens of a fact's evidence

\* No two hashes have the same place.
ASSUME CompilerAssumption ==
    /\ FactRank \in [FactIds -> Nat]
    /\ \A f, g \in FactIds : FactRank[f] = FactRank[g] => f = g
    /\ Estimate \in [DOMAIN Estimate -> Nat] /\ Relations \subseteq DOMAIN Estimate
    /\ IdTokens \in Nat /\ OriginTokens \in Nat /\ EvidenceTokens \in Nat

VARIABLES
    log,         \* log[i]: the event at position i - 1, with its payload
    projection   \* the MemoryProjection of the log

\* visible_node: the content of the entity at a time, or None.
VisibleNode(id, known_at) ==
    LET index == projection.node_lookup[id]
        revision == VisibleRevision(projection.nodes[index + 1], known_at)
    IN  IF index = None THEN None
        ELSE IF revision = None THEN None
        ELSE log[revision.position + 1].payload.node

\* projection.fact.
FactOf(id) == projection.facts[projection.fact_lookup[id] + 1]

OptionalTokens(text) == IF text = None THEN 0 ELSE Estimate[text]

AttributeTokens(value) == IdTokens + Estimate[value]

NodeTokens(node) ==
    IdTokens + Estimate[node.kind] + Estimate[node.label]
      + OptionalTokens(node.repository) + OptionalTokens(node.branch)
      + SumFunction([a \in node.aliases |-> AttributeTokens(a)])
      + SumFunction([e \in node.external |-> AttributeTokens(e[2])])
      + OriginTokens + 6

FactTokens(fact) == 3 * IdTokens + Estimate[fact.relation] + EvidenceTokens + 16

NodeAllowed(request, node) ==
    /\ request.repositories = {} \/ node.repository \in request.repositories
    /\ request.branches = {} \/ node.branch \in request.branches

RelationAllowed(request, relation) == request.relations = {} \/ relation \in request.relations

-----------------------------------------------------------------------------
\* The neighbourhood of the seeds.

\* Mutant: the bound on the depth is off by one.
CanGoDeeperInclusive(request, depth) == depth <= request.max_depth

CanGoDeeper(request, depth) == depth < request.max_depth

\* One incident fact of the current node.
VisitFact(acc, request, current, fact) ==
    LET other == IF fact.source = current THEN fact.target ELSE fact.source
        node == VisibleNode(other, request.known_at)
        depth == acc.distances[current]
    IN  IF \/ ~FactIsActive(projection, fact, request.valid_at, request.known_at)
           \/ ~RelationAllowed(request, fact.relation)
           \/ node = None
        THEN acc
        ELSE IF ~NodeAllowed(request, node)
        THEN [acc EXCEPT !.excluded = @ \cup {fact.id}]
        ELSE IF acc.distances[other] # None
        THEN [acc EXCEPT !.facts = @ \cup {fact}]
        ELSE IF CanGoDeeper(request, depth)
        THEN [acc EXCEPT !.facts = @ \cup {fact},
                         !.distances[other] = depth + 1,
                         !.queue = Append(@, other)]
        ELSE acc

\* One turn of the loop over the queue: every incident fact of its head.
VisitNode(acc, request) ==
    LET current == Head(acc.queue)
        ids == IncidentFactIds(projection, current)
        visited[k \in 0..Len(ids)] ==
            IF k = 0 THEN [acc EXCEPT !.queue = Tail(@)]
            ELSE VisitFact(visited[k - 1], request, current, FactOf(ids[k]))
    IN  IF acc.queue = <<>> THEN acc ELSE visited[Len(ids)]

\* The facts with both ends reached.
Retained(acc) ==
    [acc EXCEPT !.facts = {f \in @ : acc.distances[f.source] # None /\ acc.distances[f.target] # None}]

\* neighborhood; every entity enters the queue at most once.  None if a seed
\* is not visible or out of scope.
Neighborhood(request) ==
    LET seeds == Ascending(ToSet(request.seeds))
        start == [distances |-> [e \in Entities |-> IF e \in ToSet(seeds) THEN 0 ELSE None],
                  facts |-> {}, excluded |-> {}, queue |-> seeds]
        after[k \in 0..Cardinality(Entities)] ==
            IF k = 0 THEN start ELSE VisitNode(after[k - 1], request)
        Seed(e) == LET node == VisibleNode(e, request.known_at)
                   IN  IF node = None THEN FALSE ELSE NodeAllowed(request, node)
    IN  IF \E e \in ToSet(seeds) : ~Seed(e) THEN None
        ELSE Retained(after[Cardinality(Entities)])

-----------------------------------------------------------------------------
\* Selection within the budget.

\* The candidates: near, confident and recent facts first.
Candidates(found) ==
    LET Key(f) == <<Min({found.distances[f.source], found.distances[f.target]}),
                    0 - f.confidence, 0 - f.recorded_at, FactRank[f.id]>>
        Before(f, g) == LET x == Key(f)
                            y == Key(g)
                        IN  \E k \in 1..4 : x[k] < y[k] /\ \A j \in 1..(k - 1) : x[j] = y[j]
    IN  SortedSet(found.facts, {p \in found.facts \X found.facts : Before(p[1], p[2])})

\* What some visible nodes cost.
TokensOf(nodes, known_at) ==
    SumFunction([id \in nodes |-> NodeTokens(VisibleNode(id, known_at))])

\* Mutant: only the fact is charged.
ChargeFactOnly(acc, fact, cost) == acc.used + FactTokens(fact)

Charge(acc, fact, cost) == acc.used + cost

\* One candidate.  An endpoint that is not selected yet is paid for; a
\* self-loop on such a node pays for it twice.
SelectFact(acc, request, fact) ==
    LET Missing(id) == IF id \in acc.nodes THEN 0 ELSE NodeTokens(VisibleNode(id, request.known_at))
        cost == FactTokens(fact) + Missing(fact.source) + Missing(fact.target)
    IN  IF acc.used + cost > request.token_budget
        THEN [acc EXCEPT !.omitted = @ + 1]
        ELSE [acc EXCEPT !.used = Charge(acc, fact, cost),
                         !.nodes = @ \cup {fact.source, fact.target},
                         !.facts = @ \cup {fact}]

\* select_seeds, then every candidate in turn.
Select(request, candidates) ==
    LET seeds == ToSet(request.seeds)
        start == [nodes |-> seeds, facts |-> {}, omitted |-> 0,
                  used |-> TokensOf(seeds, request.known_at)]
        chosen[k \in 0..Len(candidates)] ==
            IF k = 0 THEN start ELSE SelectFact(chosen[k - 1], request, candidates[k])
    IN  chosen[Len(candidates)]

Bundle(chosen, found) ==
    [nodes |-> chosen.nodes, facts |-> chosen.facts,
     receipt |-> [source_position |-> projection.last_global_position,
                  estimated_tokens |-> chosen.used,
                  examined_facts |-> Cardinality(found.facts),
                  selected_facts |-> Cardinality(chosen.facts),
                  omitted_by_budget |-> chosen.omitted,
                  excluded_by_scope |-> Cardinality(found.excluded)]]

\* The view of the bundle and the receipt; None if a seed is missing or the
\* seeds alone exceed the budget.
CompileFound(request, found) ==
    IF found = None THEN None
    ELSE IF TokensOf(ToSet(request.seeds), request.known_at) > request.token_budget
    THEN None
    ELSE Bundle(Select(request, Candidates(found)), found)

Compile(request) ==
    IF request.seeds = <<>> THEN None ELSE CompileFound(request, Neighborhood(request))

\* compile_with_retrieval; None if fuse_retrieval or the compiler fails.  A hit
\* that is not visible is dropped, one that is visible but out of scope fails
\* the call as a missing entity.
CompileWithRetrieval(request, providers, query) ==
    LET retrieval == FuseRetrieval(providers, query)
        entities == [k \in DOMAIN retrieval |-> retrieval[k].entity]
        Seen(e) == VisibleNode(e, request.known_at) # None
    IN  IF ~ValidProviders(providers) THEN None
        ELSE Compile([request EXCEPT !.seeds = SelectSeq(entities, Seen)])

=============================================================================
