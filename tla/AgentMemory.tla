---------------------------- MODULE AgentMemory ----------------------------
(***************************************************************************)
(* The way of a source into memory and out again: a host builds an         *)
(* `EntityLinker` from its projection's current view, plans extractions    *)
(* with it, appends each plan as one batch and keeps its projection up to  *)
(* date; at any time it compiles contexts.  The linker may be reused for a *)
(* whole batch of sources, so a plan may be made against a catalog that    *)
(* earlier plans have already outdated.                                    *)
(***************************************************************************)
EXTENDS InMemoryStore, Extraction, ContextCompiler

CONSTANTS
    Stream,        \* the stream the host appends to
    Extractions,   \* inputs with what a provider extracts from them
    Policies,      \* LinkPolicy values
    Times,         \* recording times
    Requests,      \* context requests
    Queries,       \* retrieval queries
    Answers,       \* what the retrieval providers may answer
    MaxEvents      \* bound: events of the log

\* What validation lets pass of a mention, malformed texts in its attributes
\* included, and of a relation.  The identifiers they lead to are identifiers
\* of the projection.
MentionOK(x, mention) ==
    /\ mention.stable_id \in Entities \cup {None}
    /\ mention.stable_id = None => Generated(mention, x) \in Entities
    /\ mention.confidence \in Confidence
    /\ mention.aliases \in Seq(ToSet(mention.aliases))
    /\ mention.external \in Seq(ToSet(mention.external))
    /\ mention.hints \in Seq([entity_id: Entities, confidence: Confidence])
    /\ {mention.kind, mention.label} \cup ToSet(mention.aliases)
         \cup {e[2] : e \in ToSet(mention.external)} \subseteq DOMAIN Estimate \ Malformed
    /\ IsFiniteSet(mention.attributes) /\ mention.attributes \subseteq Nat \X DOMAIN Estimate

RelationOK(x, relation) ==
    /\ relation.relation \in Relations /\ relation.confidence \in Confidence
    /\ relation.valid_from \in Time \cup {None} /\ relation.valid_until \in Time \cup {None}
    /\ \A source, target \in Entities :
         <<Origin(x), relation.local_id, source, relation.relation, target>> \in FactIds

ExtractionOK(x) ==
    /\ x.occurred_at \in Time
    /\ {x.repository, x.branch} \subseteq DOMAIN Estimate \cup {None}
    /\ x.entities \in Seq(ToSet(x.entities)) /\ \A m \in ToSet(x.entities) : MentionOK(x, m)
    /\ x.relations \in Seq(ToSet(x.relations)) /\ \A r \in ToSet(x.relations) : RelationOK(x, r)
    /\ None \notin [mention_id: LocalIds(x.entities), entity_id: Entities \cup {None},
                    score: Confidence, method: LinkMethod]

ASSUME AgentAssumption ==
    /\ Stream \in Streams
    /\ Entities \subseteq Nat
    /\ IsFiniteSet(Times) /\ Times \subseteq Time /\ Times # {}
    /\ MaxEvents \in Nat
    /\ \A policy \in Policies : policy.minimum_score \in Confidence /\ policy.minimum_margin \in Confidence
    /\ \A x \in Extractions : ExtractionOK(x)
    /\ \A request \in Requests :
         /\ request.seeds \in Seq(Entities) /\ request.max_depth \in Nat
         /\ request.known_at \in Time /\ request.token_budget \in Nat
    /\ \A query \in Queries : query.limit \in Nat
    /\ Answers \subseteq Seq([name: Nat, hits: Seq([entity: Entities, channel: Nat, score: Nat])])

VARIABLES
    store,       \* the event store
    linker,      \* the EntityLinker in use
    overlapped   \* history: was a plan of an outdated linker ever committed?

vars == <<log, projection, store, linker, overlapped>>

Now == Max(Times)

Content(revisions, events) ==
    [k \in DOMAIN revisions |-> events[revisions[k].position + 1].payload.node]

\* from_view: the nodes of the current view of a projection of some events.
Catalog(p, events) == Content(ViewRef(p, Now, Now).nodes, events)

\* The projection behind one more event; None once one is rejected.
ApplyEvent(p, event, position) ==
    IF p = None THEN None
    ELSE IF ~Accepts(p, event.payload, event.recorded_at) THEN None
    ELSE Apply(p, event.payload, event.recorded_at, position)

Applied(p, position, events) ==
    LET after[k \in 0..Len(events)] ==
            IF k = 0 THEN p ELSE ApplyEvent(after[k - 1], events[k], position + k - 1)
    IN  after[Len(events)]

IdsOf(events) == [k \in DOMAIN events |-> events[k].id]

Init ==
    /\ log = <<>> /\ store = EmptyStore
    /\ projection = EmptyProjection
    /\ linker = <<>>
    /\ overlapped = FALSE

\* from_view; while it is an error the host keeps the linker it has.
BuildLinker ==
    /\ Buildable(Catalog(projection, log))
    /\ linker # Catalog(projection, log)
    /\ linker' = Catalog(projection, log)
    /\ UNCHANGED <<log, projection, store, overlapped>>

\* Append the events of a plan as one batch.  A plan that failed, or one that
\* the store rejects because it holds one of its events, changes nothing.
Commit(plan) ==
    /\ plan # None
    /\ plan.events # <<>>
    /\ Len(log) + Len(plan.events) <= MaxEvents
    /\ CanPrepare(store, Stream, AnyVersion, IdsOf(plan.events))
    /\ store' = CommitPrepared(store, PrepareAppend(store, Stream, IdsOf(plan.events)))
    /\ log' = log \o plan.events
    /\ projection' = Applied(projection, Len(log), plan.events)
    /\ overlapped' = (overlapped \/ linker # Catalog(projection, log))
    /\ UNCHANGED linker

Extract(x, policy, recorded_at) == Commit(PlanWithLinker(x, linker, policy, recorded_at))

Next ==
    \/ BuildLinker
    \/ \E x \in Extractions, policy \in Policies, t \in Times : Extract(x, policy, t)

Spec == Init /\ [][Next]_vars

-----------------------------------------------------------------------------
\* Whatever plans are committed, fresh or of an outdated linker, of sources
\* extracted twice with different results or times: the log always replays.
\* Every fact finds its endpoints, no fact is recorded twice.
CommittedPlansReplay == projection # None

NodeEvents(events) == {k \in DOMAIN events : events[k].payload.kind = "NodeUpserted"}

\* No entity is created twice.  Only plans of an outdated linker give an entity
\* a second revision; and the retry of an extraction that was just committed
\* creates nothing, if linkers can be built: each of its mentions is linked, is
\* left ambiguous, or fails the plan because its generated identifier exists.
NoEntityCreatedTwice ==
    /\ ~overlapped => \A j, k \in NodeEvents(log) : log[j].payload.id = log[k].payload.id => j = k
    /\ \A x \in Extractions, policy \in Policies :
         \A plan \in {PlanWithLinker(x, Catalog(projection, log), policy, Now)} \ {None} :
             CanPrepare(store, Stream, AnyVersion, IdsOf(plan.events)) =>
                 LET after == Applied(projection, Len(log), plan.events)
                     catalog == Catalog(after, log \o plan.events)
                 IN  Buildable(Catalog(projection, log)) /\ Buildable(catalog) =>
                       \A retry \in {PlanWithLinker(x, catalog, policy, Now)} \ {None} :
                           NodeEvents(retry.events) = {}

\* Provider output that a plan lets pass never stands in the way of the next
\* linker: one can be built from whatever has been committed.
LinkersCanBeBuilt == Buildable(Catalog(projection, log))

\* The score a node deserves for a mention: the best of everything that
\* speaks for it, or -1 if nothing does.
Deserved(node, mention, input) ==
    LET bases ==
          {base \in {9000} : SameText(node.label, mention.label)}
            \cup {base \in {8500} : \E a \in node.aliases, t \in ToSet(mention.aliases) \cup {mention.label} :
                                      SameText(a, t)}
            \cup {base \in {9700} : \E e \in node.external, f \in ToSet(mention.external) :
                                      e[1] = f[1] /\ ExactKey[e[2]] = ExactKey[f[2]]}
            \cup {h.confidence : h \in {g \in ToSet(mention.hints) : g.entity_id = node.id}}
    IN  IF ~SameText(node.kind, mention.kind) \/ bases = {} THEN -1
        ELSE Max({Min({ScopeScore(base, node, input), mention.confidence}) : base \in bases})

\* A link, or None, is what the scores of the catalog's nodes call for.
Earned(link, score, policy) ==
    LET Leads(k) == /\ score[k] >= policy.minimum_score
                    /\ \A j \in DOMAIN score \ {k} : score[j] >= 0 =>
                         /\ score[k] - score[j] >= policy.minimum_margin
                         /\ score[k] = score[j] => linker[k].id < linker[j].id
        reached == {k \in DOMAIN score : score[k] >= policy.minimum_score}
    IN  IF link = None THEN reached = {}
        ELSE /\ link.method \in {"Created", "Unresolved"} <=> reached = {}
             /\ link.method # "Created" =>
                  \A k \in DOMAIN score : link.entity_id = linker[k].id <=> Leads(k)

\* Links are never guessed: without a stable identifier a mention is linked to
\* an entity exactly if that entity deserves the minimum score and leads every
\* other one that deserves any by the margin; an entity is created only if none
\* deserves the minimum.  A margin of zero lets equals through: the smaller
\* identifier leads.
LinksUnambiguous ==
    \A x \in Extractions, policy \in Policies :
        \A mention \in {m \in ToSet(x.entities) : m.stable_id = None} :
            Earned(Link(linker, mention, x, policy),
                   [k \in DOMAIN linker |-> Deserved(linker[k], mention, x)], policy)

-----------------------------------------------------------------------------
\* Reference for the neighbourhood: the facts that may be followed, and the
\* entities within so many of them from the seeds.
Visible(request, e) == VisibleNode(e, request.known_at) # None

InScope(request, e) ==
    Visible(request, e) /\ NodeAllowed(request, VisibleNode(e, request.known_at))

Usable(request) ==
    {f \in ToSet(projection.facts) :
        /\ FactIsActive(projection, f, request.valid_at, request.known_at)
        /\ RelationAllowed(request, f.relation)}

Within(request, depth) ==
    LET edges == {f \in Usable(request) : InScope(request, f.source) /\ InScope(request, f.target)}
        reach[d \in 0..depth] ==
            IF d = 0 THEN ToSet(request.seeds)
            ELSE reach[d - 1] \cup {f.source : f \in {g \in edges : g.target \in reach[d - 1]}}
                              \cup {f.target : f \in {g \in edges : g.source \in reach[d - 1]}}
    IN  reach[depth]

\* The neighbourhood, or None, is the one of the reference.
CompleteFor(request, found, near) ==
    IF \E e \in ToSet(request.seeds) : ~InScope(request, e) THEN found = None
    ELSE /\ \A d \in 0..request.max_depth :
               Within(request, d) = {e \in Entities : found.distances[e] # None /\ AtMost(found.distances[e], d)}
         /\ {e \in Entities : found.distances[e] # None} = near
         /\ found.facts = {f \in Usable(request) : {f.source, f.target} \subseteq near}
         /\ found.excluded =
              {f.id : f \in {g \in Usable(request) :
                  \E e, o \in {g.source, g.target} :
                     e \in near /\ Visible(request, o) /\ ~InScope(request, o)}}

\* The context is complete: the queue reaches exactly the entities within
\* max_depth, with their distances, and examines every active fact between two
\* of them; it reports as excluded exactly the facts that lead out of scope.
ContextComplete ==
    \A request \in Requests :
        CompleteFor(request, Neighborhood(request), Within(request, request.max_depth))

\* The budget is hard and well used: what the bundle holds costs no more than
\* the receipt says, exactly that if it holds no self-loop, and that is no more
\* than the budget; facts come with both their nodes; and no fact left out for
\* the budget would still fit beside what the receipt says, except a self-loop,
\* which is charged for its node twice.
BudgetHonoured ==
    \A request \in Requests :
        \A bundle \in {Compile(request)} \ {None} :
            LET Paid(nodes, facts) == TokensOf(nodes, request.known_at)
                                        + SumFunction([f \in facts |-> FactTokens(f)])
                cost == Paid(bundle.nodes, bundle.facts)
                used == bundle.receipt.estimated_tokens
                omitted == Neighborhood(request).facts \ bundle.facts
                Ends(f) == {f.source, f.target}
                Loops(facts) == {f \in facts : f.source = f.target}
            IN  /\ cost <= used /\ used <= request.token_budget
                /\ Loops(bundle.facts) = {} => cost = used
                /\ \A f \in bundle.facts : Ends(f) \subseteq bundle.nodes
                /\ bundle.receipt.omitted_by_budget = Cardinality(omitted)
                /\ \A f \in omitted \ Loops(omitted) :
                      used + Paid(Ends(f) \ bundle.nodes, {f}) > request.token_budget

\* The hits of two providers are the same but for their order and the scale of
\* their scores: every increasing change of the scores is a scale.
SameHits(p, q) ==
    \E to \in Bijection(DOMAIN p.hits, DOMAIN q.hits) :
        \A i, j \in DOMAIN p.hits :
            /\ q.hits[to[i]].entity = p.hits[i].entity
            /\ q.hits[to[i]].channel = p.hits[i].channel
            /\ q.hits[to[i]].score < q.hits[to[j]].score <=> p.hits[i].score < p.hits[j].score

\* And so are two answers, whose providers may be listed in any order.
Rearranged(answer, other) ==
    \E to \in Bijection(DOMAIN answer, DOMAIN other) :
        \A k \in DOMAIN answer :
            other[to[k]].name = answer[k].name /\ SameHits(answer[k], other[to[k]])

\* The answers that are one answer in this sense.
Rearrangements == {{other \in Answers : Rearranged(answer, other)} : answer \in Answers}

\* What a host sees of an answer: the fused ranking, unless the providers are
\* refused, and the contexts compiled from it.
Retrieved(answer, query) ==
    LET hits == FuseRetrieval(answer, query)
    IN  [scores |-> IF ValidProviders(answer)
                      THEN [k \in DOMAIN hits |-> <<hits[k].entity, hits[k].fused_score>>] ELSE None,
         contexts |-> [request \in Requests |-> CompileWithRetrieval(request, answer, query)]]

\* Retrieval depends on ranks only: the order in which providers are listed
\* and return their hits, and the scale of a provider's scores, change neither
\* the fused ranking nor the compiled context, whichever of the hits are
\* visible, in scope or gone.
RetrievalStable ==
    \A answers \in Rearrangements, query \in Queries :
        \A x, y \in {Retrieved(answer, query) : answer \in answers} : x = y

=============================================================================
