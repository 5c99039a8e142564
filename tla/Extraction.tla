----------------------------- MODULE Extraction -----------------------------
(***************************************************************************)
(* `AutoExtractionEngine` (src/src/extraction/engine): from a source and   *)
(* what a provider extracted from it to a plan, a batch of events.         *)
(*                                                                         *)
(* An extraction is an ExtractionInput together with the provider's        *)
(* output: mentions (`entities`) and `relations` between them.  Providers  *)
(* are external, and the same source may be extracted differently twice.   *)
(* A hash is the tuple of what is hashed.                                  *)
(***************************************************************************)
EXTENDS EntityLinker

Origin(x) == <<x.provider, x.source, x.content>>

ValidFrom(x, relation) ==
    IF relation.valid_from = None THEN x.occurred_at ELSE relation.valid_from

LocalIds(items) == {items[k].local_id : k \in DOMAIN items}

ValidInput(x, recorded_at) == x.occurred_at <= recorded_at

\* validate_output, without the spans.
ValidOutput(x) ==
    /\ Cardinality(LocalIds(x.entities)) = Len(x.entities)
    /\ Cardinality(LocalIds(x.relations)) = Len(x.relations)
    /\ \A r \in ToSet(x.relations) :
         /\ {r.source, r.target} \subseteq LocalIds(x.entities)
         /\ r.valid_until # None => r.valid_until > ValidFrom(x, r)

-----------------------------------------------------------------------------
\* The aliases a node gets from a mention: those the mention lists, as the
\* attributes alias.0, alias.1 and so on, and those among its own attributes,
\* pairs <<i, value>> for alias.i, that the listed ones do not overwrite.
AliasesOf(mention) ==
    ToSet(mention.aliases)
      \cup {a[2] : a \in {b \in mention.attributes : b[1] >= Len(mention.aliases)}}

\* build_node: what a mention says of the entity created for it.  Attributes
\* that nothing looks up, extracted_by and extraction_source among them, are
\* left out, and so are plans that fail because two mentions differ in one.
BuildNode(x, mention, id) ==
    [id |-> id, kind |-> mention.kind, label |-> mention.label,
     repository |-> x.repository, branch |-> x.branch,
     aliases |-> AliasesOf(mention), external |-> ToSet(mention.external)]

\* merge_node accepts two mentions of one new entity.
Mergeable(n, m) ==
    /\ n.kind = m.kind /\ n.label = m.label
    /\ \A e \in n.external, f \in m.external : e[1] = f[1] => e[2] = f[2]

Merged(nodes) ==
    [(CHOOSE n \in nodes : TRUE) EXCEPT !.aliases = UNION {n.aliases : n \in nodes},
                                        !.external = UNION {n.external : n \in nodes}]

\* Mutant: the identifier of an event is salted with the time.
EventIdTimed(x, kind, id, recorded_at) == <<kind, Origin(x), id, recorded_at>>

\* The identifiers node_event and fact_event hash.
EventIdOf(x, kind, id, recorded_at) == <<kind, Origin(x), id>>

NodeEvent(x, node, recorded_at) ==
    [id |-> EventIdOf(x, "node", node.id, recorded_at), recorded_at |-> recorded_at,
     payload |-> [kind |-> "NodeUpserted", id |-> node.id, node |-> node]]

BuildFact(x, relation, source, target, recorded_at) ==
    [id |-> <<Origin(x), relation.local_id, source.entity_id, relation.relation, target.entity_id>>,
     source |-> source.entity_id, target |-> target.entity_id, relation |-> relation.relation,
     confidence |-> Min({relation.confidence, source.score, target.score}),
     valid_from |-> ValidFrom(x, relation), valid_until |-> relation.valid_until,
     recorded_at |-> recorded_at, supersedes |-> None]

FactEvent(x, fact, recorded_at) ==
    [id |-> EventIdOf(x, "fact", fact.id, recorded_at), recorded_at |-> recorded_at,
     payload |-> [kind |-> "FactRecorded", fact |-> fact]]

\* The entities that links create, in the order of their identifiers, and what
\* the mentions say of one.
Created(links) == {k \in DOMAIN links : links[k].method = "Created"}

NewIds(links) == Ascending({links[k].entity_id : k \in Created(links)})

NodesOf(x, links, id) ==
    {BuildNode(x, x.entities[k], id) : k \in {j \in Created(links) : links[j].entity_id = id}}

\* The link of a mention; a relation is kept if both of its mentions have one.
LinkOf(x, links, local_id) == links[CHOOSE k \in DOMAIN links : x.entities[k].local_id = local_id]

Linked(x, links, relation) ==
    /\ LinkOf(x, links, relation.source).entity_id # None
    /\ LinkOf(x, links, relation.target).entity_id # None

Kept(x, links) == {k \in DOMAIN x.relations : Linked(x, links, x.relations[k])}

NodeEventsOf(x, links, recorded_at) ==
    LET new == NewIds(links)
    IN  [k \in DOMAIN new |-> NodeEvent(x, Merged(NodesOf(x, links, new[k])), recorded_at)]

FactEventsOf(x, links, recorded_at) ==
    LET kept == Filtered(x.relations, Kept(x, links))
    IN  [k \in DOMAIN kept |->
            FactEvent(x, BuildFact(x, kept[k], LinkOf(x, links, kept[k].source),
                                   LinkOf(x, links, kept[k].target), recorded_at), recorded_at)]

\* The plan of these links: the events, new nodes first, and the relations with
\* an endpoint that was not resolved; or None.
PlanOf(x, links, recorded_at) ==
    IF \/ \E k \in DOMAIN links : links[k] = None
       \/ \E k \in Created(links) :
             \E n, m \in NodesOf(x, links, links[k].entity_id) : ~Mergeable(n, m)
    THEN None
    ELSE [events |-> NodeEventsOf(x, links, recorded_at) \o FactEventsOf(x, links, recorded_at),
          rejected_relations |-> Filtered(x.relations, DOMAIN x.relations \ Kept(x, links))]

BuildPlan(x, linker, policy, recorded_at) ==
    PlanOf(x, [k \in DOMAIN x.entities |-> Link(linker, x.entities[k], x, policy)], recorded_at)

\* plan and plan_with_linker.
PlanWithLinker(x, linker, policy, recorded_at) ==
    IF ValidInput(x, recorded_at) /\ ValidOutput(x)
    THEN BuildPlan(x, linker, policy, recorded_at)
    ELSE None

=============================================================================
