-------------------------- MODULE MemoryProjection --------------------------
(***************************************************************************)
(* `MemoryProjection` (src/src/projection/memory): nodes with revisions,   *)
(* facts between nodes, supersessions and retractions, and the indexes     *)
(* derived from them.  A projection is a record of the code's fields.      *)
(* Indexes into `nodes` and `facts` are zero-based as in the code.  The    *)
(* maps are total functions whose missing entries are None.                *)
(*                                                                         *)
(* The content of a node is the position of the event that wrote it; text, *)
(* evidence and provenance beyond time and confidence are left out.  Some  *)
(* rejections are therefore not seen, and the events that meet them are no *)
(* inputs: malformed text or evidence; an event_type that is not the       *)
(* payload's, and a fact whose agent or session is not its event's         *)
(* (apply.rs:28, 42-43); a fact observed after it was recorded             *)
(* (fact.rs:112).  No plan of the extraction makes such an event.          *)
(***************************************************************************)
EXTENDS Optional, Sequences, FiniteSets, SequencesExt, FiniteSetsExt, Iterators

CONSTANTS
    Entities,   \* EntityId
    FactIds,    \* FactId
    Relations   \* relation kinds

Time == Nat

NodeRevision == [id: Entities, recorded_at: Time, position: Nat]

\* Confidence, in basis points.
Confidence == 0..10000

Fact == [id: FactIds, source: Entities, target: Entities, relation: Relations,
         confidence: Confidence, valid_from: Time, valid_until: Time \cup {None},
         recorded_at: Time, supersedes: FactIds \cup {None}]

Supersession == [replacement: FactIds, valid_from: Time, recorded_at: Time]

Retraction == [valid_until: Time, recorded_at: Time]

\* MemoryEvent.
NodeUpserted(id) == [kind |-> "NodeUpserted", id |-> id]
FactRecorded(fact) == [kind |-> "FactRecorded", fact |-> fact]
FactRetracted(id, until) == [kind |-> "FactRetracted", fact_id |-> id, valid_until |-> until]

MemoryEvent ==
    [kind: {"NodeUpserted"}, id: Entities] \cup [kind: {"FactRecorded"}, fact: Fact]
      \cup [kind: {"FactRetracted"}, fact_id: FactIds, valid_until: Time]

NodeIndex == 0..(Cardinality(Entities) - 1)

Projection ==
    [nodes: Seq(Seq(NodeRevision)), facts: Seq(Fact),
     node_lookup: [Entities -> Nat \cup {None}], fact_lookup: [FactIds -> Nat \cup {None}],
     incident_offsets: Seq(Nat), incident_facts: Seq(Nat),
     incident_delta: [NodeIndex -> Seq(Nat)],
     supersessions: [FactIds -> Supersession \cup {None}],
     retractions: [FactIds -> Retraction \cup {None}],
     last_global_position: Nat \cup {None}]

\* Entities can be counted, and None is none of the values it stands beside.
ASSUME ProjectionAssumption ==
    /\ IsFiniteSet(Entities)
    /\ None \notin FactIds /\ None \notin Supersession /\ None \notin Retraction
    /\ None \notin NodeRevision /\ None \notin Projection

EmptyProjection ==
    [nodes |-> <<>>, facts |-> <<>>,
     node_lookup |-> [e \in Entities |-> None], fact_lookup |-> [f \in FactIds |-> None],
     incident_offsets |-> <<0>>, incident_facts |-> <<>>,
     incident_delta |-> [n \in NodeIndex |-> <<>>],
     supersessions |-> [f \in FactIds |-> None],
     retractions |-> [f \in FactIds |-> None],
     last_global_position |-> None]

-----------------------------------------------------------------------------
\* Recording events.

InsertNode(p, revision) ==
    LET index == p.node_lookup[revision.id]
    IN  IF index # None
        THEN [p EXCEPT !.nodes[index + 1] = Append(@, revision)]
        ELSE [p EXCEPT !.node_lookup[revision.id] = Len(p.nodes),
                       !.nodes = Append(@, <<revision>>),
                       !.incident_offsets = Append(@, @[Len(@)])]

ValidFact(fact) == fact.valid_until # None => fact.valid_until > fact.valid_from

\* Mutant: the prior fact may already have a replacement.
CanInsertFactTwice(p, fact) ==
    /\ ValidFact(fact)
    /\ p.node_lookup[fact.source] # None
    /\ p.node_lookup[fact.target] # None
    /\ p.fact_lookup[fact.id] = None
    /\ fact.supersedes # None => p.fact_lookup[fact.supersedes] # None

CanInsertFact(p, fact) ==
    /\ ValidFact(fact)
    /\ p.node_lookup[fact.source] # None
    /\ p.node_lookup[fact.target] # None
    /\ p.fact_lookup[fact.id] = None
    /\ fact.supersedes # None =>
         /\ p.fact_lookup[fact.supersedes] # None
         /\ p.supersessions[fact.supersedes] = None

ApplySupersession(p, fact) ==
    IF fact.supersedes = None THEN p
    ELSE [p EXCEPT !.supersessions[fact.supersedes] =
             [replacement |-> fact.id, valid_from |-> fact.valid_from,
              recorded_at |-> fact.recorded_at]]

\* Mutant: a self-loop enters the index of its node twice.
InsertFactLoopTwice(p, fact) ==
    LET source == p.node_lookup[fact.source]
        target == p.node_lookup[fact.target]
        index == Len(p.facts)
        Twice(n) == IF n = source /\ n = target THEN <<index, index>>
                    ELSE IF n \in {source, target} THEN <<index>> ELSE <<>>
    IN  [ApplySupersession(p, fact) EXCEPT
            !.fact_lookup[fact.id] = index,
            !.incident_delta = [n \in NodeIndex |-> @[n] \o Twice(n)],
            !.facts = Append(@, fact)]

InsertFact(p, fact) ==
    LET source == p.node_lookup[fact.source]
        target == p.node_lookup[fact.target]
        index == Len(p.facts)
    IN  [ApplySupersession(p, fact) EXCEPT
            !.fact_lookup[fact.id] = index,
            !.incident_delta = [n \in NodeIndex |->
                IF n \in {source, target} THEN Append(@[n], index) ELSE @[n]],
            !.facts = Append(@, fact)]

CanRetract(p, id, until) ==
    /\ p.fact_lookup[id] # None
    /\ until > p.facts[p.fact_lookup[id] + 1].valid_from

\* The map keeps the latest retraction of a fact.
ApplyRetraction(p, id, until, recorded_at) ==
    [p EXCEPT !.retractions[id] = [valid_until |-> until, recorded_at |-> recorded_at]]

\* Does apply accept a payload recorded at a time?
Accepts(p, payload, recorded_at) ==
    CASE payload.kind = "NodeUpserted" -> TRUE
      [] payload.kind = "FactRecorded" ->
            payload.fact.recorded_at = recorded_at /\ CanInsertFact(p, payload.fact)
      [] payload.kind = "FactRetracted" -> CanRetract(p, payload.fact_id, payload.valid_until)

\* apply and apply_owned, for a payload they accept.
Apply(p, payload, recorded_at, position) ==
    LET applied ==
          CASE payload.kind = "NodeUpserted" ->
                 InsertNode(p, [id |-> payload.id, recorded_at |-> recorded_at,
                                position |-> position])
            [] payload.kind = "FactRecorded" -> InsertFact(p, payload.fact)
            [] payload.kind = "FactRetracted" ->
                 ApplyRetraction(p, payload.fact_id, payload.valid_until, recorded_at)
    IN  [applied EXCEPT !.last_global_position = position]

-----------------------------------------------------------------------------
\* Rebuilding the indexes of a decoded projection.

\* What a snapshot holds of a projection; the indexes are derived.
Canonical(p) ==
    [nodes |-> p.nodes, facts |-> p.facts, supersessions |-> p.supersessions,
     retractions |-> p.retractions, last_global_position |-> p.last_global_position]

\* The checks of rebuild_indexes and validate_changes.
Consistent(data) ==
    LET ids == {data.nodes[n][1].id : n \in DOMAIN data.nodes}
    IN  /\ \A n \in DOMAIN data.nodes :
             /\ \A r \in DOMAIN data.nodes[n] : data.nodes[n][r].id = data.nodes[n][1].id
             /\ \A m \in 1..(n - 1) : data.nodes[m][1].id # data.nodes[n][1].id
        /\ \A k \in DOMAIN data.facts :
             /\ ValidFact(data.facts[k])
             /\ {data.facts[k].source, data.facts[k].target} \subseteq ids
             /\ \A j \in 1..(k - 1) : data.facts[j].id # data.facts[k].id
        /\ \A prior \in FactIds : data.supersessions[prior] # None =>
             /\ \E k \in DOMAIN data.facts : data.facts[k].id = prior
             /\ \E k \in DOMAIN data.facts :
                  /\ data.facts[k].id = data.supersessions[prior].replacement
                  /\ data.facts[k].supersedes = prior
                  /\ data.facts[k].valid_from = data.supersessions[prior].valid_from
                  /\ data.facts[k].recorded_at = data.supersessions[prior].recorded_at
        /\ \A id \in FactIds : data.retractions[id] # None =>
             \E k \in DOMAIN data.facts :
                data.facts[k].id = id /\ data.retractions[id].valid_until > data.facts[k].valid_from

\* The index that belongs to the first of some places of a sequence, or None.
Lookup(places) == IF places = {} THEN None ELSE Min(places) - 1

\* get of the two lookups, once every node and every fact is in its index.
NodeAt(nodes, id) == Lookup({n \in DOMAIN nodes : nodes[n][1].id = id})

FactAt(facts, id) == Lookup({k \in DOMAIN facts : facts[k].id = id})

\* set_incidents: the facts of every node, by counting sort.  ends[k] is the
\* set of the node indexes fact k - 1 touches; a self-loop touches one.
Degree(ends, n) ==
    LET touching[k \in 0..Len(ends)] ==
            IF k = 0 THEN 0 ELSE touching[k - 1] + (IF n \in ends[k] THEN 1 ELSE 0)
    IN  touching[Len(ends)]

Offsets(nodes, ends) ==
    LET offset[n \in 1..(nodes + 1)] ==
            IF n = 1 THEN 0 ELSE offset[n - 1] + Degree(ends, n - 2)
    IN  offset

\* One fact goes where the cursors of its nodes stand.
Place(acc, touched, fact) ==
    [cursor |-> [n \in DOMAIN acc.cursor |->
                   IF n - 1 \in touched THEN acc.cursor[n] + 1 ELSE acc.cursor[n]],
     facts |-> [i \in DOMAIN acc.facts |->
                   IF \E n \in touched : acc.cursor[n + 1] + 1 = i THEN fact ELSE acc.facts[i]]]

Incidents(offsets, ends) ==
    LET placed[k \in 0..Len(ends)] ==
            IF k = 0
            THEN [cursor |-> offsets, facts |-> [i \in 1..offsets[Len(offsets)] |-> 0]]
            ELSE Place(placed[k - 1], ends[k], k - 1)
    IN  placed[Len(ends)].facts

\* The node indexes of every fact's endpoints.
Endpoints(data) ==
    [k \in DOMAIN data.facts |->
        {NodeAt(data.nodes, data.facts[k].source), NodeAt(data.nodes, data.facts[k].target)}]

\* Mutant: only the first revision of a node comes back.
RebuildIndexesFirstRevision(data) ==
    LET ends == Endpoints(data)
        offsets == Offsets(Len(data.nodes), ends)
    IN  IF ~Consistent(data) THEN None
        ELSE [nodes |-> [n \in DOMAIN data.nodes |-> <<data.nodes[n][1]>>], facts |-> data.facts,
              node_lookup |-> [e \in Entities |-> NodeAt(data.nodes, e)],
              fact_lookup |-> [f \in FactIds |-> FactAt(data.facts, f)],
              incident_offsets |-> offsets, incident_facts |-> Incidents(offsets, ends),
              incident_delta |-> [n \in NodeIndex |-> <<>>],
              supersessions |-> data.supersessions, retractions |-> data.retractions,
              last_global_position |-> data.last_global_position]

\* Deserialisation: None if a check fails.
RebuildIndexes(data) ==
    LET ends == Endpoints(data)
        offsets == Offsets(Len(data.nodes), ends)
    IN  IF ~Consistent(data) THEN None
        ELSE [nodes |-> data.nodes, facts |-> data.facts,
              node_lookup |-> [e \in Entities |-> NodeAt(data.nodes, e)],
              fact_lookup |-> [f \in FactIds |-> FactAt(data.facts, f)],
              incident_offsets |-> offsets, incident_facts |-> Incidents(offsets, ends),
              incident_delta |-> [n \in NodeIndex |-> <<>>],
              supersessions |-> data.supersessions, retractions |-> data.retractions,
              last_global_position |-> data.last_global_position]

-----------------------------------------------------------------------------
\* Queries.

\* incident_fact_ids: the rebuilt part of the index, then the later facts.
IncidentFactIds(p, id) ==
    LET index == p.node_lookup[id]
        stable == SubSeq(p.incident_facts, p.incident_offsets[index + 1] + 1,
                         p.incident_offsets[index + 2])
        found == stable \o p.incident_delta[index]
    IN  IF index = None THEN <<>> ELSE [k \in DOMAIN found |-> p.facts[found[k] + 1].id]

\* visible_revision: the latest known one; position breaks ties.
VisibleRevision(history, known_at) ==
    LET known == {k \in DOMAIN history : history[k].recorded_at <= known_at}
        Newer(r, q) == r.recorded_at > q.recorded_at
                         \/ (r.recorded_at = q.recorded_at /\ r.position >= q.position)
        newest == {k \in known : \A j \in known : Newer(history[k], history[j])}
    IN  IF known = {} THEN None ELSE history[CHOOSE k \in newest : TRUE]

\* Mutant: a supersession counts before it was recorded.
FactIsActiveEager(p, fact, valid_at, known_at) ==
    /\ fact.recorded_at <= known_at
    /\ fact.valid_from <= valid_at
    /\ fact.valid_until # None => valid_at < fact.valid_until
    /\ p.supersessions[fact.id] # None =>
         ~(p.supersessions[fact.id].valid_from <= valid_at)
    /\ p.retractions[fact.id] # None =>
         ~(p.retractions[fact.id].recorded_at <= known_at
             /\ p.retractions[fact.id].valid_until <= valid_at)

FactIsActive(p, fact, valid_at, known_at) ==
    /\ fact.recorded_at <= known_at
    /\ fact.valid_from <= valid_at
    /\ fact.valid_until # None => valid_at < fact.valid_until
    /\ p.supersessions[fact.id] # None =>
         ~(p.supersessions[fact.id].recorded_at <= known_at
             /\ p.supersessions[fact.id].valid_from <= valid_at)
    /\ p.retractions[fact.id] # None =>
         ~(p.retractions[fact.id].recorded_at <= known_at
             /\ p.retractions[fact.id].valid_until <= valid_at)

\* The nodes of a view.
VisibleNodes(p, known_at) ==
    LET visible == [n \in DOMAIN p.nodes |-> VisibleRevision(p.nodes[n], known_at)]
    IN  Filtered(visible, {n \in DOMAIN visible : visible[n] # None})

\* Mutant: the endpoints are never looked at.
ViewRefOpen(p, valid_at, known_at) ==
    [nodes |-> VisibleNodes(p, known_at),
     facts |-> Filtered(p.facts, {k \in DOMAIN p.facts :
                   FactIsActive(p, p.facts[k], valid_at, known_at)})]

\* view_ref; the endpoints are looked at only if some node is not visible.
ViewRef(p, valid_at, known_at) ==
    LET nodes == VisibleNodes(p, known_at)
        ids == {nodes[n].id : n \in DOMAIN nodes}
        shown == {k \in DOMAIN p.facts :
                    /\ Len(nodes) # Len(p.nodes) =>
                         {p.facts[k].source, p.facts[k].target} \subseteq ids
                    /\ FactIsActive(p, p.facts[k], valid_at, known_at)}
    IN  [nodes |-> nodes, facts |-> Filtered(p.facts, shown)]

=============================================================================
