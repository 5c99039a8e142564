-------------------------- MODULE ProjectionReplay --------------------------
(***************************************************************************)
(* A `MemoryProjection` kept up to date from an event store by `resume`    *)
(* (src/src/projection/replay.rs), with snapshots written and read back in *)
(* between.  A host appends an event, resumes its projection with the new  *)
(* tail, and may at any time replace the projection by the decoded form of *)
(* its own snapshot, as it does after a restart.                           *)
(***************************************************************************)
EXTENDS ReplayCursor, MemoryProjection

CONSTANTS
    Inputs,      \* what the host may record: payload, time and stream
    MaxEvents    \* bound: events of the log

ASSUME InputsAssumption ==
    /\ MaxEvents \in Nat
    /\ 1..MaxEvents \subseteq EventIds
    /\ Inputs \subseteq [payload: MemoryEvent, recorded_at: Time, stream: Streams]

\* What apply_sequence carries from event to event.
Progress == [projection: Projection, cursor: Cursors, ids: SUBSET EventIds]

\* None is no progress: a rejected sequence is told apart from any accepted one.
ASSUME ProgressAssumption == None \notin Progress

VARIABLES
    store,     \* the event store
    recorded,  \* recorded[i]: the input stored as the event at position i - 1
    live       \* ProjectionSnapshot: the host's projection and its cursor

vars == <<store, recorded, live>>

-----------------------------------------------------------------------------
\* The events from position `from` to before position `to`, with payloads.
Segment(from, to) ==
    [k \in 1..(to - from) |-> [metadata |-> store.events[from + k], input |-> recorded[from + k]]]

\* One iteration of apply_sequence; None once an event has been rejected.
ApplyNext(acc, event) ==
    IF acc = None THEN None
    ELSE IF \/ ~ValidNext(acc.cursor, acc.ids, event.metadata)
            \/ ~Accepts(acc.projection, event.input.payload, event.input.recorded_at)
    THEN None
    ELSE [projection |-> Apply(acc.projection, event.input.payload, event.input.recorded_at,
                               event.metadata.global_position),
          cursor |-> Advance(acc.cursor, event.metadata),
          ids |-> acc.ids \cup {event.metadata.id}]

\* apply_sequence: the events of the tail, one after the other.
ApplySequence(snapshot, tail) ==
    LET applied[k \in 0..Len(tail)] ==
            IF k = 0
            THEN [projection |-> snapshot.projection, cursor |-> snapshot.cursor, ids |-> {}]
            ELSE ApplyNext(applied[k - 1], tail[k])
    IN  applied[Len(tail)]

\* resume: the snapshot with the tail applied, or None.
Resume(snapshot, tail) ==
    LET result == ApplySequence(snapshot, tail)
    IN  IF result = None THEN None
        ELSE [projection |-> result.projection, cursor |-> result.cursor]

\* replay, replay_owned and replay_tracked, of the first n events.
Replay(n) ==
    Resume([projection |-> EmptyProjection, cursor |-> StartCursor], Segment(0, n))

\* A snapshot on the way through its codec; None if decoding rejects it.
Reloaded(snapshot) ==
    LET projection == RebuildIndexes(Canonical(snapshot.projection))
    IN  IF projection = None
           \/ snapshot.cursor.global_position # snapshot.projection.last_global_position
        THEN None
        ELSE [projection |-> projection, cursor |-> snapshot.cursor]

-----------------------------------------------------------------------------
Init ==
    /\ store = EmptyStore
    /\ recorded = <<>>
    /\ live = [projection |-> EmptyProjection, cursor |-> StartCursor]

\* The host appends an event that its projection accepts and catches up.  The
\* store itself takes any payload: see the README on rejected events.
Record(input) ==
    LET n == Len(store.events)
        committed == PrepareAppend(store, input.stream, <<n + 1>>)
    IN  /\ n < MaxEvents
        /\ Accepts(live.projection, input.payload, input.recorded_at)
        /\ store' = CommitPrepared(store, committed)
        /\ recorded' = Append(recorded, input)
        /\ live' = Resume(live, [k \in 1..1 |-> [metadata |-> committed[k], input |-> input]])

\* The host restarts from its snapshot.
Reload ==
    /\ live' = Reloaded(live)
    /\ UNCHANGED <<store, recorded>>

Next == Reload \/ \E input \in Inputs : Record(input)

Spec == Init /\ [][Next]_vars

-----------------------------------------------------------------------------
\* Types; the projection is never None, so every reload and resume of the host
\* succeeded.
TypeOK ==
    /\ store \in Store
    /\ recorded \in Seq(Inputs) /\ Len(recorded) = Len(store.events)
    /\ live \in [projection: Projection, cursor: Cursors]

Equal(x, y) == x.cursor = y.cursor /\ Canonical(x.projection) = Canonical(y.projection)

\* Snapshots are transparent: however often the host has reloaded, its state
\* equals a complete replay of the log, and so does the resume of every
\* reloaded snapshot of the past with the rest of the log.
SnapshotsTransparent ==
    LET n == Len(store.events)
    IN  /\ Equal(live, Replay(n))
        /\ \A k \in 0..n : Equal(Resume(Reloaded(Replay(k)), Segment(k, n)), Replay(n))

\* resume takes only the exact continuation: of all segments of the log, the
\* ones that start at the snapshot's cursor and the empty ones are accepted.
ResumeIsExact ==
    LET n == Len(store.events)
    IN  \A k \in 0..n, from \in 0..n : \A to \in (from + 1)..n :
            Resume(Replay(k), Segment(from, to)) # None => from = k

\* The derived indexes are exact after any mix of inserts and rebuilds: every
\* identifier is found where it is stored, and the incident facts of a node
\* are all its facts, in order, a self-loop once.
IndexesExact ==
    LET p == live.projection
    IN  /\ \A e \in Entities :
             /\ p.node_lookup[e] = NodeAt(p.nodes, e)
             /\ LET mine == Filtered(p.facts, {k \in DOMAIN p.facts : e \in {p.facts[k].source, p.facts[k].target}})
                IN  IncidentFactIds(p, e) = [k \in DOMAIN mine |-> mine[k].id]
        /\ \A id \in FactIds : p.fact_lookup[id] = FactAt(p.facts, id)

Clock == UNION {0..(input.recorded_at + 1) : input \in Inputs}

\* No view shows a fact beside the fact that replaced it.
ReplacementHidesPrior ==
    \A valid_at, known_at \in Clock :
        LET facts == ToSet(ViewRef(live.projection, valid_at, known_at).facts)
        IN  \A f, g \in facts : g.supersedes # f.id

\* Every fact of a view has both its endpoints in the view.
ViewsAreClosed ==
    \A valid_at, known_at \in Clock :
        LET view == ViewRef(live.projection, valid_at, known_at)
            ids == {view.nodes[n].id : n \in DOMAIN view.nodes}
        IN  \A f \in ToSet(view.facts) : {f.source, f.target} \subseteq ids

InOrder == \A j, k \in DOMAIN recorded : j < k => recorded[j].recorded_at <= recorded[k].recorded_at

RetractedTwice ==
    \E j, k \in DOMAIN recorded :
        /\ j < k
        /\ recorded[j].payload.kind = "FactRetracted" /\ recorded[k].payload.kind = "FactRetracted"
        /\ recorded[j].payload.fact_id = recorded[k].payload.fact_id

\* What was known at a time is what a replay of the log of that time shows.
KnownTimeShowsThePast ==
    \A valid_at, known_at \in Clock :
        LET past == Replay(Cardinality({k \in DOMAIN recorded : recorded[k].recorded_at <= known_at}))
        IN  ViewRef(live.projection, valid_at, known_at) = ViewRef(past.projection, valid_at, known_at)

\* Views of the past are stable: as long as times do not run backwards and no
\* fact is retracted twice, a view with an earlier known_at is exactly the
\* view the host would have computed then.
PastViewsStable == (InOrder /\ ~RetractedTwice) => KnownTimeShowsThePast

\* The same without the restriction to one retraction, as the documentation
\* of known-time queries has it: a correction recorded later never rewrites
\* what was known before.
CorrectionsKeepThePast == InOrder => KnownTimeShowsThePast

=============================================================================
