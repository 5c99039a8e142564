----------------------------- MODULE EventStore -----------------------------
(***************************************************************************)
(* The `EventStore` contract, implemented by `InMemoryStore`, seen by      *)
(* several clients that share one store.  A client follows a stream by     *)
(* incremental loads and appends with the version it has seen, as the      *)
(* optimistic-concurrency API is meant to be used: between its load and    *)
(* its append other clients append too.                                    *)
(***************************************************************************)
EXTENDS InMemoryStore

CONSTANTS
    Clients,
    MaxBatch,    \* bound: longest batch a client appends
    MaxAppends   \* bound: successful appends of a behaviour

ASSUME BoundsAssumption == MaxBatch \in Nat /\ MaxAppends \in Nat

VARIABLES
    store,   \* the shared InMemoryStore
    view,    \* view[c][s]: the events of stream s that client c has loaded
    writes,  \* history: one record for every successful append
    bases    \* history: what the author of writes[n] had loaded of the stream

vars == <<store, view, writes, bases>>

Batches == UNION {[1..n -> EventIds] : n \in 0..MaxBatch}

\* Option<u64>: the cursor a client keeps for a stream.
SeenVersion(c, s) ==
    IF view[c][s] = <<>> THEN None ELSE view[c][s][Len(view[c][s])].stream_version

\* The expectation a client derives from what it has loaded.
SeenExpectation(c, s) ==
    IF SeenVersion(c, s) = None THEN NoStream ELSE Exact(SeenVersion(c, s))

Write == [stream: Streams, expected: {"Any", "NoStream", "Exact"}, committed: Seq(StoredEvent)]

Init ==
    /\ store = EmptyStore
    /\ view = [c \in Clients |-> [s \in Streams |-> <<>>]]
    /\ writes = <<>>
    /\ bases = <<>>

\* append, append_owned and append_owned_receipt: the three differ only in
\* what they clone.  A rejected call returns an error and changes nothing.
AppendEvents(c, s, expected, ids) ==
    /\ Len(writes) < MaxAppends
    /\ CanPrepare(store, s, expected, ids)
    /\ LET committed == PrepareAppend(store, s, ids)
       IN  /\ store' = CommitPrepared(store, committed)
           /\ writes' = Append(writes, [stream |-> s, expected |-> expected.kind,
                                        committed |-> committed])
    /\ bases' = Append(bases, view[c][s])
    /\ UNCHANGED view

\* load_stream after the client's own cursor.
Refresh(c, s) ==
    /\ view' = [view EXCEPT ![c][s] = @ \o LoadStream(store, s, SeenVersion(c, s))]
    /\ UNCHANGED <<store, writes, bases>>

Next ==
    \E c \in Clients, s \in Streams :
        \/ \E ids \in Batches, expected \in {AnyVersion, SeenExpectation(c, s)} :
               AppendEvents(c, s, expected, ids)
        \/ Refresh(c, s)

Spec == Init /\ [][Next]_vars

-----------------------------------------------------------------------------
\* Types: in particular every stored event has a natural version and position,
\* whatever batch and expectation it was appended with.
TypeOK ==
    /\ store \in Store
    /\ view \in [Clients -> [Streams -> Seq(StoredEvent)]]
    /\ writes \in Seq(Write)
    /\ bases \in Seq(Seq(StoredEvent)) /\ Len(bases) = Len(writes)

\* The three fields of the store agree after every sequence of appends:
\* gapless global order, gapless versions per stream, unique identifiers and
\* an exact stream index (commit_prepared maintains them incrementally).
StoreWellFormed == WellFormed(store)

\* What append builds, restore accepts and rebuilds identically: replaying
\* the committed events into an empty store gives this store back, indexes
\* included (prepare_append's numbering against restore's validation).
RestoreRoundTrip == Restore(store.events) = store

StreamEvents(st, s) == Filtered(st.events, {i \in 1..Len(st.events) : st.events[i].stream_id = s})

\* A client that loads incrementally "after" the last version it saw never
\* misses or repeats an event, whatever was appended in between.
ViewsArePrefixes ==
    \A c \in Clients, s \in Streams : IsPrefix(view[c][s], StreamEvents(store, s))

\* Optimistic concurrency: an append that states the version its author had
\* loaded lands directly behind the events the author had seen, so no other
\* client's event slipped in between load and append.
NoLostUpdate ==
    \A n \in 1..Len(writes) :
        LET w == writes[n]
        IN  (w.expected # "Any" /\ w.committed # <<>>) =>
                LET events == StreamEvents(store, w.stream)
                IN  bases[n] = Filtered(events, {k \in 1..Len(events) :
                                  events[k].global_position < w.committed[1].global_position})

\* A batch is committed whole and contiguously and is never changed again:
\* every successful append is still readable at the positions it returned.
BatchesStayCommitted ==
    \A n \in 1..Len(writes) : writes[n].committed # <<>> =>
        LET first == writes[n].committed[1].global_position
            next == first + Len(writes[n].committed)
        IN  /\ next <= Len(store.events)
            /\ SubSeq(store.events, first + 1, next) = writes[n].committed

=============================================================================
