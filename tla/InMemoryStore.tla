--------------------------- MODULE InMemoryStore ---------------------------
(***************************************************************************)
(* The data structure and the pure steps of `InMemoryStore`                *)
(* (src/src/store/in_memory).  Both stores use them: the in-memory store   *)
(* publishes its result directly, the file store writes the prepared batch *)
(* to the journal in between.                                              *)
(*                                                                         *)
(* A store is a record of the code's three fields.  Positions, versions    *)
(* and the entries of `streams` are zero-based, as in the code, so the     *)
(* event at position p is events[p + 1].  A stream the map does not hold   *)
(* has the empty sequence of positions: the code adds a stream only        *)
(* together with a first position.  The event envelope is reduced to the   *)
(* four fields the store reads or assigns.                                 *)
(***************************************************************************)
EXTENDS Optional, Sequences, SequencesExt, Iterators

CONSTANTS
    Streams,    \* stream identifiers
    EventIds    \* event identifiers a caller may choose

StoredEvent == [id: EventIds, stream_id: Streams, stream_version: Nat, global_position: Nat]

Store == [events: Seq(StoredEvent), streams: [Streams -> Seq(Nat)], event_ids: SUBSET EventIds]

\* None is no store: a rejected restore is told apart from any restored one.
ASSUME StoreAssumption == None \notin Store

EmptyStore == [events |-> <<>>, streams |-> [s \in Streams |-> <<>>], event_ids |-> {}]

\* Option<u64>: the version of the stream's last event.
StreamVersion(store, stream) ==
    LET positions == store.streams[stream]
    IN  IF positions = <<>> THEN None
        ELSE store.events[positions[Len(positions)] + 1].stream_version

NextVersion(version) == IF version = None THEN 0 ELSE version + 1

-----------------------------------------------------------------------------
\* ExpectedVersion: Any (AnyVersion here), NoStream, Exact(version).
AnyVersion == [kind |-> "Any", version |-> None]
NoStream == [kind |-> "NoStream", version |-> None]
Exact(v) == [kind |-> "Exact", version |-> v]

\* Mutant: Exact accepts any stream that has reached the version.
ExpectedAtLeast(expected, actual) ==
    \/ expected.kind = "Any"
    \/ expected.kind = "NoStream" /\ actual = None
    \/ expected.kind = "Exact" /\ actual # None /\ actual >= expected.version

Expected(expected, actual) ==
    \/ expected.kind = "Any"
    \/ expected.kind = "NoStream" /\ actual = None
    \/ expected.kind = "Exact" /\ actual = expected.version

\* Mutant: ids are compared with the stored ones only, not inside the batch.
UniqueIdsStoredOnly(known, ids) == \A k \in DOMAIN ids : ids[k] \notin known

UniqueIds(known, ids) ==
    \A k \in DOMAIN ids : ids[k] \notin known /\ \A j \in 1..(k - 1) : ids[j] # ids[k]

\* What prepare_append requires before it builds the envelopes.
CanPrepare(store, stream, expected, ids) ==
    /\ Expected(expected, StreamVersion(store, stream))
    /\ UniqueIds(store.event_ids, ids)

\* Mutant: the whole batch is numbered with the batch's first version.
PrepareAppendSameVersion(store, stream, ids) ==
    [k \in 1..Len(ids) |->
        [id |-> ids[k],
         stream_id |-> stream,
         stream_version |-> NextVersion(StreamVersion(store, stream)),
         global_position |-> Len(store.events) + k - 1]]

\* Mutant: offsets count from one less than the batch's first version.
PrepareAppendVersionBehind(store, stream, ids) ==
    [k \in 1..Len(ids) |->
        [id |-> ids[k],
         stream_id |-> stream,
         stream_version |-> NextVersion(StreamVersion(store, stream)) + k - 2,
         global_position |-> Len(store.events) + k - 1]]

\* Mutant: global positions start at one.
PrepareAppendOneBased(store, stream, ids) ==
    [k \in 1..Len(ids) |->
        [id |-> ids[k],
         stream_id |-> stream,
         stream_version |-> NextVersion(StreamVersion(store, stream)) + k - 1,
         global_position |-> Len(store.events) + k]]

\* The envelopes of a batch: consecutive versions and positions.
PrepareAppend(store, stream, ids) ==
    [k \in 1..Len(ids) |->
        [id |-> ids[k],
         stream_id |-> stream,
         stream_version |-> NextVersion(StreamVersion(store, stream)) + k - 1,
         global_position |-> Len(store.events) + k - 1]]

\* Mutant: every index entry of a batch points at the batch's first event.
CommitPreparedFirstPosition(store, committed) ==
    IF committed = <<>> THEN store
    ELSE [events |-> store.events \o committed,
          streams |-> [store.streams EXCEPT ![committed[1].stream_id] =
                         @ \o [k \in 1..Len(committed) |-> Len(store.events)]],
          event_ids |-> store.event_ids \cup {committed[k].id : k \in 1..Len(committed)}]

\* An empty batch returns early and does not create the stream.
CommitPrepared(store, committed) ==
    IF committed = <<>> THEN store
    ELSE [events |-> store.events \o committed,
          streams |-> [store.streams EXCEPT ![committed[1].stream_id] =
                         @ \o [k \in 1..Len(committed) |-> Len(store.events) + k - 1]],
          event_ids |-> store.event_ids \cup {committed[k].id : k \in 1..Len(committed)}]

-----------------------------------------------------------------------------
\* One iteration of restore; None once an event has been rejected.
RestoreStep(store, event) ==
    IF \/ store = None
       \/ event.global_position # Len(store.events)
       \/ event.stream_version # NextVersion(StreamVersion(store, event.stream_id))
       \/ event.id \in store.event_ids
    THEN None
    ELSE CommitPrepared(store, <<event>>)

Restore(events) ==
    LET restored[k \in 0..Len(events)] ==
            IF k = 0 THEN EmptyStore ELSE RestoreStep(restored[k - 1], events[k])
    IN  restored[Len(events)]

-----------------------------------------------------------------------------
\* Mutant: the cursor is inclusive.
AfterInclusive(cursor, value) == cursor = None \/ value >= cursor

\* "strictly after the optional cursor", shared by both loads.
After(cursor, value) == cursor = None \/ value > cursor

\* The events of a stream, through its index.
Indexed(store, stream) ==
    [k \in 1..Len(store.streams[stream]) |-> store.events[store.streams[stream][k] + 1]]

LoadStream(store, stream, after) ==
    LET loaded == Indexed(store, stream)
    IN  Filtered(loaded, {k \in 1..Len(loaded) : After(after, loaded[k].stream_version)})

LoadAll(store, after, limit) ==
    LET events == store.events
        matching == Filtered(events, {i \in 1..Len(events) : After(after, events[i].global_position)})
    IN  SubSeq(matching, 1, IF limit < Len(matching) THEN limit ELSE Len(matching))

-----------------------------------------------------------------------------
\* Positions are the indices of `events`: no gap, no duplicate, in order.
GlobalPositions(st) ==
    \A i \in 1..Len(st.events) : st.events[i].global_position = i - 1

\* The index entry of a stream at k is an event of the stream with version
\* k - 1, and the entries ascend.
StreamIndexSound(st) ==
    \A s \in Streams : \A k \in 1..Len(st.streams[s]) :
        /\ st.streams[s][k] + 1 \in 1..Len(st.events)
        /\ st.events[st.streams[s][k] + 1].stream_id = s
        /\ st.events[st.streams[s][k] + 1].stream_version = k - 1
        /\ \A j \in 1..(k - 1) : st.streams[s][j] < st.streams[s][k]

\* Every event is found through its stream's index, at its version.
StreamIndexComplete(st) ==
    \A i \in 1..Len(st.events) :
        LET e == st.events[i]
        IN  /\ e.stream_version + 1 \in 1..Len(st.streams[e.stream_id])
            /\ st.streams[e.stream_id][e.stream_version + 1] = i - 1

\* Identifiers are globally unique, and event_ids holds exactly the stored ones.
IdsUnique(st) ==
    /\ st.event_ids = {st.events[i].id : i \in 1..Len(st.events)}
    /\ \A i, j \in 1..Len(st.events) : i # j => st.events[i].id # st.events[j].id

WellFormed(st) ==
    /\ GlobalPositions(st)
    /\ StreamIndexSound(st)
    /\ StreamIndexComplete(st)
    /\ IdsUnique(st)

=============================================================================
