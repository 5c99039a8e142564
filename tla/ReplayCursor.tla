---------------------------- MODULE ReplayCursor ----------------------------
(***************************************************************************)
(* `ReplayCursor` (src/src/projection/replay.rs): how far a projection has *)
(* come, and the events it takes next.                                     *)
(***************************************************************************)
EXTENDS InMemoryStore

Cursors == [global_position: Nat \cup {None}, stream_versions: [Streams -> Nat \cup {None}]]

StartCursor == [global_position |-> None, stream_versions |-> [s \in Streams |-> None]]

\* Mutant: positions only have to grow.
ValidNextGrowing(cursor, ids, metadata) ==
    /\ metadata.id \notin ids
    /\ After(cursor.global_position, metadata.global_position)
    /\ metadata.stream_version = NextVersion(cursor.stream_versions[metadata.stream_id])

\* validate_next; ids are those of the tail so far.
ValidNext(cursor, ids, metadata) ==
    /\ metadata.id \notin ids
    /\ metadata.global_position = NextVersion(cursor.global_position)
    /\ metadata.stream_version = NextVersion(cursor.stream_versions[metadata.stream_id])

\* The cursor behind an event.
Advance(cursor, metadata) ==
    [global_position |-> metadata.global_position,
     stream_versions |-> [cursor.stream_versions EXCEPT
                            ![metadata.stream_id] = metadata.stream_version]]

=============================================================================
