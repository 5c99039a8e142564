------------------------------ MODULE Recovery ------------------------------
(***************************************************************************)
(* One host over the file store, with what it keeps outside the journal: a *)
(* subscription checkpoint it saves, and snapshots of a projection that it *)
(* resumes from the journal.  When the process dies or power is lost, the  *)
(* host comes back with the saved checkpoint and the latest snapshot, and  *)
(* nothing in the code compares either with the journal it reopens.        *)
(*                                                                         *)
(* A projection is the sequence of the events applied to it: what it holds *)
(* is a function of them (see ProjectionReplay).                           *)
(***************************************************************************)
EXTENDS FileEventStore, ReplayCursor

CONSTANTS
    Host,        \* the process; no other one opens the journal
    BatchSize,   \* events a poll returns at most
    MaxEvents    \* bound: events of the journal

ASSUME RecoveryAssumption ==
    /\ Host \in Processes
    /\ BatchSize \in Nat \ {0} /\ MaxEvents \in Nat

VARIABLES
    checkpoint, delivered_through, saved,  \* the subscription, as in CatchUpSubscription
    live,        \* the host's projection, or None before the first resume
    snapshots,   \* the snapshots the host has stored
    seen,        \* history: the events some poll returned
    unsynced,    \* history: did the store last publish events that were not on disk?
    tainted      \* history: was power lost at such a time?

subscription == <<checkpoint, delivered_through, saved>>
projection == <<live, snapshots>>
observed == <<seen, unsynced, tainted>>
recovery_vars == <<vars, subscription, projection, observed>>

Sub == INSTANCE CatchUpSubscription WITH
    store <- inner[Host],
    delivered <- {event.global_position : event \in seen},
    restarts <- 0,
    MaxRestarts <- 0

RecoveryInit ==
    /\ Init
    /\ checkpoint = None /\ delivered_through = None /\ saved = None
    /\ live = None /\ snapshots = {}
    /\ seen = {} /\ unsynced = FALSE /\ tainted = FALSE

-----------------------------------------------------------------------------
\* What the host holds in memory goes with the store it belongs to; the next
\* CatchUpSubscription::new starts from the saved checkpoint.
Forget ==
    IF pc'[Host] = "closed"
    THEN checkpoint' = saved /\ delivered_through' = None /\ live' = None
    ELSE UNCHANGED <<checkpoint, delivered_through, live>>

\* A step of the store.  It publishes events when it commits a batch or
\* restores a journal.
StoreStep ==
    /\ ProcessStep(Host)
    /\ Forget
    /\ unsynced' = IF pc'[Host] # "open" \/ inner'[Host] = inner[Host] THEN unsynced
                   ELSE IF pc[Host] = "written" THEN options[Host].durability = "Flush"
                   ELSE disk' # file'
    /\ UNCHANGED <<saved, snapshots, seen, tainted>>

DiskStep ==
    /\ Writeback
    /\ UNCHANGED <<subscription, projection, observed>>

\* With the cache some snapshots may go; the checkpoint the host keeps safe.
PowerStep ==
    /\ LosePower
    /\ Forget
    /\ snapshots' \in SUBSET snapshots
    /\ tainted' = (tainted \/ unsynced)
    /\ UNCHANGED <<saved, seen, unsynced>>

-----------------------------------------------------------------------------
\* The subscription over the open store.
Poll ==
    /\ pc[Host] = "open"
    /\ seen' = seen \cup ToSet(LoadAll(inner[Host], checkpoint, BatchSize))
    /\ UNCHANGED <<vars, projection, unsynced, tainted>>
    /\ Sub!Poll

Acknowledge(position) ==
    /\ pc[Host] = "open"
    /\ UNCHANGED <<vars, projection, observed>>
    /\ Sub!Acknowledge(position)

Save ==
    /\ UNCHANGED <<vars, projection, observed>>
    /\ Sub!Save

-----------------------------------------------------------------------------
\* The projection.

\* One iteration of apply_sequence; None once an event has been rejected.
ApplyNext(acc, event) ==
    IF acc = None THEN None
    ELSE IF ~ValidNext(acc.cursor, acc.ids, event) THEN None
    ELSE [events |-> Append(acc.events, event),
          cursor |-> Advance(acc.cursor, event),
          ids |-> acc.ids \cup {event.id}]

CursorOf(events) ==
    LET cursor[k \in 0..Len(events)] ==
            IF k = 0 THEN StartCursor ELSE Advance(cursor[k - 1], events[k])
    IN  cursor[Len(events)]

\* resume: the events of the projection with the tail, or None.
Resume(events, tail) ==
    LET applied[k \in 0..Len(tail)] ==
            IF k = 0 THEN [events |-> events, cursor |-> CursorOf(events), ids |-> {}]
            ELSE ApplyNext(applied[k - 1], tail[k])
        result == applied[Len(tail)]
    IN  IF result = None THEN None ELSE result.events

\* load_latest; no snapshot is a projection of no events.
Latest ==
    IF snapshots = {} THEN <<>>
    ELSE CHOOSE s \in snapshots : \A t \in snapshots : Len(t) <= Len(s)

\* The host brings its projection up to date: the one in memory, else the
\* latest snapshot, with the events behind its cursor.  A tail that resume
\* rejects changes nothing.
CatchUp ==
    LET base == IF live = None THEN Latest ELSE live
        tail == LoadAll(inner[Host], CursorOf(base).global_position, MaxEvents)
    IN  /\ pc[Host] = "open"
        /\ Resume(base, tail) # None
        /\ live' = Resume(base, tail)
        /\ UNCHANGED <<vars, subscription, snapshots, observed>>

\* A generation that exists is not replaced: the same content returns Ok,
\* another is an error.
SaveSnapshot ==
    /\ live \notin {None, <<>>}
    /\ \A s \in snapshots : Len(s) # Len(live)
    /\ snapshots' = snapshots \cup {live}
    /\ UNCHANGED <<vars, subscription, live, observed>>

RecoveryNext ==
    \/ StoreStep
    \/ DiskStep
    \/ PowerStep
    \/ Poll
    \/ \E position \in 0..(MaxEvents - 1) : Acknowledge(position)
    \/ Save
    \/ CatchUp
    \/ SaveSnapshot

RecoverySpec == RecoveryInit /\ [][RecoveryNext]_recovery_vars

-----------------------------------------------------------------------------
\* The events of the journal, also those whose append has not returned.
Journal == FlattenSeq(BatchesOf(file))

\* A checkpoint never runs ahead of the journal, nor over an event that no
\* poll returned: whatever appends and syncs fail, the host dies and power is
\* lost, everything at or before the checkpoint is in the journal as it was
\* delivered.  The exception is a loss of power while the store showed events
\* that were not on disk: after a commit with Flush, or after a restart that
\* restored a frame which the process before it had not synced.
CheckpointBacked ==
    ~tainted => \A c \in {checkpoint, saved} \ {None} :
        c < Len(Journal) /\ \A k \in 1..(c + 1) : Journal[k] \in seen

\* Snapshots stay a past of the journal: with the same exception, every
\* snapshot and the host's projection hold a beginning of the journal, so
\* resume finds its cursor there and misses nothing behind it.
SnapshotsBacked ==
    ~tainted => \A s \in snapshots \cup ({live} \ {None}) : IsPrefix(s, Journal)

=============================================================================
