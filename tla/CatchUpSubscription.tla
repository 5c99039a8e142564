------------------------ MODULE CatchUpSubscription ------------------------
(***************************************************************************)
(* `CatchUpSubscription` (src/src/store/subscription.rs) over a store that *)
(* a producer keeps appending to.  The consumer's host polls, acknowledges *)
(* whatever position it likes, saves the checkpoint at its own pace and    *)
(* may stop at any moment and come back with the checkpoint it saved last. *)
(***************************************************************************)
EXTENDS InMemoryStore

CONSTANTS
    BatchSize,     \* events a poll returns at most
    MaxEvents,     \* bound: events the producer appends
    MaxRestarts    \* bound: times the host stops and comes back

\* CatchUpSubscription::new rejects a zero batch size.
ASSUME SubscriptionAssumption ==
    /\ BatchSize \in Nat \ {0}
    /\ MaxEvents \in Nat
    /\ MaxRestarts \in Nat
    /\ 1..MaxEvents \subseteq EventIds

VARIABLES
    store,              \* the store both sides share
    checkpoint,         \* SubscriptionCheckpoint.global_position
    delivered_through,  \* last position of the latest non-empty poll
    saved,              \* the checkpoint the host has persisted
    delivered,          \* history: positions some poll returned
    restarts

vars == <<store, checkpoint, delivered_through, saved, delivered, restarts>>

Position == 0..(MaxEvents - 1)

Init ==
    /\ store = EmptyStore
    /\ checkpoint = None
    /\ delivered_through = None
    /\ saved = None
    /\ delivered = {}
    /\ restarts = 0

\* The producer appends the next one or two events; their identifiers follow
\* the log, as nothing here depends on them.
Produce(s, n) ==
    LET ids == [k \in 1..n |-> Len(store.events) + k]
    IN  /\ Len(store.events) + n <= MaxEvents
        /\ CanPrepare(store, s, AnyVersion, ids)
        /\ store' = CommitPrepared(store, PrepareAppend(store, s, ids))
        /\ UNCHANGED <<checkpoint, delivered_through, saved, delivered, restarts>>

\* The next batch, without advancing the checkpoint.  An empty poll forgets
\* what an earlier one delivered.
Poll ==
    LET events == LoadAll(store, checkpoint, BatchSize)
    IN  /\ delivered_through' =
             IF events = <<>> THEN None ELSE events[Len(events)].global_position
        /\ delivered' = delivered \cup {events[k].global_position : k \in DOMAIN events}
        /\ UNCHANGED <<store, checkpoint, saved, restarts>>

\* Mutants: no upper bound; no lower bound; an exclusive upper bound.
AcceptsBeyondDelivered(position) ==
    /\ delivered_through # None
    /\ AtMost(checkpoint, position)

AcceptsBehindCheckpoint(position) ==
    /\ delivered_through # None
    /\ position <= delivered_through

AcceptsBelowDelivered(position) ==
    /\ delivered_through # None
    /\ position < delivered_through
    /\ AtMost(checkpoint, position)

\* The range acknowledge accepts; anything else is rejected without effect.
Accepts(position) ==
    /\ delivered_through # None
    /\ position <= delivered_through
    /\ AtMost(checkpoint, position)

Acknowledge(position) ==
    /\ Accepts(position)
    /\ checkpoint' = position
    /\ delivered_through' = None
    /\ UNCHANGED <<store, saved, delivered, restarts>>

\* The host persists checkpoint(); external, from how the API hands it out.
Save ==
    /\ saved # checkpoint
    /\ saved' = checkpoint
    /\ UNCHANGED <<store, checkpoint, delivered_through, delivered, restarts>>

\* The host stops and calls CatchUpSubscription::new with what it saved.
Restart ==
    /\ restarts < MaxRestarts
    /\ restarts' = restarts + 1
    /\ checkpoint' = saved
    /\ delivered_through' = None
    /\ UNCHANGED <<store, saved, delivered>>

Next ==
    \/ \E s \in Streams, n \in 1..2 : Produce(s, n)
    \/ Poll
    \/ \E position \in Position : Acknowledge(position)
    \/ Save
    \/ Restart

\* A host that keeps working polls again and again, and among the
\* acknowledgements it sends there is, again and again, the one for the last
\* event it was handed.  Nothing forces the producer, Save or Restart.
AcknowledgeDelivered == delivered_through # None /\ Acknowledge(delivered_through)

Spec == Init /\ [][Next]_vars /\ WF_vars(Poll) /\ SF_vars(AcknowledgeDelivered)

-----------------------------------------------------------------------------
OptionPosition == Position \cup {None}

\* Types: the checkpoint and the delivered bound stay positions of the log,
\* never the one behind its end.
TypeOK ==
    /\ store \in Store
    /\ checkpoint \in OptionPosition
    /\ delivered_through \in OptionPosition
    /\ saved \in OptionPosition
    /\ delivered \subseteq Position
    /\ restarts \in 0..MaxRestarts

\* No event is skipped: whatever positions the host acknowledges, saves and
\* restarts from, every position at or before the checkpoint, live or saved,
\* was handed out by some poll.
NothingSkipped ==
    \A c \in {checkpoint, saved} \ {None} : 0..c \subseteq delivered

\* The persisted checkpoint never moves back, although each restart forgets
\* what was acknowledged after the last save.
SavedCheckpointMonotone == [][AtMost(saved, saved')]_saved

\* Every event the producer commits is eventually acknowledged.
EverythingAcknowledged ==
    \A p \in Position : Len(store.events) > p ~> AtMost(p, checkpoint)

=============================================================================
