------------------------ MODULE SnapshotGenerations ------------------------
(***************************************************************************)
(* What a `SnapshotStore` promises: one immutable snapshot per position.   *)
(* `InMemorySnapshotStore` (src/src/snapshot/in_memory.rs) takes only the  *)
(* step Save, one position at a time.  A store on disk also loses power,   *)
(* and may fail to see that a position is taken.                           *)
(***************************************************************************)
EXTENDS Optional, FiniteSetsExt

CONSTANTS
    Positions,   \* global positions a snapshot may be taken at
    Snapshots,   \* what may be saved, told apart by its encoded bytes
    Corrupt      \* bytes that do not decode

VARIABLES
    snapshots,   \* snapshots[p]: the snapshot at position p, or None
    former,      \* former[p]: what was there before and may come back
    blind,       \* how often a save did not see that its position is taken
    losses       \* how often power was lost

Init ==
    /\ snapshots = [p \in Positions |-> None]
    /\ former = [p \in Positions |-> {}]
    /\ blind = 0 /\ losses = 0

\* save: a free position takes the snapshot, and several may be taken at once
\* when the process that held them up is gone.  At a taken position save
\* returns Ok for the same snapshot, an error for another, and changes nothing.
Save ==
    /\ \A p \in Positions :
         IF snapshots[p] = None
         THEN /\ snapshots'[p] \in Snapshots \cup {None} \cup former[p]
              /\ former'[p] \subseteq Snapshots \cup former[p]
         ELSE snapshots'[p] = snapshots[p] /\ former'[p] = former[p]
    /\ UNCHANGED <<blind, losses>>

\* A save that does not see that its position is taken sets out to replace the
\* snapshot there.
SaveBlind ==
    /\ \E p \in Positions :
         /\ snapshots' = [snapshots EXCEPT ![p] = None]
         /\ former' = [former EXCEPT ![p] = (@ \cup {snapshots[p]}) \ {None}]
    /\ blind' = blind + 1
    /\ UNCHANGED losses

\* A store on disk may lose a snapshot with the power, get back one that it
\* took the place of, or be left with one whose save had not returned.
LosePower ==
    /\ \A p \in Positions :
         snapshots'[p] \in (IF snapshots[p] = None THEN Snapshots ELSE {snapshots[p]})
                             \cup former[p] \cup {None, Corrupt}
    /\ former' = [p \in Positions |-> {}]
    /\ losses' = losses + 1
    /\ UNCHANGED blind

Next == Save \/ SaveBlind \/ LosePower

Spec == Init /\ [][Next]_<<snapshots, former, blind, losses>>

=============================================================================
