---- MODULE MCFileEventStore ----
(* Model-checking instance of FileEventStore. *)
EXTENDS FileEventStore, TLC

MCOptions ==
    {[recovery |-> "Strict", durability |-> "SyncAll", max_frame |-> 2],
     [recovery |-> "TruncatePartialTail", durability |-> "SyncData", max_frame |-> 2],
     [recovery |-> "TruncatePartialTail", durability |-> "Flush", max_frame |-> 1]}

Symmetry == Permutations(Processes) \cup Permutations(EventIds)

====
