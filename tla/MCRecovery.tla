---- MODULE MCRecovery ----
(* Model-checking instance of Recovery. *)
EXTENDS Recovery

MCOptions ==
    {[recovery |-> "TruncatePartialTail", durability |-> "SyncAll", max_frame |-> 2],
     [recovery |-> "TruncatePartialTail", durability |-> "Flush", max_frame |-> 2]}

\* Behind the exception that both properties make nothing is claimed.
Claimed == ~tainted

====
