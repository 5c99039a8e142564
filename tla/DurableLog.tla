----------------------------- MODULE DurableLog -----------------------------
(***************************************************************************)
(* What a durable event log promises, without files, locks or syncs.  The  *)
(* log is a sequence of whole batches.  A client is told that its append   *)
(* succeeded when the batch is acknowledged; an acknowledgement may also   *)
(* secure the log, and only what is secured survives a loss of power.  A   *)
(* batch nobody was told about may stay or go, but it never comes apart.   *)
(***************************************************************************)
EXTENDS Sequences, SequencesExt

VARIABLES
    log,      \* the batches a reader would find now
    acked,    \* the log as of the latest acknowledged append
    secured   \* the log as of the latest append acknowledged as synced

vars == <<log, acked, secured>>

Init == log = <<>> /\ acked = <<>> /\ secured = <<>>

\* One batch appears whole at the end.
Extend ==
    /\ IsPrefix(log, log') /\ Len(log') = Len(log) + 1
    /\ UNCHANGED <<acked, secured>>

\* The writer of the last batch is told of its success.
Acknowledge ==
    /\ acked' = log
    /\ secured' \in {secured, log}
    /\ UNCHANGED log

\* A failed append takes its batch back; nothing acknowledged goes.
Retract ==
    /\ IsPrefix(log', log) /\ Len(log') < Len(log) /\ IsPrefix(acked, log')
    /\ UNCHANGED <<acked, secured>>

\* A loss of power keeps what was secured.  Behind it, any batch that was
\* once written, one whose append failed included, may be found or not.
LosePower ==
    /\ IsPrefix(secured, log')
    /\ acked' = secured
    /\ UNCHANGED secured

Next == Extend \/ Acknowledge \/ Retract \/ LosePower

Spec == Init /\ [][Next]_vars

=============================================================================
