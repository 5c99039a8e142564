---- MODULE MCProjectionReplay ----
(* Model-checking instance of ProjectionReplay. *)
EXTENDS ProjectionReplay

CONSTANTS a, b, f1, f2, f3, node_stream, fact_stream

Link(id, source, target, from, until, at, prior) ==
    [payload |-> FactRecorded([id |-> id, source |-> source, target |-> target,
                               relation |-> "r", confidence |-> 9000,
                               valid_from |-> from, valid_until |-> until,
                               recorded_at |-> at, supersedes |-> prior]),
     recorded_at |-> at, stream |-> fact_stream]

\* Two nodes that may be revised, facts that close, loop and replace each
\* other, and retractions, at two times.
MCInputs ==
    {[payload |-> NodeUpserted(e), recorded_at |-> t, stream |-> node_stream] :
        e \in {a, b}, t \in 1..2}
    \cup {Link(f1, a, b, from, None, t, None) : from \in 0..1, t \in 1..2}
    \cup {Link(f2, b, b, 0, 2, t, prior) : t \in 1..2, prior \in {None, f1}}
    \cup {Link(f3, b, a, 1, None, t, prior) : t \in 1..2, prior \in {f1, f2}}
    \cup {[payload |-> FactRetracted(f1, until), recorded_at |-> t, stream |-> fact_stream] :
        until \in 1..2, t \in 1..2}

====
