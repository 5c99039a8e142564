---- MODULE MCProjectionParts ----
(***************************************************************************)
(* Model-checking instance of ProjectionParts, and of IdIndex, which the   *)
(* construction takes for a map.  Neither reads the other's state: a       *)
(* behaviour runs one of them and leaves the other at its start.           *)
(***************************************************************************)
EXTENDS ProjectionParts, IdIndex

CONSTANTS a, b, f1, f2, f3, i1, i2, i3, i4

Link(id, source, target, from, at, prior) ==
    [id |-> id, source |-> source, target |-> target, relation |-> "r",
     confidence |-> 9000, valid_from |-> from, valid_until |-> None,
     recorded_at |-> at, supersedes |-> prior]

MCFacts ==
    {Link(f1, a, b, 0, 1, prior) : prior \in {None, f3}}
    \cup {Link(f2, b, b, 1, at, f1) : at \in 1..2}
    \cup {Link(f3, b, a, 0, 1, f1), Link(f3, b, a, 1, 1, f2)}

\* Node lists that are empty, incomplete, repeated and complete in both
\* orders, with every list of up to three facts.
MCCalls ==
    [nodes: {<<>>, <<a>>, <<a, a>>, <<a, b>>, <<b, a>>},
     facts: SeqOf(MCFacts, 3),
     known_at: {1, 2},
     position: {7}]

\* Three identifiers collide, one does not.
MCHash == (i1 :> 1 @@ i2 :> 1 @@ i3 :> 1 @@ i4 :> 2)

Init == PartsInit /\ IndexInit

Next ==
    \/ PartsNext /\ IndexInit /\ UNCHANGED index_vars
    \/ IndexNext /\ PartsInit /\ UNCHANGED parts_vars

Spec == Init /\ [][Next]_<<parts_vars, index_vars>>

====
