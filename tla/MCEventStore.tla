---- MODULE MCEventStore ----
(* Model-checking instance of EventStore. *)
EXTENDS EventStore, TLC

\* Clients and streams are interchangeable; so are event identifiers.
Symmetry == Permutations(Clients) \cup Permutations(Streams) \cup Permutations(EventIds)

====
