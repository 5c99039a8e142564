---- MODULE MCFileSnapshotStore ----
(* Model-checking instance of FileSnapshotStore. *)
EXTENDS FileSnapshotStore, TLC

CONSTANTS w1, w2, w3

\* Two stores in one process and one in another.
MCProcessOf == (w1 :> "p" @@ w2 :> "p" @@ w3 :> "q")

\* Snapshots are interchangeable, and so are the stores of one process.
Symmetry == Permutations(Snapshots) \cup Permutations({w1, w2})

====
