------------------------------ MODULE IdIndex ------------------------------
(***************************************************************************)
(* `IdIndex` (src/src/projection/memory/index.rs), the map from identifier *)
(* to index behind node_lookup and fact_lookup.  Its keys are 64-bit       *)
(* fingerprints that two identifiers may share: the first of them sits in  *)
(* `entries`, the others in a bucket of `collisions`.  MemoryProjection    *)
(* takes it for a map; this module is why it may.                          *)
(***************************************************************************)
EXTENDS Optional, Sequences

CONSTANTS
    Ids,       \* identifiers
    Hashes,    \* fingerprints
    hash,      \* hash[i]: the fingerprint of i under the index's seed
    Indexes    \* what is stored

Pair == [id: Ids, index: Indexes]

ASSUME HashAssumption ==
    /\ hash \in [Ids -> Hashes]
    /\ Indexes \subseteq Nat
    /\ None \notin Pair

VARIABLES
    entries,     \* entries[h]: the first pair with fingerprint h, or None
    collisions,  \* collisions[h]: the other pairs with fingerprint h
    latest       \* history: the index inserted last for each identifier

index_vars == <<entries, collisions, latest>>

\* The places of an identifier in a bucket.
Places(bucket, i) == {k \in 1..Len(bucket) : bucket[k].id = i}

\* get.
Get(i) ==
    LET h == hash[i]
        found == Places(collisions[h], i)
    IN  IF entries[h] # None /\ entries[h].id = i THEN entries[h].index
        ELSE IF found # {} THEN collisions[h][CHOOSE k \in found : TRUE].index
        ELSE None

IndexInit ==
    /\ entries = [h \in Hashes |-> None]
    /\ collisions = [h \in Hashes |-> <<>>]
    /\ latest = [i \in Ids |-> None]

\* Mutant: the bucket is not searched before the pair is added.
InsertUnsearched(i, n) ==
    LET h == hash[i]
        pair == [id |-> i, index |-> n]
    IN  /\ IF entries[h] # None /\ entries[h].id # i
           THEN /\ collisions' = [collisions EXCEPT ![h] = Append(@, pair)]
                /\ UNCHANGED entries
           ELSE /\ entries' = [entries EXCEPT ![h] = pair]
                /\ UNCHANGED collisions
        /\ latest' = [latest EXCEPT ![i] = n]

\* insert: replace the pair of the identifier, wherever it is, or add one.
Insert(i, n) ==
    LET h == hash[i]
        found == Places(collisions[h], i)
        pair == [id |-> i, index |-> n]
    IN  /\ IF entries[h] # None /\ entries[h].id = i
           THEN /\ entries' = [entries EXCEPT ![h] = pair]
                /\ UNCHANGED collisions
           ELSE IF found # {}
           THEN /\ collisions' = [collisions EXCEPT ![h][CHOOSE k \in found : TRUE] = pair]
                /\ UNCHANGED entries
           ELSE IF entries[h] # None
           THEN /\ collisions' = [collisions EXCEPT ![h] = Append(@, pair)]
                /\ UNCHANGED entries
           ELSE /\ entries' = [entries EXCEPT ![h] = pair]
                /\ UNCHANGED collisions
        /\ latest' = [latest EXCEPT ![i] = n]

IndexNext == \E i \in Ids, n \in Indexes : Insert(i, n)

IndexSpec == IndexInit /\ [][IndexNext]_index_vars

-----------------------------------------------------------------------------
\* Whatever identifiers share a fingerprint, get returns the index inserted
\* last for the identifier, and None for one that was never inserted.
IndexIsMap == \A i \in Ids : Get(i) = latest[i]

=============================================================================
