------------------------------ MODULE Ordering ------------------------------
(* Sets as sequences, in the order of a comparison. *)
EXTENDS Integers, Sequences, FiniteSets, FiniteSetsExt

\* The elements of S, each behind those that are before it.
SortedSet(S, before) ==
    [k \in 1..Cardinality(S) |->
        CHOOSE x \in S : Cardinality({y \in S : <<y, x>> \in before}) = k - 1]

\* A BTreeSet or BTreeMap of numbers, in its order.
Ascending(S) == SortedSet(S, {p \in S \X S : p[1] < p[2]})

\* sort_by, which is stable: elements that the order does not tell apart stay
\* in theirs.
SortBy(s, Before(_, _)) ==
    LET order == SortedSet(DOMAIN s,
                     {p \in (DOMAIN s) \X (DOMAIN s) :
                         \/ Before(s[p[1]], s[p[2]])
                         \/ ~Before(s[p[2]], s[p[1]]) /\ p[1] < p[2]})
    IN  [k \in DOMAIN s |-> s[order[k]]]

=============================================================================
