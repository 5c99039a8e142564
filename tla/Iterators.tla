------------------------------ MODULE Iterators ------------------------------
(* The iterator adaptors that several components share. *)
EXTENDS Integers, Sequences

\* iter().filter().collect(): the elements of s at the indices in kept, in order.
Filtered(s, kept) ==
    LET collected[i \in 0..Len(s)] ==
            IF i = 0 THEN <<>>
            ELSE IF i \in kept THEN Append(collected[i - 1], s[i]) ELSE collected[i - 1]
    IN  collected[Len(s)]

=============================================================================
