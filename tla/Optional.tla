------------------------------ MODULE Optional ------------------------------
(* Option<T>: a value or None, which no value of the models equals. *)
EXTENDS Integers

CONSTANT None   \* Option::None

ASSUME NoneAssumption == None \notin Int

\* x <= y for optional numbers: None comes first, as in Rust's Ord.
AtMost(x, y) == x # None => (y # None /\ x <= y)

=============================================================================
