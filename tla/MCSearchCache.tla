--------------------------- MODULE MCSearchCache ---------------------------
(* Instances of SearchCache for TLC. *)
EXTENDS SearchCache, TLC

CONSTANTS u1, u2, m1, m2

OwnedByFirst == [m \in Materials |-> u1]

SearchSymmetry == Permutations(Searches) \union Permutations(Writers)
=============================================================================
