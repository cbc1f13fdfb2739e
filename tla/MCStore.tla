------------------------------ MODULE MCStore ------------------------------
(* Small instances of Store for TLC. *)
EXTENDS StoreProps, TLC

CONSTANTS a, b, v1, v2, m1, m2, n1, n2, n3

Symmetry == Permutations(Id) \cup Permutations(Vector) \cup Permutations(Metadata)
            \cup Permutations(Name)
============================================================================
