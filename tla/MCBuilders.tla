------------------------------ MODULE MCBuilders ------------------------------
(* Builders for TLC. *)
EXTENDS Builders, TLC

\* Blocks, and variables of one type, are alike.
Symmetry ==
    Permutations(Blocks) \cup Permutations(Objects) \cup Permutations(Arrays)
        \cup Permutations(Bounds)
=============================================================================
