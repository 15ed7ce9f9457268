------------------------------ MODULE MCOutcome ------------------------------
(****************************************************************************)
(* Instances of Outcome for TLC.  No block and no result is special.        *)
(****************************************************************************)
EXTENDS Outcome, TLC

Symmetry == Permutations(Blocks) \cup Permutations(Results)
=============================================================================
