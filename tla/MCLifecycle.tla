----------------------------- MODULE MCLifecycle -----------------------------
(****************************************************************************)
(* Small instances of Lifecycle.  Handles of one kind are interchangeable,  *)
(* and so are variables of one type and engines.                            *)
(****************************************************************************)
EXTENDS Lifecycle, TLC

Symmetry ==
    Permutations(Engines) \cup Permutations(SessionHandles)
    \cup Permutations(StreamHandles) \cup Permutations(TxHandles)
    \cup Permutations(Conns) \cup Permutations(Streams) \cup Permutations(Txs)
=============================================================================
