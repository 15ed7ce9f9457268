------------------------------ MODULE MCStartup ------------------------------
(****************************************************************************)
(* A small instance of what goes before an engine: Startup and OptionsView. *)
(* A connect takes part in both, but they share no variable and no step:    *)
(* each is explored while the other has not begun, and what is said of one  *)
(* holds whatever the other does.  Threads are interchangeable.             *)
(****************************************************************************)
EXTENDS Startup, OptionsView, TLC

Symmetry == Permutations(Threads)

BothInit == Init /\ ViewInit

BothNext ==
    \/ Next /\ ViewInit /\ UNCHANGED viewVars
    \/ ViewNext /\ Init /\ UNCHANGED vars

BothSpec == BothInit /\ [][BothNext]_<<vars, viewVars>>
=============================================================================
