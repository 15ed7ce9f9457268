---------------------------- MODULE HandleProtocol ----------------------------
(****************************************************************************)
(* What the wrapper promises the C library about its handles.  A session    *)
(* handle (sr_surreal_t) is opened and disconnected once.  A reader or a    *)
(* transaction is opened on an engine that is up; after that it is closed   *)
(* once, while the engine is still up, or, once the engine has shut down,   *)
(* left alone for good.  Nothing is said of which object holds a handle.    *)
(****************************************************************************)
CONSTANTS Engines, SessionHandles, BorrowedHandles, Null

Handles == SessionHandles \cup BorrowedHandles

VARIABLES
    state,   \* "unused", "open", "closed" or "abandoned"
    engine   \* the engine a handle was opened on

vars == <<state, engine>>

Up(e) == \E h \in SessionHandles : state[h] = "open" /\ engine[h] = e

Init ==
    /\ state = [h \in Handles |-> "unused"]
    /\ engine = [h \in Handles |-> Null]

Open(h, e) ==
    /\ state[h] = "unused"
    /\ state' = [state EXCEPT ![h] = "open"]
    /\ engine' = [engine EXCEPT ![h] = e]

\* connect(): an engine nothing has run on before.
StartEngine(h, e) ==
    /\ \A g \in Handles : engine[g] # e
    /\ Open(h, e)

\* fork_session(), live() and begin()
OpenOn(h, e) == Up(e) /\ Open(h, e)

Close(h) ==
    /\ state[h] = "open"
    /\ h \in BorrowedHandles => Up(engine[h])
    /\ state' = [state EXCEPT ![h] = "closed"]
    /\ UNCHANGED engine

Abandon(h) ==
    /\ h \in BorrowedHandles
    /\ state[h] = "open"
    /\ ~Up(engine[h])
    /\ state' = [state EXCEPT ![h] = "abandoned"]
    /\ UNCHANGED engine

Next ==
    \/ \E h \in SessionHandles, e \in Engines : StartEngine(h, e)
    \/ \E h \in Handles, e \in Engines : OpenOn(h, e)
    \/ \E h \in Handles : Close(h)
    \/ \E h \in BorrowedHandles : Abandon(h)

Spec == Init /\ [][Next]_vars
=============================================================================
