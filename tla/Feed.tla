--------------------------------- MODULE Feed ---------------------------------
(****************************************************************************)
(* What a live query promises its consumer: every event published before    *)
(* the query stops is delivered, once and in order, and then the end is     *)
(* reported; a failure is reported only if the source failed; closing       *)
(* early retires the query.  A wait that expires is no step at all.         *)
(*                                                                          *)
(* Events are counted: the channel is first in, first out, so the got-th    *)
(* event delivered is the got-th one published.                             *)
(****************************************************************************)
EXTENDS Naturals

CONSTANT MaxEvents   \* bound on what is published

VARIABLES
    sent,     \* events published
    got,      \* events delivered to the consumer
    live,     \* the query is still registered in the datastore
    broken,   \* the source has failed
    status    \* what the consumer knows: "open", "ended", "failed", "closed"

vars == <<sent, got, live, broken, status>>

Init ==
    /\ sent = 0
    /\ got = 0
    /\ live = TRUE
    /\ broken = FALSE
    /\ status = "open"

Publish ==
    /\ live
    /\ sent < MaxEvents
    /\ sent' = sent + 1
    /\ UNCHANGED <<got, live, broken, status>>

\* KILL or REMOVE TABLE; a last event may announce it.
Stop ==
    /\ live
    /\ live' = FALSE
    /\ sent' = sent \/ (sent < MaxEvents /\ sent' = sent + 1)
    /\ UNCHANGED <<got, broken, status>>

Break ==
    /\ ~broken
    /\ broken' = TRUE
    /\ UNCHANGED <<sent, got, live, status>>

Deliver ==
    /\ status = "open"
    /\ got < sent
    /\ got' = got + 1
    /\ UNCHANGED <<sent, live, broken, status>>

End ==
    /\ status = "open"
    /\ ~live
    /\ got = sent
    /\ status' = "ended"
    /\ UNCHANGED <<sent, got, live, broken>>

Fail ==
    /\ status = "open"
    /\ broken
    /\ status' = "failed"
    /\ UNCHANGED <<sent, got, live, broken>>

Close ==
    /\ status' = "closed"
    /\ live' = FALSE
    /\ UNCHANGED <<sent, got, broken>>

Next == Publish \/ Stop \/ Break \/ Deliver \/ End \/ Fail \/ Close

Spec == Init /\ [][Next]_vars
=============================================================================
