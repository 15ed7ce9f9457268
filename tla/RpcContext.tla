------------------------------ MODULE RpcContext ------------------------------
(****************************************************************************)
(* An rpc context and its notification stream (rpc.hpp), used the way its   *)
(* comments ask for: the owner's thread makes requests and finally tears    *)
(* the context down, while the thread that reads the rpc_stream is parked   *)
(* in next() and can be released in no other way.  Each thread retires its  *)
(* own object.                                                              *)
(*                                                                          *)
(* Every step below is one access to state the two threads share: the C     *)
(* context, the notification channel, the liveness token, the poison cell.  *)
(****************************************************************************)
EXTENDS Naturals

CONSTANT MaxPending   \* bound on the notifications waiting in the channel

ASSUME RpcContextAssumption == MaxPending \in Nat

VARIABLES
    \* the C library
    ctx,        \* the context and its runtime: "open" or "freed"
    pending,    \* notifications in the channel
    channel,    \* the sr_rpc_stream_t: "none", "open", "freed", "abandoned"
    deadFree,   \* history: it was freed after the context
    fatal,      \* history: some call returned SR_FATAL
    ended,      \* history: how the owner tore the context down, "no" before
    raced,      \* history: it began while the reader was closing its stream
    replaced,   \* history: the reader's object was assigned over, stream and all
    \* the owner: the rpc object
    owner,      \* "using" it, in the middle of "disconnect" or "destroy", "gone"
    handle,     \* handle_ is not null
    token,      \* alive_ still holds the token
    flag,       \* the poison cell, shared with the stream
    \* the reader: the rpc_stream object
    reader,     \* "none", "idle", "calling", "back", "freeing", "retired"
    way,        \* the read in progress
    rc,         \* its return code
    done,       \* done_
    told        \* history: the answers the reader's thread was given

vars == <<ctx, pending, channel, deadFree, fatal, ended, raced, replaced,
          owner, handle, token, flag, reader, way, rc, done, told>>

teardown == <<ended, raced, replaced>>
ownerVars == <<owner, handle, token>>
readerVars == <<reader, way, rc, done, told>>

Ways == {"next", "next_for", "iterate"}
Failures == {"ERROR", "FATAL"}

Init ==
    /\ ctx = "open" /\ pending = 0 /\ channel = "none"
    /\ deadFree = FALSE /\ fatal = FALSE /\ ended = "no"
    /\ raced = FALSE /\ replaced = FALSE
    /\ owner = "using" /\ handle = TRUE /\ token = TRUE /\ flag = FALSE
    /\ reader = "none" /\ way = "next" /\ rc = "AGAIN" /\ done = FALSE /\ told = {}

-----------------------------------------------------------------------------
\* The owner's thread.

\* Any request; track() latches the cell on SR_FATAL.
Request(r) ==
    /\ owner = "using" /\ handle
    /\ flag' = (flag \/ r = "FATAL")
    /\ fatal' = (fatal \/ r = "FATAL")
    /\ UNCHANGED <<ctx, pending, channel, deadFree, ownerVars, readerVars, teardown>>

\* notifications(): one channel per context, handed to the reader's thread.
Notifications ==
    /\ owner = "using" /\ handle
    /\ channel = "none"
    /\ channel' = "open"
    /\ reader' = "idle"
    /\ UNCHANGED <<ctx, pending, deadFree, fatal, flag, ownerVars, way, rc, done, told,
                   teardown>>

\* sr_surreal_rpc_free: the runtime goes and the channel closes.
FreeContext ==
    /\ handle' = FALSE
    /\ ctx' = "freed"

DropToken == token' = FALSE

BeginTeardown(how) ==
    /\ owner = "using"
    /\ owner' = how
    /\ ended' = how
    /\ raced' = (reader = "freeing")
    /\ UNCHANGED replaced

\* Mutant of Disconnect1: the context is left to the destructor.
DisconnectTokenOnly ==
    /\ BeginTeardown("disconnect")
    /\ DropToken
    /\ UNCHANGED <<ctx, pending, channel, deadFree, fatal, handle, flag, readerVars>>

\* disconnect() resets handle_ first and alive_ second.  (So does assigning
\* another context over this one.)
Disconnect1 ==
    /\ BeginTeardown("disconnect")
    /\ FreeContext
    /\ UNCHANGED <<pending, channel, deadFree, fatal, token, flag, readerVars>>

Disconnect2 ==
    /\ owner = "disconnect"
    /\ owner' = "gone"
    /\ DropToken
    /\ UNCHANGED <<ctx, pending, channel, deadFree, fatal, handle, flag,
                   readerVars, teardown>>

\* Mutant of Destroy1: alive_ declared before handle_.
DestroyHandleFirst ==
    /\ BeginTeardown("destroy")
    /\ FreeContext
    /\ UNCHANGED <<pending, channel, deadFree, fatal, token, flag, readerVars>>

\* The destructor drops the members in reverse order of declaration: alive_
\* first and handle_ second.
Destroy1 ==
    /\ BeginTeardown("destroy")
    /\ DropToken
    /\ UNCHANGED <<ctx, pending, channel, deadFree, fatal, handle, flag, readerVars>>

Destroy2 ==
    /\ owner = "destroy"
    /\ owner' = "gone"
    /\ FreeContext
    /\ UNCHANGED <<pending, channel, deadFree, fatal, token, flag, readerVars,
                   teardown>>

-----------------------------------------------------------------------------
\* The C library's side of the channel.

Notify ==
    /\ ctx = "open"
    /\ pending < MaxPending
    /\ pending' = pending + 1
    /\ UNCHANGED <<ctx, channel, deadFree, fatal, flag, ownerVars, readerVars,
                   teardown>>

\* sr_rpc_stream_next and sr_rpc_stream_next_timeout.  Freeing the context ends
\* the read; it is left open whether it first drains the channel.
CReturn ==
    /\ reader = "calling"
    /\ reader' = "back"
    /\ \/ pending > 0 /\ pending' = pending - 1 /\ rc' = "EVENT"
       \/ ctx = "freed" /\ rc' = "CLOSED" /\ UNCHANGED pending
       \/ ctx = "open" /\ pending = 0 /\ way = "next_for" /\ rc' = "AGAIN" /\ UNCHANGED pending
    /\ UNCHANGED <<ctx, channel, deadFree, fatal, flag, ownerVars, way, done,
                   told, teardown>>

\* Either read may fail at any time, and need not.
CFail(f) ==
    /\ reader = "calling"
    /\ reader' = "back"
    /\ rc' = f
    /\ UNCHANGED <<ctx, pending, channel, deadFree, fatal, flag, ownerVars,
                   way, done, told, teardown>>

-----------------------------------------------------------------------------
\* The reader's thread.

\* Mutant of Answers: the codes as they were before surrealdb.c 0.3.0.
AnswersOldCodes ==
    [EVENT |-> "event", AGAIN |-> "ended", CLOSED |-> "timed_out",
     ERROR |-> "failed", FATAL |-> "fatal"]

\* Mutant of Answers: an empty wait is passed on as the library's own code.
AnswersRaw ==
    [EVENT |-> "event", AGAIN |-> "AGAIN", CLOSED |-> "ended",
     ERROR |-> "failed", FATAL |-> "fatal"]

\* What next() and next_timeout_ms() make of a return code.
Answers ==
    [EVENT |-> "event", AGAIN |-> "timed_out", CLOSED |-> "ended",
     ERROR |-> "failed", FATAL |-> "fatal"]

\* A range-for reads with next(), and only sees its range end.
Answer(w, c) == IF w = "iterate" /\ c # "EVENT" THEN "range_end" ELSE Answers[c]

\* The answers after which the stream is done.
Ends == {"ended", "failed", "fatal", "range_end"}

\* The head of next() and next_timeout_ms(), which a finished stream answers
\* without a call.
Call(w) ==
    /\ reader = "idle"
    /\ way' = w
    /\ IF done
       THEN told' = told \cup {Answer(w, "CLOSED")} /\ UNCHANGED reader
       ELSE reader' = "calling" /\ UNCHANGED told
    /\ UNCHANGED <<ctx, pending, channel, deadFree, fatal, flag, ownerVars,
                   rc, done, teardown>>

\* Mutant of Return: a fatal read is seen and dropped.
ReturnUnlatched ==
    /\ reader = "back"
    /\ reader' = "idle"
    /\ told' = told \cup {Answer(way, rc)}
    /\ done' = (done \/ Answer(way, rc) \in Ends)
    /\ fatal' = (fatal \/ rc = "FATAL")
    /\ UNCHANGED <<ctx, pending, channel, deadFree, flag, ownerVars, way, rc,
                   teardown>>

\* An end or a failure finishes the stream; SR_FATAL latches the context's cell,
\* also when the iterator keeps it from its caller.
Return ==
    /\ reader = "back"
    /\ reader' = "idle"
    /\ told' = told \cup {Answer(way, rc)}
    /\ done' = (done \/ Answer(way, rc) \in Ends)
    /\ fatal' = (fatal \/ rc = "FATAL")
    /\ flag' = (flag \/ rc = "FATAL")
    /\ UNCHANGED <<ctx, pending, channel, deadFree, ownerVars, way, rc,
                   teardown>>

\* Mutant of RetireTest: always release(), never reset().
RetireAlwaysLeaks ==
    /\ reader = "idle"
    /\ reader' = "retired"
    /\ channel' = "abandoned"
    /\ done' = TRUE
    /\ UNCHANGED <<ctx, pending, deadFree, fatal, flag, ownerVars, way, rc, told,
                   teardown>>

\* close() or the destructor looks at the token and abandons the channel...
RetireTest ==
    /\ reader = "idle"
    /\ IF token
       THEN reader' = "freeing" /\ UNCHANGED channel
       ELSE reader' = "retired" /\ channel' = "abandoned"
    /\ done' = TRUE
    /\ UNCHANGED <<ctx, pending, deadFree, fatal, flag, ownerVars, way, rc, told,
                   teardown>>

\* ...or else frees it.
RetireFree ==
    /\ reader = "freeing"
    /\ reader' = "retired"
    /\ channel' = "freed"
    /\ deadFree' = (deadFree \/ ctx = "freed")
    /\ UNCHANGED <<ctx, pending, fatal, flag, ownerVars, way, rc, done, told,
                   teardown>>

\* s = std::move(another), memberwise: owned<>::operator= frees the channel s
\* still holds, whatever s's own token says.
AssignOver ==
    /\ reader = "idle"
    /\ reader' = "retired"
    /\ replaced' = TRUE
    /\ channel' = "freed"
    /\ deadFree' = (deadFree \/ ctx = "freed")
    /\ UNCHANGED <<ctx, pending, fatal, flag, ownerVars, way, rc, done, told,
                   ended, raced>>

OwnerNext ==
    \/ \E r \in {"ok"} \cup Failures : Request(r)
    \/ Notifications \/ Disconnect1 \/ Disconnect2 \/ Destroy1 \/ Destroy2

ReaderNext == (\E w \in Ways : Call(w)) \/ Return \/ RetireTest \/ RetireFree \/ AssignOver

Next == OwnerNext \/ Notify \/ CReturn \/ (\E f \in Failures : CFail(f)) \/ ReaderNext

Spec == Init /\ [][Next]_vars

\* A reader that loops until it is told that the stream is done, or gives up.
Loop == (~done /\ \E w \in Ways : Call(w)) \/ Return \/ RetireTest \/ RetireFree

\* Threads run and the C library answers; the owner finishes a teardown it has
\* begun; the reader loops and in the end retires its stream.  When the owner
\* tears down, and which way, is its own affair, and no read has to fail.
FairSpec ==
    /\ Spec
    /\ WF_vars(Disconnect2) /\ WF_vars(Destroy2)
    /\ WF_vars(CReturn)
    /\ WF_vars(Loop)

-----------------------------------------------------------------------------
\* The type of every variable.
TypeOK ==
    /\ ctx \in {"open", "freed"}
    /\ pending \in 0..MaxPending
    /\ channel \in {"none", "open", "freed", "abandoned"}
    /\ deadFree \in BOOLEAN /\ fatal \in BOOLEAN
    /\ ended \in {"no", "disconnect", "destroy"} /\ raced \in BOOLEAN
    /\ replaced \in BOOLEAN
    /\ owner \in {"using", "disconnect", "destroy", "gone"}
    /\ handle \in BOOLEAN /\ token \in BOOLEAN /\ flag \in BOOLEAN
    /\ reader \in {"none", "idle", "calling", "back", "freeing", "retired"}
    /\ way \in Ways
    /\ rc \in {"EVENT", "CLOSED", "AGAIN"} \cup Failures
    /\ done \in BOOLEAN
    /\ told \subseteq {"event", "timed_out"} \cup Ends

\* An rpc_stream is not freed after its context, whose runtime the freeing would
\* run on: it is leaked instead (rpc.hpp:204-209, 266-270).  A close() that had
\* seen the token before the teardown began is not held against it, and neither
\* is the assignment of another stream over this one.
NoFreeAfterContext == deadFree => raced \/ replaced

\* So much the destructor of rpc achieves, through the order of its members,
\* whatever the reader was doing; disconnect() does not.
DestructorKeepsFreesOff == deadFree => raced \/ replaced \/ ended = "disconnect"

\* And it is leaked only because the context is going (or gone): closing the
\* stream of a context in use frees it (rpc.hpp:266-270).
LeakOnlyInTeardown == channel = "abandoned" => owner \in {"disconnect", "destroy", "gone"}

\* A reader told that its stream closed has been told so by the teardown of the
\* context, however long the channel was quiet before -- if it was not told of
\* a failure first, or read through the iterator, which tells nothing else
\* (rpc.hpp:216-221, 305-310).
ClosedMeansTornDown ==
    "ended" \in told => ctx = "freed" \/ {"failed", "fatal", "range_end"} \cap told # {}

\* The context is poisoned exactly when some call returned SR_FATAL, whichever of
\* the two objects made it, on whichever thread, and whether or not the iterator
\* swallowed the failure (rpc.hpp:634-639, 346-351).
FatalIsKnown == flag <=> fatal

\* Tearing down the context releases the reader: its thread comes to the end
\* of its loop, so joining it after disconnect() returns (rpc.hpp:619-623).
ReaderIsReleased ==
    (owner # "using" /\ reader # "none") ~> reader = "retired"
=============================================================================
