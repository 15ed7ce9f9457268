----------------------------- MODULE StreamReader -----------------------------
(****************************************************************************)
(* Reading one live query (stream.hpp): next(), next_for(), try_next(), the *)
(* iterator and close(), against a datastore that publishes events, is told *)
(* to kill the query by someone else, or fails.  The connection outlives    *)
(* the stream; Lifecycle is about what happens when it does not.            *)
(*                                                                          *)
(* A read is two steps: the C library decides on a return code, and the     *)
(* wrapper acts on it.  Between the two the datastore moves on, so a code   *)
(* may be out of date when it is looked at.                                 *)
(****************************************************************************)
EXTENDS Timeouts

CONSTANTS
    MaxEvents,   \* bound on the events published, "killed" included
    MaxAsked     \* bound on the durations a caller waits for, in ticks

ASSUME StreamReaderAssumption == MaxEvents \in Nat /\ MaxAsked \in Nat

VARIABLES
    \* the datastore and the channel of the C library
    sent,      \* notifications put into the channel
    taken,     \* notifications a read has taken out of it
    live,      \* the live query is registered
    fault,     \* failure the channel is bound to report: "none" or a code
    \* the read in progress
    pc,        \* "idle", "calling" the C library, or "back" from it
    way,       \* which of Ways the caller used last
    asked,     \* the duration its caller gave next_for()
    ms,        \* the milliseconds the C library was given
    rc,        \* the return code, when back
    \* the stream object
    handle,    \* handle_ is not null
    done,      \* done_
    failed,    \* failed_ and the code in failure_, or "none"
    haveId,    \* have_id_
    poisoned,  \* the poison cell, shared with the connection
    \* what the caller saw
    got,       \* notifications it was handed
    answer     \* the last answer

source == <<sent, live, fault>>
wait == <<asked, ms>>

vars == <<source, taken, pc, way, wait, rc, handle, done, failed, haveId, poisoned,
          got, answer>>

Durations == -MaxAsked .. MaxAsked

Ways == {"next", "iterate", "next_for", "try_next"}
Bounded == {"next_for", "try_next"}
Failures == {"ERROR", "FATAL"}

Init ==
    /\ sent = 0 /\ taken = 0 /\ live = TRUE /\ fault = "none"
    /\ pc = "idle" /\ way = "next" /\ asked = 0 /\ ms = 0 /\ rc = "AGAIN"
    /\ handle = TRUE /\ done = FALSE /\ failed = "none"
    /\ haveId = FALSE /\ poisoned = FALSE
    /\ got = 0 /\ answer = "none"

-----------------------------------------------------------------------------
\* The datastore.

Publish ==
    /\ live
    /\ sent < MaxEvents
    /\ sent' = sent + 1
    /\ UNCHANGED <<taken, live, fault, pc, way, wait, rc, handle, done, failed,
                   haveId, poisoned, got, answer>>

\* KILL or REMOVE TABLE from another session: with or without a last "killed"
\* notification, the channel closes.
Kill ==
    /\ live
    /\ live' = FALSE
    /\ sent' = sent \/ (sent < MaxEvents /\ sent' = sent + 1)
    /\ UNCHANGED <<taken, fault, pc, way, wait, rc, handle, done, failed, haveId,
                   poisoned, got, answer>>

Fault(f) ==
    /\ fault = "none"
    /\ fault' = f
    /\ UNCHANGED <<sent, taken, live, pc, way, wait, rc, handle, done, failed, haveId,
                   poisoned, got, answer>>

-----------------------------------------------------------------------------
\* A read.

\* next_for() converts its timeout, try_next() passes zero, the others nothing.
\* Then the test at the head of next() and next_timeout_ms(): an ended or empty
\* stream answers at once.
Call(w, d) ==
    /\ pc = "idle"
    /\ w # "next_for" => d = 0
    /\ way' = w
    /\ asked' = d
    /\ ms' = IF w = "next_for" THEN ToTimeoutMs(d) ELSE 0
    /\ IF done \/ ~handle
       THEN answer' = "ended" /\ UNCHANGED pc
       ELSE pc' = "calling" /\ UNCHANGED answer
    /\ UNCHANGED <<source, taken, rc, handle, done, failed, haveId, poisoned, got>>

\* What a read may fail with.  A negative wait is refused.
Faults == IF ms < 0 THEN {"ERROR"} ELSE {fault} \ {"none"}

\* Mutant of CReturn: a killed query goes quiet and its channel stays open, as
\* it did before the fix that brought next() back.
CReturnSilent ==
    /\ pc = "calling"
    /\ pc' = "back"
    /\ \/ taken < sent /\ taken' = taken + 1 /\ rc' = "EVENT"
       \/ taken = sent /\ way \in Bounded /\ rc' = "AGAIN" /\ UNCHANGED taken
       \/ \E f \in Faults : rc' = f /\ UNCHANGED taken
    /\ UNCHANGED <<source, way, wait, handle, done, failed, haveId, poisoned, got, answer>>

\* sr_stream_next and sr_stream_next_timeout.  The channel closes only once it
\* has been drained; only a bounded read comes back with nothing.
CReturn ==
    /\ pc = "calling"
    /\ pc' = "back"
    /\ \/ ms \geq 0 /\ taken < sent /\ taken' = taken + 1 /\ rc' = "EVENT"
       \/ ms \geq 0 /\ taken = sent /\ ~live /\ rc' = "CLOSED" /\ UNCHANGED taken
       \/ ms \geq 0 /\ taken = sent /\ live /\ way \in Bounded /\ rc' = "AGAIN"
          /\ UNCHANGED taken
       \/ \E f \in Faults : rc' = f /\ UNCHANGED taken
    /\ UNCHANGED <<source, way, wait, handle, done, failed, haveId, poisoned, got, answer>>

Back(codes) == pc = "back" /\ rc \in codes /\ pc' = "idle"

ReturnEvent ==
    /\ Back({"EVENT"})
    /\ got' = got + 1
    /\ haveId' = TRUE
    /\ answer' = "event"
    /\ UNCHANGED <<source, taken, way, wait, rc, handle, done, failed, poisoned>>

\* Mutant of ReturnTimedOut: it falls through to the "finished" handling.
ReturnTimedOutEnds ==
    /\ Back({"AGAIN"})
    /\ done' = TRUE
    /\ answer' = "ended"
    /\ UNCHANGED <<source, taken, way, wait, rc, handle, failed, haveId, poisoned, got>>

\* SR_AGAIN after a bounded read leaves the stream as it was.
ReturnTimedOut ==
    /\ Back({"AGAIN"})
    /\ way \in Bounded
    /\ answer' = "timed_out"
    /\ UNCHANGED <<source, taken, way, wait, rc, handle, done, failed, haveId, poisoned, got>>

\* Mutant of ReturnEnd: a clean end recorded as a failure.
ReturnEndFails ==
    /\ Back({"CLOSED"})
    /\ done' = TRUE
    /\ failed' = rc
    /\ answer' = "failed"
    /\ UNCHANGED <<source, taken, way, wait, rc, handle, haveId, poisoned, got>>

\* Mutant of ReturnEnd: the end taken for "nothing yet".
ReturnEndTimesOut ==
    /\ Back({"CLOSED"})
    /\ answer' = "timed_out"
    /\ UNCHANGED <<source, taken, way, wait, rc, handle, done, failed, haveId, poisoned, got>>

\* SR_CLOSED.  (next() would end the stream on SR_AGAIN too, which a blocking
\* read never returns.)
ReturnEnd ==
    /\ Back({"CLOSED"})
    /\ done' = TRUE
    /\ answer' = "ended"
    /\ UNCHANGED <<source, taken, way, wait, rc, handle, failed, haveId, poisoned, got>>

\* Anything else.  SR_FATAL also latches the cell of the connection.  The
\* iterator shows its caller the end of the range, whatever the reason.
ReturnFailure ==
    /\ Back(Failures)
    /\ done' = TRUE
    /\ failed' = rc
    /\ poisoned' = (poisoned \/ rc = "FATAL")
    /\ answer' = IF way = "iterate" THEN "ended" ELSE "failed"
    /\ UNCHANGED <<source, taken, way, wait, rc, handle, haveId, got>>

Return == ReturnEvent \/ ReturnTimedOut \/ ReturnEnd \/ ReturnFailure

-----------------------------------------------------------------------------
\* Mutant of Close: the reader is freed and the query stays registered.
CloseLeavesQuery ==
    /\ pc = "idle"
    /\ done' = TRUE
    /\ handle' = FALSE
    /\ UNCHANGED <<source, taken, pc, way, wait, rc, failed, haveId, poisoned, got, answer>>

\* close(), which the destructor calls: sr_stream_kill retires the query and
\* frees the reader, whatever the stream has learned of its id.
Close ==
    /\ pc = "idle"
    /\ done' = TRUE
    /\ handle' = FALSE
    /\ live' = IF handle THEN FALSE ELSE live
    /\ UNCHANGED <<sent, taken, fault, pc, way, wait, rc, failed, haveId, poisoned, got, answer>>

Next ==
    \/ Publish \/ Kill \/ \E f \in Failures : Fault(f)
    \/ \E w \in Ways, d \in Durations : Call(w, d)
    \/ CReturn \/ Return \/ Close

Spec == Init /\ [][Next]_vars

\* A read in progress is not suspended for ever: the C library answers when it
\* can and the wrapper returns.
FairSpec == Spec /\ WF_vars(CReturn) /\ WF_vars(Return)

\* A client that keeps reading until it is told the end or a failure, as the
\* loop in the comment of next_for() does, with whichever read it likes.
LoopSpec == FairSpec /\ WF_vars(~done /\ \E w \in Ways, d \in Durations : Call(w, d))

-----------------------------------------------------------------------------
\* The type of every variable.
TypeOK ==
    /\ sent \in 0..MaxEvents /\ taken \in 0..MaxEvents /\ got \in 0..MaxEvents
    /\ live \in BOOLEAN
    /\ fault \in Failures \cup {"none"}
    /\ pc \in {"idle", "calling", "back"}
    /\ way \in Ways
    /\ asked \in Durations /\ ms \in Ints
    /\ rc \in {"EVENT", "CLOSED", "AGAIN"} \cup Failures
    /\ handle \in BOOLEAN /\ done \in BOOLEAN /\ haveId \in BOOLEAN
    /\ failed \in Failures \cup {"none"}
    /\ poisoned \in BOOLEAN
    /\ answer \in {"none", "event", "timed_out", "ended", "failed"}

\* A consumer told that the stream has ended -- by any of the reads or by the
\* end of a range-for, and with failure() null -- has seen every event there
\* was and the query is over (stream.hpp:202-227, 331-374, 396-424).  An end
\* taken for "nothing yet", or the reverse, or a failure hidden by the
\* iterator, breaks it.
CleanEndSawEverything ==
    (answer = "ended" /\ failed = "none" /\ handle) => ~live /\ got = sent

\* The connection is poisoned by this stream exactly when the stream ended
\* with SR_FATAL: not by an ordinary failure, and not in one reading path only
\* (stream.hpp:225, 422, 434-436).
PoisonFollowsFatal == poisoned <=> failed = "FATAL"

\* query_id() is known from the first notification on, whichever read delivered
\* it, and stays known when the stream has ended (stream.hpp:384-388).
IdIsKnown == haveId <=> got > 0

\* A bounded wait waits as long as its caller asked, to the millisecond, and is
\* never made a poll, nor refused, nor longer than an int can say: not by
\* truncation, not by overflow, not for a negative duration (poll.hpp:64-102).
WaitsAsAsked == Covers(asked, ms)

\* The stream is a Feed.
Promise == INSTANCE Feed WITH
    broken <- fault # "none",
    status <- IF ~handle THEN "closed"
              ELSE IF ~done THEN "open"
              ELSE IF failed = "none" THEN "ended" ELSE "failed"

\* Every event is delivered once, none after the end and none lost to a wait
\* that expires as it arrives; the end comes after the last event and only of
\* a query that is over; a failure is reported only if the source failed; and
\* nobody but the owner retires a query by reading it (stream.hpp:202-297).
ImplementsFeed == Promise!Spec

\* A reader parked in next() is released when the query is killed or fails,
\* the reason next() came back (stream.hpp:193-198).
ParkedIsReleased ==
    (pc = "calling" /\ (~live \/ fault # "none")) ~> pc = "idle"

\* A client that loops over any mix of reads learns that the query is over: it
\* never spins on a dead stream, taking its end for a quiet period
\* (stream.hpp:407-416).
DeadStreamIsNoticed == ~live ~> done
=============================================================================
