-------------------------- MODULE StreamReaderProofs --------------------------
(****************************************************************************)
(* The conversion of a timeout meets its reference for every duration and   *)
(* every width of int; the safety properties of StreamReader hold for every *)
(* MaxEvents; and the reader implements Feed.                               *)
(****************************************************************************)
EXTENDS StreamReader, TLAPS

\* What the truncating division of std::chrono::duration_cast returns.
LEMMA Truncation ==
    ASSUME NEW d \in Int
    PROVE  LET t == d \div TicksPerMs
           IN  t \in Int /\ t * TicksPerMs \leq d /\ d < (t + 1) * TicksPerMs
  BY TimeoutsAssumption, SMT

\* std::chrono::ceil: the least number of milliseconds that covers d.
LEMMA CeilIsLeast ==
    ASSUME NEW d \in Int
    PROVE  /\ CeilMs(d) \in Int
           /\ CeilMs(d) * TicksPerMs \geq d
           /\ (CeilMs(d) - 1) * TicksPerMs < d
<1> DEFINE t == d \div TicksPerMs
<1>1. t \in Int /\ t * TicksPerMs \leq d /\ d < (t + 1) * TicksPerMs
  BY Truncation
<1> HIDE DEF t
<1>2. CeilMs(d) = IF t * TicksPerMs < d THEN t + 1 ELSE t
  BY DEF CeilMs, t
<1>3. CASE t * TicksPerMs < d
  <2>1. CeilMs(d) = t + 1
    BY <1>2, <1>3
  <2>2. (CeilMs(d) - 1) = t
    BY <1>1, <2>1
  <2> QED BY <1>1, <1>3, <2>1, <2>2, TimeoutsAssumption
<1>4. CASE ~(t * TicksPerMs < d)
  <2>1. CeilMs(d) = t
    BY <1>2, <1>4
  <2>2. t * TicksPerMs = d
    BY <1>1, <1>4, TimeoutsAssumption
  <2>3. (t - 1) * TicksPerMs = t * TicksPerMs - TicksPerMs
    BY <1>1, TimeoutsAssumption
  <2> QED BY <1>1, <2>1, <2>2, <2>3, TimeoutsAssumption
<1> QED
  BY <1>3, <1>4

\* A timeout reaches the C library as long as it was asked for: never negative,
\* never zero unless nothing was asked, never a millisecond short or long, and
\* clamped where an int ends (poll.hpp:86-102).
THEOREM TimeoutsCover == ASSUME NEW d \in Int PROVE Covers(d, ToTimeoutMs(d))
<1> USE TimeoutsAssumption
<1>0. MaxMs * TicksPerMs \in Nat \ {0}
  OBVIOUS
<1>1. CASE d \leq 0
  <2>1. ToTimeoutMs(d) = 0
    BY <1>1 DEF ToTimeoutMs
  <2>2. MaxMs * TicksPerMs \geq 0 /\ 0 * TicksPerMs = 0
    OBVIOUS
  <2> QED BY <1>0, <1>1, <2>1, <2>2 DEF Covers
<1>2. CASE d > 0 /\ d \geq MaxMs * TicksPerMs
  <2>1. ToTimeoutMs(d) = MaxMs
    BY <1>0, <1>2 DEF ToTimeoutMs
  <2>2. (MaxMs - 1) * TicksPerMs < MaxMs * TicksPerMs
    OBVIOUS
  <2>3. (MaxMs - 1) * TicksPerMs \in Int
    OBVIOUS
  <2> QED BY <1>0, <1>2, <2>1, <2>2, <2>3 DEF Covers
<1>3. CASE d > 0 /\ d < MaxMs * TicksPerMs
  <2> DEFINE m == CeilMs(d)
  <2>1. m \in Int /\ m * TicksPerMs \geq d /\ (m - 1) * TicksPerMs < d
    BY CeilIsLeast
  <2> HIDE DEF m
  <2>2. m \leq MaxMs
    <3> SUFFICES ASSUME m - 1 \geq MaxMs PROVE FALSE
      BY <2>1
    <3>1. (m - 1) * TicksPerMs \geq MaxMs * TicksPerMs
      BY <2>1
    <3> QED BY <1>3, <2>1, <3>1, <1>0
  <2>3. m > 0
    <3> SUFFICES ASSUME m \leq 0 PROVE FALSE
      BY <2>1
    <3>1. m * TicksPerMs \leq 0
      BY <2>1
    <3> QED BY <1>3, <2>1, <3>1
  <2>4. ToTimeoutMs(d) = m
    BY <1>0, <1>3, <2>1, <2>2 DEF ToTimeoutMs, m
  <2> QED BY <1>0, <1>3, <2>1, <2>2, <2>3, <2>4 DEF Covers
<1> QED
  BY <1>0, <1>1, <1>2, <1>3

-----------------------------------------------------------------------------

\* A return code tells the truth about the channel even if it is looked at
\* late: a read that is back with an event took exactly that event, and one
\* that is back with SR_CLOSED has drained a channel nobody can write to.
CodesAreTrue ==
    /\ got \leq taken /\ taken \leq sent
    /\ taken = IF pc = "back" /\ rc = "EVENT" THEN got + 1 ELSE got
    /\ pc = "back" /\ rc = "CLOSED" => ~live /\ taken = sent
    /\ pc = "back" /\ rc \in Failures => fault # "none"
    /\ pc = "back" /\ rc = "AGAIN" => way \in Bounded

\* The stream object: a read is in progress only on an open stream, and what
\* done_ says of a stream that has neither failed nor been closed is so.
ObjectIsConsistent ==
    /\ pc # "idle" => handle /\ ~done
    /\ ~handle => done
    /\ failed # "none" => done
    /\ answer = "ended" => done
    /\ done /\ handle /\ failed = "none" => ~live /\ got = sent

\* The wait is as asked; in particular no read is refused for a negative one.
WaitState == WaitsAsAsked /\ ms \geq 0

IInv ==
    /\ TypeOK
    /\ CodesAreTrue /\ ObjectIsConsistent
    /\ PoisonFollowsFatal /\ IdIsKnown
    /\ WaitState

\* The invariant holds initially.
LEMMA InvInit == Init => IInv
<1> SUFFICES ASSUME Init PROVE IInv
  OBVIOUS
<1> USE DEF Init, Failures
<1>1. TypeOK
  <2>1. sent \in 0..MaxEvents /\ taken \in 0..MaxEvents /\ got \in 0..MaxEvents
    BY StreamReaderAssumption
  <2>2. asked \in Durations /\ ms \in Ints
    BY StreamReaderAssumption, TimeoutsAssumption DEF Durations, Ints
  <2> QED BY <2>1, <2>2 DEF TypeOK, Ways
<1>2. CodesAreTrue
  BY DEF CodesAreTrue
<1>3. ObjectIsConsistent /\ PoisonFollowsFatal /\ IdIsKnown
  BY DEF ObjectIsConsistent, PoisonFollowsFatal, IdIsKnown
<1>4. WaitState
  <2>1. MaxMs * TicksPerMs \in Nat \ {0} /\ 0 * TicksPerMs = 0
    BY TimeoutsAssumption
  <2> QED BY <2>1, TimeoutsAssumption DEF WaitState, WaitsAsAsked, Covers
<1> QED
  BY <1>1, <1>2, <1>3, <1>4 DEF IInv

\* Only a call sets the wait, and the conversion covers what was asked.
LEMMA WaitStep ==
    IInv /\ [Next]_vars => WaitState' /\ asked' \in Durations /\ ms' \in Ints
<1> SUFFICES ASSUME IInv, [Next]_vars
             PROVE  WaitState' /\ asked' \in Durations /\ ms' \in Ints
  OBVIOUS
<1>1. asked \in Durations /\ ms \in Ints /\ WaitState
  BY DEF IInv, TypeOK
<1>2. CASE UNCHANGED wait
  BY <1>1, <1>2 DEF wait, WaitState, WaitsAsAsked
<1>3. ASSUME NEW w \in Ways, NEW d \in Durations, Call(w, d)
      PROVE  WaitState' /\ asked' \in Durations /\ ms' \in Ints
  <2>1. asked' = d /\ d \in Int
    BY <1>3, StreamReaderAssumption DEF Call, Durations
  <2>2. Covers(d, ms')
    <3>1. CASE w = "next_for"
      <4>1. ms' = ToTimeoutMs(d)
        BY <1>3, <3>1 DEF Call
      <4> QED BY <2>1, <4>1, TimeoutsCover
    <3>2. CASE w # "next_for"
      <4>1. ms' = 0 /\ d = 0
        BY <1>3, <3>2 DEF Call
      <4>2. MaxMs * TicksPerMs \in Nat \ {0} /\ 0 * TicksPerMs = 0
        BY TimeoutsAssumption
      <4> QED BY <4>1, <4>2, TimeoutsAssumption DEF Covers
    <3> QED BY <3>1, <3>2
  <2>3. ms' \in 0..MaxMs
    BY <2>2 DEF Covers
  <2>4. ms' \in Ints /\ ms' \geq 0
    BY <2>3, TimeoutsAssumption DEF Ints
  <2> QED BY <2>1, <2>2, <2>4 DEF WaitState, WaitsAsAsked
<1>4. \/ UNCHANGED wait
      \/ \E w \in Ways, d \in Durations : Call(w, d)
  BY DEF Next, Return, Publish, Kill, Fault, CReturn, ReturnEvent, ReturnTimedOut,
         ReturnEnd, ReturnFailure, Close, vars
<1> QED
  BY <1>2, <1>3, <1>4

\* Every step preserves it, one step of the proof per action.
LEMMA InvStep == IInv /\ [Next]_vars => IInv'
<1> SUFFICES ASSUME IInv, [Next]_vars PROVE IInv'
  OBVIOUS
<1>0. ms \geq 0 /\ WaitState' /\ asked' \in Durations /\ ms' \in Ints
  BY WaitStep DEF IInv, WaitState
<1> USE <1>0, StreamReaderAssumption DEF IInv, TypeOK, CodesAreTrue, ObjectIsConsistent,
        PoisonFollowsFatal, IdIsKnown, Ways, Failures, Bounded
<1>1. CASE Publish
  BY <1>1 DEF Publish
<1>2. CASE Kill
  <2>1. TypeOK'
    <3>1. sent' \in 0..MaxEvents
      BY <1>2 DEF Kill
    <3>2. live' \in BOOLEAN
      BY <1>2 DEF Kill
    <3>3. UNCHANGED <<taken, fault, pc, way, wait, rc, handle, done, failed, haveId,
                      poisoned, got, answer>>
      BY <1>2 DEF Kill
    <3> QED BY <3>1, <3>2, <3>3
  <2>2. CodesAreTrue'
    BY <1>2 DEF Kill
  <2>3. ObjectIsConsistent' /\ PoisonFollowsFatal' /\ IdIsKnown'
    BY <1>2 DEF Kill
  <2> QED BY <2>1, <2>2, <2>3
<1>3. ASSUME NEW f \in Failures, Fault(f) PROVE IInv'
  BY <1>3 DEF Fault
<1>4. ASSUME NEW w \in Ways, NEW d \in Durations, Call(w, d) PROVE IInv'
  BY <1>4 DEF Call, source
<1>5. CASE CReturn
  <2>1. /\ pc = "calling" /\ pc' = "back"
        /\ \/ taken < sent /\ taken' = taken + 1 /\ rc' = "EVENT"
           \/ taken = sent /\ ~live /\ rc' = "CLOSED" /\ UNCHANGED taken
           \/ taken = sent /\ way \in Bounded /\ rc' = "AGAIN" /\ UNCHANGED taken
           \/ fault # "none" /\ rc' = fault /\ UNCHANGED taken
        /\ UNCHANGED <<sent, live, fault, way, wait, handle, done, failed, haveId,
                       poisoned, got, answer>>
    <3>1. ~(ms < 0)
      BY TimeoutsAssumption DEF Ints
    <3>2. Faults = {fault} \ {"none"}
      BY <3>1 DEF Faults
    <3> QED BY <1>5, <3>2 DEF CReturn, source
  <2>2. TypeOK'
    BY <2>1
  <2>3. CodesAreTrue'
    BY <2>1
  <2>4. ObjectIsConsistent' /\ PoisonFollowsFatal' /\ IdIsKnown'
    BY <2>1
  <2> QED BY <2>2, <2>3, <2>4
<1>6. CASE ReturnEvent
  BY <1>6 DEF ReturnEvent, Back, source
<1>7. CASE ReturnTimedOut
  BY <1>7 DEF ReturnTimedOut, Back, source
<1>8. CASE ReturnEnd
  BY <1>8 DEF ReturnEnd, Back, source
<1>9. CASE ReturnFailure
  BY <1>9 DEF ReturnFailure, Back, source
<1>10. CASE Close
  <2>1. TypeOK'
    <3>1. live' \in BOOLEAN
      BY <1>10 DEF Close
    <3>2. /\ done' = TRUE /\ handle' = FALSE
          /\ UNCHANGED <<sent, taken, fault, pc, way, wait, rc, failed, haveId, poisoned,
                         got, answer>>
      BY <1>10 DEF Close
    <3>3. done' \in BOOLEAN /\ handle' \in BOOLEAN
      BY <3>2
    <3>4. haveId' \in BOOLEAN /\ poisoned' \in BOOLEAN
      BY <3>2
    <3> QED BY <3>1, <3>2, <3>3, <3>4
  <2>2. CodesAreTrue'
    BY <1>10 DEF Close
  <2>3. ObjectIsConsistent' /\ PoisonFollowsFatal' /\ IdIsKnown'
    BY <1>10 DEF Close
  <2> QED BY <2>1, <2>2, <2>3
<1>11. CASE UNCHANGED vars
  BY <1>11 DEF vars, source
<1> QED
  BY <1>1, <1>2, <1>3, <1>4, <1>5, <1>6, <1>7, <1>8, <1>9, <1>10, <1>11
  DEF Next, Return

\* The inductive invariant of the reader.
LEMMA Invariant == Spec => []IInv
  BY InvInit, InvStep, PTL DEF Spec

\* The types are kept (stream.hpp).
THEOREM ReaderTypeCorrect == Spec => []TypeOK
<1>1. IInv => TypeOK
  BY DEF IInv
<1> QED
  BY Invariant, <1>1, PTL

\* A consumer told the end without a failure has seen everything.
THEOREM CleanEndIsTheEnd == Spec => []CleanEndSawEverything
<1>1. IInv => CleanEndSawEverything
  BY DEF IInv, ObjectIsConsistent, CleanEndSawEverything
<1> QED
  BY Invariant, <1>1, PTL

\* The connection is poisoned exactly by a fatal read.
THEOREM FatalReadPoisons == Spec => []PoisonFollowsFatal
<1>1. IInv => PoisonFollowsFatal
  BY DEF IInv
<1> QED
  BY Invariant, <1>1, PTL

\* query_id() is known exactly from the first notification on.
THEOREM IdFromFirstEvent == Spec => []IdIsKnown
<1>1. IInv => IdIsKnown
  BY DEF IInv
<1> QED
  BY Invariant, <1>1, PTL

\* Every bounded wait is as long as its caller asked, for every duration.
THEOREM WaitsAreAsAsked == Spec => []WaitsAsAsked
<1>1. IInv => WaitsAsAsked
  BY DEF IInv, WaitState
<1> QED
  BY Invariant, <1>1, PTL

\* Every step of the reader is a step of Feed or leaves it alone: the reads in
\* progress, the codes and the expired waits are invisible to the promise.
LEMMA StepIsFeedStep == IInv /\ [Next]_vars => [Promise!Next]_(Promise!vars)
<1> SUFFICES ASSUME IInv, [Next]_vars PROVE [Promise!Next]_(Promise!vars)
  OBVIOUS
<1>0. ms \geq 0
  BY DEF IInv, WaitState
<1> USE <1>0 DEF IInv, TypeOK, CodesAreTrue, ObjectIsConsistent, Failures, Bounded, Ways,
        Promise!vars
<1>1. CASE Publish
  <2>1. Promise!Publish
    BY <1>1 DEF Publish, Promise!Publish
  <2> QED BY <2>1 DEF Promise!Next
<1>2. CASE Kill
  <2>1. Promise!Stop
    BY <1>2 DEF Kill, Promise!Stop
  <2> QED BY <2>1 DEF Promise!Next
<1>3. ASSUME NEW f \in Failures, Fault(f) PROVE [Promise!Next]_(Promise!vars)
  <2>1. Promise!Break
    BY <1>3 DEF Fault, Promise!Break
  <2> QED BY <2>1 DEF Promise!Next
<1>4. ASSUME NEW w \in Ways, NEW d \in Durations, Call(w, d)
      PROVE  [Promise!Next]_(Promise!vars)
  BY <1>4 DEF Call, source
<1>5. CASE CReturn
  BY <1>5 DEF CReturn, source
<1>6. CASE ReturnEvent
  <2>1. Promise!Deliver
    BY <1>6 DEF ReturnEvent, Back, source, Promise!Deliver
  <2> QED BY <2>1 DEF Promise!Next
<1>7. CASE ReturnTimedOut
  BY <1>7 DEF ReturnTimedOut, Back, source
<1>8. CASE ReturnEnd
  <2>1. Promise!End
    BY <1>8 DEF ReturnEnd, Back, source, Promise!End
  <2> QED BY <2>1 DEF Promise!Next
<1>9. CASE ReturnFailure
  <2>1. Promise!Fail
    BY <1>9 DEF ReturnFailure, Back, source, Promise!Fail
  <2> QED BY <2>1 DEF Promise!Next
<1>10. CASE Close
  <2>1. CASE handle
    <3>1. Promise!Close
      BY <1>10, <2>1 DEF Close, Promise!Close
    <3> QED BY <3>1 DEF Promise!Next
  <2>2. CASE ~handle
    BY <1>10, <2>2 DEF Close
  <2> QED BY <2>1, <2>2
<1>11. CASE UNCHANGED vars
  BY <1>11 DEF vars, source
<1> QED
  BY <1>1, <1>2, <1>3, <1>4, <1>5, <1>6, <1>7, <1>8, <1>9, <1>10, <1>11
  DEF Next, Return

\* stream implements Feed: nothing published is lost, repeated or delivered
\* after the end, and every end and failure reported is real.
THEOREM StreamImplementsFeed == Spec => ImplementsFeed
<1>1. Init => Promise!Init
  BY DEF Init, Promise!Init
<1> QED
  BY <1>1, Invariant, StepIsFeedStep, PTL DEF Spec, ImplementsFeed, Promise!Spec
=============================================================================
