--------------------------- MODULE RpcContextProofs ---------------------------
(****************************************************************************)
(* The safety properties of RpcContext for every channel bound.             *)
(****************************************************************************)
EXTENDS RpcContext, TLAPS

\* What the owner's members say of the context at each point of a teardown.
OwnerState ==
    /\ owner = "using" => ctx = "open" /\ token /\ ended = "no" /\ ~raced
    /\ token => owner \in {"using", "disconnect"}
    /\ owner = "destroy" => ctx = "open"

\* What the reader has been told, or is about to be told, is so.
ReaderState ==
    /\ reader = "back" /\ rc = "CLOSED" => ctx = "freed"
    /\ channel = "none" => reader = "none" /\ ~done
    /\ done /\ reader \in {"idle", "calling", "back"} => told \cap Ends # {}
    /\ ClosedMeansTornDown
    /\ FatalIsKnown
    /\ LeakOnlyInTeardown

IInv == TypeOK /\ OwnerState /\ ReaderState

\* The invariant holds initially.
LEMMA InvInit == Init => IInv
<1> SUFFICES ASSUME Init PROVE IInv
  OBVIOUS
<1> USE DEF Init, Failures
<1>1. pending \in 0..MaxPending
  BY RpcContextAssumption
<1>2. TypeOK
  BY <1>1 DEF TypeOK, Ways
<1>3. OwnerState
  BY DEF OwnerState
<1>4. ReaderState
  BY DEF ReaderState, ClosedMeansTornDown, FatalIsKnown, LeakOnlyInTeardown
<1> QED
  BY <1>2, <1>3, <1>4 DEF IInv

\* What a read makes of each code is an answer, and "ended" is made of SR_CLOSED.
LEMMA AnswerType ==
    ASSUME NEW w \in Ways, NEW c \in {"EVENT", "CLOSED", "AGAIN"} \cup Failures
    PROVE  /\ Answer(w, c) \in {"event", "timed_out"} \cup Ends
           /\ Answer(w, c) = "ended" => c = "CLOSED"
           /\ Answer(w, "CLOSED") \in {"ended", "range_end"}
  BY DEF Answer, Answers, Ways, Failures, Ends

\* Every step preserves it.
LEMMA InvStep == IInv /\ [Next]_vars => IInv'
<1> SUFFICES ASSUME IInv, [Next]_vars PROVE IInv'
  OBVIOUS
<1> USE RpcContextAssumption DEF IInv, TypeOK, OwnerState, ReaderState, Ways, Failures,
        ClosedMeansTornDown, FatalIsKnown, LeakOnlyInTeardown, ownerVars, readerVars, teardown
<1>1. ASSUME NEW r \in {"ok"} \cup Failures, Request(r) PROVE IInv'
  <2>1. TypeOK'
    <3>1. flag' \in BOOLEAN /\ fatal' \in BOOLEAN
      BY <1>1 DEF Request
    <3> QED BY <1>1, <3>1 DEF Request
  <2>2. OwnerState'
    BY <1>1 DEF Request
  <2>3. ReaderState'
    BY <1>1 DEF Request
  <2> QED BY <2>1, <2>2, <2>3
<1>2. CASE Notifications
  <2>1. TypeOK'
    BY <1>2 DEF Notifications
  <2>2. OwnerState'
    BY <1>2 DEF Notifications
  <2>3. ReaderState'
    BY <1>2 DEF Notifications
  <2> QED BY <2>1, <2>2, <2>3
<1>3. CASE Disconnect1
  <2>1. TypeOK'
    <3>1. handle' \in BOOLEAN /\ ctx' = "freed" /\ owner' = "disconnect"
      BY <1>3 DEF Disconnect1, BeginTeardown, FreeContext
    <3>2. ended' = "disconnect" /\ raced' \in BOOLEAN /\ UNCHANGED replaced
      BY <1>3 DEF Disconnect1, BeginTeardown
    <3> QED BY <1>3, <3>1, <3>2 DEF Disconnect1
  <2>2. OwnerState'
    BY <1>3 DEF Disconnect1, BeginTeardown, FreeContext
  <2>3. ReaderState'
    BY <1>3 DEF Disconnect1, BeginTeardown, FreeContext
  <2> QED BY <2>1, <2>2, <2>3
<1>4. CASE Disconnect2
  <2>1. TypeOK'
    <3>1. token' \in BOOLEAN
      BY <1>4 DEF Disconnect2, DropToken
    <3> QED BY <1>4, <3>1 DEF Disconnect2
  <2>2. OwnerState'
    BY <1>4 DEF Disconnect2, DropToken
  <2>3. ReaderState'
    BY <1>4 DEF Disconnect2, DropToken
  <2> QED BY <2>1, <2>2, <2>3
<1>5. CASE Destroy1
  <2>1. TypeOK'
    <3>1. token' \in BOOLEAN /\ owner' = "destroy"
      BY <1>5 DEF Destroy1, BeginTeardown, DropToken
    <3>2. ended' = "destroy" /\ raced' \in BOOLEAN /\ UNCHANGED replaced
      BY <1>5 DEF Destroy1, BeginTeardown
    <3> QED BY <1>5, <3>1, <3>2 DEF Destroy1
  <2>2. OwnerState'
    BY <1>5 DEF Destroy1, BeginTeardown, DropToken
  <2>3. ReaderState'
    BY <1>5 DEF Destroy1, BeginTeardown, DropToken
  <2> QED BY <2>1, <2>2, <2>3
<1>6. CASE Destroy2
  <2>1. TypeOK'
    <3>1. handle' \in BOOLEAN /\ ctx' = "freed" /\ owner' = "gone"
      BY <1>6 DEF Destroy2, FreeContext
    <3> QED BY <1>6, <3>1 DEF Destroy2
  <2>2. OwnerState'
    BY <1>6 DEF Destroy2, FreeContext
  <2>3. ReaderState'
    BY <1>6 DEF Destroy2, FreeContext
  <2> QED BY <2>1, <2>2, <2>3
<1>7. CASE Notify
  BY <1>7 DEF Notify
<1>8. CASE CReturn
  BY <1>8 DEF CReturn
<1>9. ASSUME NEW f \in Failures, CFail(f) PROVE IInv'
  BY <1>9 DEF CFail
<1>10. ASSUME NEW w \in Ways, Call(w) PROVE IInv'
  <2>1. CASE ~done
    <3>1. /\ reader' = "calling" /\ way' = w
          /\ UNCHANGED <<ctx, pending, channel, deadFree, fatal, flag,
                         ended, raced, replaced, owner, handle, token, told, rc, done>>
      BY <1>10, <2>1 DEF Call
    <3>2. reader = "idle"
      BY <1>10 DEF Call
    <3>3. TypeOK'
      BY <3>1
    <3>4. OwnerState'
      BY <3>1
    <3>5. ReaderState'
      BY <2>1, <3>1, <3>2
    <3> QED BY <3>3, <3>4, <3>5
  <2>2. CASE done
    <3>1. /\ told' = told \cup {Answer(w, "CLOSED")} /\ way' = w
          /\ UNCHANGED <<ctx, pending, channel, deadFree, fatal, flag,
                         ended, raced, replaced, owner, handle, token, reader, rc, done>>
      BY <1>10, <2>2 DEF Call
    <3>2. Answer(w, "CLOSED") \in {"ended", "range_end"}
      BY AnswerType
    <3>3. TypeOK'
      <4>1. told' \subseteq {"event", "timed_out"} \cup Ends
        BY <3>1, <3>2 DEF Ends
      <4> QED BY <3>1, <4>1
    <3>4. OwnerState'
      BY <3>1
    <3>5. ClosedMeansTornDown'
      <4>1. reader = "idle"
        BY <1>10 DEF Call
      <4>2. told \cap {"ended", "failed", "fatal", "range_end"} # {}
        BY <2>2, <4>1 DEF Ends
      <4>3. ctx = "freed" \/ {"failed", "fatal", "range_end"} \cap told # {}
        BY <4>2
      <4> QED BY <3>1, <4>3
    <3>6. ReaderState'
      BY <3>1, <3>5
    <3> QED BY <3>3, <3>4, <3>6
  <2> QED BY <2>1, <2>2
<1>11. CASE Return
  <2> DEFINE a == Answer(way, rc)
  <2>1. /\ a \in {"event", "timed_out"} \cup Ends
        /\ a = "ended" => rc = "CLOSED"
    BY AnswerType
  <2> HIDE DEF a
  <2>2. /\ reader = "back" /\ reader' = "idle"
        /\ told' = told \cup {a}
        /\ done' = (done \/ a \in Ends)
        /\ fatal' = (fatal \/ rc = "FATAL")
        /\ flag' = (flag \/ rc = "FATAL")
        /\ UNCHANGED <<ctx, pending, channel, deadFree, owner, handle, token,
                       way, rc, ended, raced, replaced>>
    BY <1>11 DEF Return, a
  <2>3. TypeOK'
    <3>1. told' \subseteq {"event", "timed_out"} \cup Ends
      BY <2>1, <2>2
    <3>2. done' \in BOOLEAN /\ flag' \in BOOLEAN /\ fatal' \in BOOLEAN
      BY <2>2
    <3> QED BY <2>2, <3>1, <3>2
  <2>4. OwnerState'
    BY <2>2
  <2>5. ClosedMeansTornDown'
    BY <2>1, <2>2
  <2>6. done' => told' \cap Ends # {}
    BY <2>2
  <2>7. ReaderState'
    BY <2>2, <2>5, <2>6
  <2> QED BY <2>3, <2>4, <2>7
<1>12. CASE RetireTest
  BY <1>12 DEF RetireTest
<1>13. CASE RetireFree
  BY <1>13 DEF RetireFree
<1>14. CASE AssignOver
  BY <1>14 DEF AssignOver
<1>15. CASE UNCHANGED vars
  BY <1>15 DEF vars
<1> QED
  BY <1>1, <1>2, <1>3, <1>4, <1>5, <1>6, <1>7, <1>8, <1>9, <1>10, <1>11, <1>12,
     <1>13, <1>14, <1>15
  DEF Next, OwnerNext, ReaderNext

\* The inductive invariant of the two threads.
LEMMA Invariant == Spec => []IInv
  BY InvInit, InvStep, PTL DEF Spec

\* The types are kept (rpc.hpp).
THEOREM RpcTypeCorrect == Spec => []TypeOK
<1>1. IInv => TypeOK
  BY DEF IInv
<1> QED
  BY Invariant, <1>1, PTL

\* A notification stream is left unfreed only by a teardown of its context.
THEOREM NoLeakInUse == Spec => []LeakOnlyInTeardown
<1>1. IInv => LeakOnlyInTeardown
  BY DEF IInv, ReaderState
<1> QED
  BY Invariant, <1>1, PTL

\* The end of the notifications is always the end of the context.
THEOREM ClosedIsTeardown == Spec => []ClosedMeansTornDown
<1>1. IInv => ClosedMeansTornDown
  BY DEF IInv, ReaderState
<1> QED
  BY Invariant, <1>1, PTL

\* SR_FATAL is known to both threads as soon as one has been told.
THEOREM FatalReachesOwner == Spec => []FatalIsKnown
<1>1. IInv => FatalIsKnown
  BY DEF IInv, ReaderState
<1> QED
  BY Invariant, <1>1, PTL

\* While the reader closes its stream the context is in use -- unless somebody
\* calls disconnect() or a teardown begins in the middle of the closing -- and
\* nothing is freed later than it, unless by an assignment.
ClosingIsSafe ==
    ended # "disconnect" /\ ~raced /\ ~replaced =>
        /\ owner # "disconnect"
        /\ reader = "freeing" => owner = "using"
        /\ ~deadFree

\* That, too, is inductive.
LEMMA ClosingIsSafeStep == IInv /\ ClosingIsSafe /\ [Next]_vars => ClosingIsSafe'
<1> SUFFICES ASSUME IInv, ClosingIsSafe, [Next]_vars PROVE ClosingIsSafe'
  OBVIOUS
<1> USE DEF IInv, OwnerState, ClosingIsSafe, ownerVars, readerVars, teardown
<1>1. ASSUME NEW r \in {"ok"} \cup Failures, Request(r) PROVE ClosingIsSafe'
  BY <1>1 DEF Request
<1>2. CASE Notifications
  BY <1>2 DEF Notifications
<1>3. CASE Disconnect1
  BY <1>3 DEF Disconnect1, BeginTeardown
<1>4. CASE Disconnect2
  BY <1>4 DEF Disconnect2
<1>5. CASE Destroy1
  BY <1>5 DEF Destroy1, BeginTeardown
<1>6. CASE Destroy2
  BY <1>6 DEF Destroy2
<1>7. CASE Notify
  BY <1>7 DEF Notify
<1>8. CASE CReturn
  BY <1>8 DEF CReturn
<1>9. ASSUME NEW f \in Failures, CFail(f) PROVE ClosingIsSafe'
  BY <1>9 DEF CFail
<1>10. ASSUME NEW w \in Ways, Call(w) PROVE ClosingIsSafe'
  BY <1>10 DEF Call
<1>11. CASE Return
  BY <1>11 DEF Return
<1>12. CASE RetireTest
  BY <1>12 DEF RetireTest
<1>13. CASE RetireFree
  BY <1>13 DEF RetireFree
<1>14. CASE AssignOver
  BY <1>14 DEF AssignOver
<1>15. CASE UNCHANGED vars
  BY <1>15 DEF vars
<1> QED
  BY <1>1, <1>2, <1>3, <1>4, <1>5, <1>6, <1>7, <1>8, <1>9, <1>10, <1>11, <1>12,
     <1>13, <1>14, <1>15
  DEF Next, OwnerNext, ReaderNext

\* With the destructor's order of members the token does its work: no stream
\* is freed after its context, except through disconnect(), by a teardown that
\* begins between the reader's look at the token and its free, or by assignment.
THEOREM DestructorOrderIsSafe == Spec => []DestructorKeepsFreesOff
<1>1. Init => ClosingIsSafe
  BY DEF Init, ClosingIsSafe
<1>2. IInv /\ ClosingIsSafe /\ [Next]_vars => ClosingIsSafe'
  BY ClosingIsSafeStep
<1>3. ClosingIsSafe => DestructorKeepsFreesOff
  BY DEF ClosingIsSafe, DestructorKeepsFreesOff
<1> QED
  BY Invariant, <1>1, <1>2, <1>3, PTL DEF Spec
=============================================================================
