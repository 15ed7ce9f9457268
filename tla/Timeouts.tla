------------------------------- MODULE Timeouts -------------------------------
(****************************************************************************)
(* detail::to_timeout_ms (poll.hpp): the duration a caller asks for, made   *)
(* into the int milliseconds the C library takes.  A duration counts ticks, *)
(* TicksPerMs of them to the millisecond; one in seconds or hours is a      *)
(* multiple of that.  NaN, which a floating count can be, goes the way of a *)
(* negative count and is not a number here.                                 *)
(****************************************************************************)
EXTENDS Integers

CONSTANTS
    MaxMs,        \* INT_MAX: an int is one of the 2 * (MaxMs + 1) values around 0
    TicksPerMs    \* ticks in a millisecond, 1000 for microseconds

ASSUME TimeoutsAssumption == MaxMs \in Nat \ {0} /\ TicksPerMs \in Nat \ {0}

Ints == -(MaxMs + 1) .. MaxMs

\* std::chrono::ceil: the conversion truncates, and goes up if that fell short.
CeilMs(d) == LET t == d \div TicksPerMs IN IF t * TicksPerMs < d THEN t + 1 ELSE t

\* Mutant of ToTimeoutMs: the plain cast, which truncates and wraps.
CastMs(d) == (((d \div TicksPerMs) + MaxMs + 1) % (2 * (MaxMs + 1))) - (MaxMs + 1)

\* Nothing, or less, polls once; what does not fit an int is clamped before the
\* integer conversion could overflow; the rest is rounded up.
ToTimeoutMs(d) ==
    IF ~(d > 0) THEN 0
    ELSE IF ~(d < MaxMs * TicksPerMs) THEN MaxMs
    ELSE IF CeilMs(d) \geq MaxMs THEN MaxMs
    ELSE CeilMs(d)

\* The reference: no number of milliseconds for a request to poll, else the
\* least number that covers the request, or the greatest int.
Covers(d, ms) ==
    /\ ms \in 0..MaxMs
    /\ ms > 0 <=> d > 0
    /\ d \leq MaxMs * TicksPerMs => ms * TicksPerMs \geq d
    /\ ms > 0 => (ms - 1) * TicksPerMs < d
    /\ d > MaxMs * TicksPerMs => ms = MaxMs
=============================================================================
