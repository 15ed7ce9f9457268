------------------------------- MODULE Startup --------------------------------
(****************************************************************************)
(* Process-wide settings against the first connect (options.hpp:294-379,    *)
(* connection.hpp:244-269, rpc.hpp:388-402).                                *)
(*                                                                          *)
(* The datastore builds its blocking pool once per process, when an engine  *)
(* first needs it, from a variable that sr_runtime_init sets.  The C        *)
(* library cannot tell whether that has happened, so the C++ side keeps an  *)
(* atomic flag: connect stores it before it opens anything, runtime_init    *)
(* loads it before it applies anything.  The two accesses of each call are  *)
(* steps of their own, because the calls may come from different threads.   *)
(****************************************************************************)
EXTENDS Integers

CONSTANTS
    Threads,   \* threads of the client
    Sizes,     \* the pool sizes a client asks for
    MaxCalls   \* bound on the calls each thread makes

\* kvs_threadpool_size: 0 asks for nothing.
ASSUME StartupAssumption ==
    /\ Sizes \subseteq Nat \ {0}
    /\ MaxCalls \in Nat

VARIABLES
    \* the process
    setting,   \* the variable: the size last applied, or 0
    pool,      \* the pool: Unbuilt, or the size it was built with
    started,   \* engine_started()
    \* the threads
    pc,        \* "idle", "applying", "marked": between the steps of a call
    size,      \* the argument of the runtime_init in progress
    answer,    \* what the last runtime_init of the thread returned
    calls,     \* calls made
    \* history
    late,      \* threads whose last runtime_init began with the pool built
    overlap,   \* threads whose last runtime_init had a connect begin in the middle
    ignored    \* threads whose last runtime_init set the variable too late

vars == <<setting, pool, started, pc, size, answer, calls, late, overlap, ignored>>

Unbuilt == -1
Answers == {"none", "applied", "nothing", "refused", "failed"}

Init ==
    /\ setting = 0 /\ pool = Unbuilt /\ started = FALSE
    /\ pc = [t \in Threads |-> "idle"]
    /\ size = [t \in Threads |-> 0]
    /\ answer = [t \in Threads |-> "none"]
    /\ calls = [t \in Threads |-> 0]
    /\ late = {} /\ overlap = {} /\ ignored = {}

Begin(t) ==
    /\ pc[t] = "idle"
    /\ calls[t] < MaxCalls
    /\ calls' = [calls EXCEPT ![t] = @ + 1]

-----------------------------------------------------------------------------
\* runtime_init() begins.
Ask(t, n) ==
    /\ Begin(t)
    /\ size' = [size EXCEPT ![t] = n]
    /\ late' = IF pool # Unbuilt THEN late \cup {t} ELSE late \ {t}
    /\ overlap' = overlap \ {t}
    /\ ignored' = ignored \ {t}

\* The load of the flag...
InitTest(t, n) ==
    /\ Ask(t, n)
    /\ IF started
       THEN answer' = [answer EXCEPT ![t] = "refused"] /\ UNCHANGED pc
       ELSE pc' = [pc EXCEPT ![t] = "applying"] /\ UNCHANGED answer
    /\ UNCHANGED <<setting, pool, started>>

\* Mutant of Verdict: nothing to do is passed on as the C library's own code.
VerdictRaw(rc) ==
    IF rc > 0 THEN "applied" ELSE IF rc = 0 THEN "SR_NONE" ELSE "failed"

Verdict(rc) ==
    IF rc > 0 THEN "applied" ELSE IF rc = 0 THEN "nothing" ELSE "failed"

\* ...and the call of sr_runtime_init: a positive code when it set the variable,
\* zero when there was nothing to set, a negative one when it could not.
InitApply(t, rc) ==
    /\ pc[t] = "applying"
    /\ pc' = [pc EXCEPT ![t] = "idle"]
    /\ rc >= 0 => (rc = 0 <=> size[t] = 0)
    /\ setting' = IF rc > 0 THEN size[t] ELSE setting
    /\ ignored' = IF rc > 0 /\ pool # Unbuilt THEN ignored \cup {t} ELSE ignored
    /\ answer' = [answer EXCEPT ![t] = Verdict(rc)]
    /\ UNCHANGED <<pool, started, size, calls, late, overlap>>

-----------------------------------------------------------------------------
\* A connect begins.
Enter(t) ==
    /\ Begin(t)
    /\ pc' = [pc EXCEPT ![t] = "marked"]
    /\ overlap' = overlap \cup {u \in Threads : pc[u] = "applying"}
    /\ UNCHANGED <<setting, pool, size, answer, late, ignored>>

\* Mutant of ConnectMark: one of the three connects forgets the flag.
ConnectForgets(t) == Enter(t) /\ UNCHANGED started

\* connection::connect() and rpc::connect(): the store of the flag...
ConnectMark(t) == Enter(t) /\ started' = TRUE

\* ...and the call that opens an engine, which fails before or after it needs the
\* pool, or succeeds.
ConnectOpen(t) ==
    /\ pc[t] = "marked"
    /\ pc' = [pc EXCEPT ![t] = "idle"]
    /\ pool' \in {pool, IF pool = Unbuilt THEN setting ELSE pool}
    /\ UNCHANGED <<setting, started, size, answer, calls, late, overlap, ignored>>

Next ==
    \E t \in Threads :
        \/ \E n \in Sizes \cup {0} : InitTest(t, n)
        \/ \E rc \in {-1, 0, 1} : InitApply(t, rc)
        \/ ConnectMark(t) \/ ConnectOpen(t)

Spec == Init /\ [][Next]_vars

-----------------------------------------------------------------------------
\* The type of every variable.
TypeOK ==
    /\ setting \in Sizes \cup {0}
    /\ pool \in Sizes \cup {0, Unbuilt}
    /\ started \in BOOLEAN
    /\ pc \in [Threads -> {"idle", "applying", "marked"}]
    /\ size \in [Threads -> Sizes \cup {0}]
    /\ answer \in [Threads -> Answers]
    /\ calls \in [Threads -> 0..MaxCalls]
    /\ late \subseteq Threads /\ overlap \subseteq Threads /\ ignored \subseteq Threads

\* Settings that come too late are refused, never silently ignored: once the
\* pool is built, whichever thread built it and whether or not its connect
\* succeeded, every runtime_init that begins fails (options.hpp:349-353).
LateIsRefused == \A t \in late : pc[t] # "applying" /\ answer[t] = "refused"

\* A runtime_init that says it applied its settings, and did not, ran into a
\* connect that began in the middle of it -- there is no other way
\* (options.hpp:344-354).
IgnoredOnlyInARace == ignored \subseteq overlap
=============================================================================
