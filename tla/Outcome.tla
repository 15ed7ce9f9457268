------------------------------- MODULE Outcome -------------------------------
(****************************************************************************)
(* What a call hands back (error.hpp, detail/invoke.hpp, detail/owned.hpp,  *)
(* results.hpp): result<query_results>, error and query_results objects     *)
(* that own memory of two allocators, and the result<array_view> of         *)
(* single() and checked() that borrow from them.                            *)
(*                                                                          *)
(* Every object is a cell: nothing (not constructed, or destroyed), a value *)
(* or an error.  A block of memory is a string of the C library, a string   *)
(* of this library or the array of a query's statements.                    *)
(****************************************************************************)
EXTENDS Naturals, Sequences, FiniteSets

CONSTANTS
    Blocks,         \* memory blocks, each allocated at most once
    Results,        \* variables of type result<query_results>
    Errors,         \* variables of type error
    Queries,        \* variables of type query_results
    Rows,           \* variables of type result<array_view>
    Failing,        \* error codes: the negative codes of the C library
    MaxStatements,  \* bound on the statements of a query
    Null

Objects == Results \cup Errors \cup Queries \cup Rows

ASSUME OutcomeAssumption ==
    /\ Null \notin Blocks
    /\ Failing \subseteq {"closed", "error", "fatal"} /\ "error" \in Failing
    /\ MaxStatements \in Nat
    /\ Results \cap Errors = {} /\ Results \cap Queries = {} /\ Results \cap Rows = {}
    /\ Errors \cap Queries = {} /\ Errors \cap Rows = {} /\ Queries \cap Rows = {}

VARIABLES
    heap,      \* what became of each block
    made,      \* the allocator and type of each block
    codes,     \* the status codes of the statements in an array not yet freed
    obj,       \* the objects
    statement, \* history: the statements each object of Rows was made from
    wrong,     \* history: blocks freed twice, or not by their own destructor
    blank      \* history: the errors that come from no failure, see Default and Report

vars == <<heap, made, codes, obj, statement, wrong, blank>>

Codes == {"ok"} \cup Failing

Nothing == [holds |-> "nothing", code |-> "ok", origin |-> "none", block |-> Null]
Value(b) == [holds |-> "value", code |-> "ok", origin |-> "none", block |-> b]
Failure(c, o, b) == [holds |-> "error", code |-> c, origin |-> o, block |-> b]

Batches == UNION {[1..n -> Codes] : n \in 0..MaxStatements}

Init ==
    /\ heap = [b \in Blocks |-> "unused"]
    /\ made = [b \in Blocks |-> "nothing"]
    /\ codes = [b \in Blocks |-> <<>>]
    /\ obj = [o \in Objects |-> Nothing]
    /\ statement = [o \in Rows |-> {}]
    /\ wrong = {}
    /\ blank = {}

-----------------------------------------------------------------------------
\* Memory.

Unused(b) == heap[b] = "unused"

Allocate(b, type) ==
    /\ Unused(b)
    /\ heap' = [heap EXCEPT ![b] = "live"]
    /\ made' = [made EXCEPT ![b] = type]

\* Mutant of Destructor: every message is given to sr_string_free.
DestructorOfC(cell) == IF cell.holds = "value" THEN "array" ELSE "c_string"

\* The destructor a cell calls: ~owned_span, or error::release() by origin.
Destructor(cell) ==
    IF cell.holds = "value" THEN "array"
    ELSE IF cell.origin = "c_api" THEN "c_string" ELSE "local"

\* A view of rows owns nothing; a cell without a block has nothing to free.
Owns(o) == obj[o].block # Null /\ (o \in Rows => obj[o].holds = "error")

Free(o) ==
    LET b == obj[o].block IN
    IF Owns(o)
    THEN /\ heap' = [heap EXCEPT ![b] = "freed"]
         /\ codes' = [codes EXCEPT ![b] = <<>>]
         /\ wrong' = IF heap[b] = "live" /\ made[b] = Destructor(obj[o])
                     THEN wrong ELSE wrong \cup {b}
    ELSE UNCHANGED <<heap, codes, wrong>>

\* Mutant of Emptied: a move resets the code as well.
EmptiedResets(cell) == [cell EXCEPT !.code = "ok", !.origin = "none", !.block = Null]

\* What a move leaves: the same alternative with nothing in it.
Emptied(cell) == [cell EXCEPT !.origin = "none", !.block = Null]

-----------------------------------------------------------------------------
\* The default constructors: an error that is none, with no message, and a batch
\* of no statements.
Default(o) ==
    /\ o \in Errors \cup Queries /\ obj[o] = Nothing
    /\ obj' = [obj EXCEPT ![o] = IF o \in Errors THEN Failure("ok", "none", Null) ELSE Value(Null)]
    /\ blank' = IF o \in Errors THEN blank \cup {o} ELSE blank
    /\ UNCHANGED <<heap, made, codes, statement, wrong>>

-----------------------------------------------------------------------------
\* detail::invoke(): a C call into a new result.

\* A negative code, with the message it set; error::adopt() owns it.
CallFails(r, c, b) ==
    /\ obj[r] = Nothing
    /\ Allocate(b, "c_string")
    /\ obj' = [obj EXCEPT ![r] = Failure(c, "c_api", b)]
    /\ UNCHANGED <<codes, statement, wrong, blank>>

\* Mutant of CallFailsMute: origin_ without an initialiser.
CallFailsMuteUninitialised(r, c) ==
    /\ obj[r] = Nothing
    /\ obj' = [obj EXCEPT ![r] = Failure(c, Null, Null)]
    /\ UNCHANGED <<heap, made, codes, statement, wrong, blank>>

\* A negative code without a message.
CallFailsMute(r, c) ==
    /\ obj[r] = Nothing
    /\ obj' = [obj EXCEPT ![r] = Failure(c, "none", Null)]
    /\ UNCHANGED <<heap, made, codes, statement, wrong, blank>>

\* Success: an array of statements, and perhaps a stray message freed at once.
CallReturns(r, a, m, batch) ==
    /\ obj[r] = Nothing
    /\ Unused(a) /\ (m # Null => Unused(m) /\ m # a)
    /\ heap' = [b \in Blocks |->
                   IF b = a THEN "live" ELSE IF b = m THEN "freed" ELSE heap[b]]
    /\ made' = [b \in Blocks |->
                   IF b = a THEN "array" ELSE IF b = m THEN "c_string" ELSE made[b]]
    /\ codes' = [codes EXCEPT ![a] = batch]
    /\ obj' = [obj EXCEPT ![r] = Value(a)]
    /\ UNCHANGED <<statement, wrong, blank>>

-----------------------------------------------------------------------------
\* Moves and destructors.

\* Where the content of an object may be moved to: its own type, the
\* alternatives of a result with std::move(r).value() and .error(), and a
\* result that is made from one of them.
MayHold(d, cell) ==
    \/ d \in Results
    \/ d \in Queries /\ cell.holds = "value"
    \/ d \in Errors /\ cell.holds = "error"

\* Construction or assignment by move.  Assignment destroys what the target
\* held; every operator= tests for itself first.
Move(s, d) ==
    /\ obj[s].holds # "nothing"
    /\ s \notin Rows \/ obj[s].holds = "error"
    /\ d \notin Rows /\ MayHold(d, obj[s])
    /\ IF s = d
       THEN UNCHANGED <<heap, codes, wrong, obj, blank>>
       ELSE /\ Free(d)
            /\ obj' = [obj EXCEPT ![d] = obj[s], ![s] = Emptied(obj[s])]
            /\ blank' = IF s \in blank THEN blank \cup {d} ELSE blank \ {d}
    /\ UNCHANGED <<made, statement>>

Destroy(o) ==
    /\ obj[o].holds # "nothing"
    /\ Free(o)
    /\ obj' = [obj EXCEPT ![o] = Nothing]
    /\ statement' = [w \in Rows |-> IF w = o THEN {} ELSE statement[w]]
    /\ blank' = blank \ {o}
    /\ UNCHANGED made

\* error::local(c, message) into d; without memory, or with an empty message,
\* the error has none.
Local(d, c, b) ==
    \/ /\ Allocate(b, "local")
       /\ obj' = [obj EXCEPT ![d] = Failure(c, "local", b)]
    \/ /\ UNCHANGED <<heap, made>>
       /\ obj' = [obj EXCEPT ![d] = Failure(c, "none", Null)]

-----------------------------------------------------------------------------
\* query_results and statement_result.

Batch(q) == IF obj[q].block = Null THEN <<>> ELSE codes[obj[q].block]

\* first_error(): the first statement that is not ok(), or an invalid one.
FirstError(q) ==
    LET failed == {i \in DOMAIN Batch(q) : Batch(q)[i] # "ok"} IN
    IF failed = {} THEN 0 ELSE CHOOSE i \in failed : \A j \in failed : i <= j

\* Mutant of Checked: the error borrows the message of the statement.
CheckedBorrows(q, i, w, b) ==
    IF Batch(q)[i] = "ok"
    THEN obj' = [obj EXCEPT ![w] = Value(obj[q].block)] /\ UNCHANGED <<heap, made>>
    ELSE /\ obj' = [obj EXCEPT ![w] = Failure(Batch(q)[i], "c_api", obj[q].block)]
         /\ UNCHANGED <<heap, made>>

\* checked() of statement i: its rows, borrowed, or a copy of its failure.
Checked(q, i, w, b) ==
    IF Batch(q)[i] = "ok"
    THEN obj' = [obj EXCEPT ![w] = Value(obj[q].block)] /\ UNCHANGED <<heap, made>>
    ELSE Local(w, Batch(q)[i], b)

Statement(q, i, w, b) ==
    /\ obj[q].holds = "value" /\ obj[w] = Nothing
    /\ i \in DOMAIN Batch(q)
    /\ Checked(q, i, w, b)
    /\ statement' = [statement EXCEPT ![w] = {i}]
    /\ UNCHANGED <<codes, wrong, blank>>

\* first_error().checked()
Report(q, w, b) ==
    LET i == FirstError(q) IN
    /\ obj[q].holds = "value" /\ obj[w] = Nothing
    /\ IF i = 0
       THEN /\ obj' = [obj EXCEPT ![w] = Failure("ok", "none", Null)]
            /\ blank' = blank \cup {w}
            /\ UNCHANGED <<heap, made>>
       ELSE Checked(q, i, w, b) /\ UNCHANGED blank
    /\ statement' = [statement EXCEPT ![w] = {i}]
    /\ UNCHANGED <<codes, wrong>>

\* Mutant of Single: only an empty result is refused.
SingleTakesFirst(q, w, b) ==
    /\ obj[q].holds = "value" /\ obj[w] = Nothing
    /\ IF Batch(q) = <<>> THEN Local(w, "error", b) ELSE Checked(q, 1, w, b)
    /\ statement' = [statement EXCEPT ![w] = DOMAIN Batch(q)]
    /\ UNCHANGED <<codes, wrong, blank>>

\* single(): exactly one statement, and that one succeeded.
Single(q, w, b) ==
    /\ obj[q].holds = "value" /\ obj[w] = Nothing
    /\ IF Len(Batch(q)) # 1 THEN Local(w, "error", b) ELSE Checked(q, 1, w, b)
    /\ statement' = [statement EXCEPT ![w] = DOMAIN Batch(q)]
    /\ UNCHANGED <<codes, wrong, blank>>

-----------------------------------------------------------------------------
Calls ==
    \E r \in Results :
        \/ \E c \in Failing, b \in Blocks : CallFails(r, c, b)
        \/ \E c \in Failing : CallFailsMute(r, c)
        \/ \E a \in Blocks, m \in Blocks \cup {Null}, batch \in Batches :
               CallReturns(r, a, m, batch)

\* and_then() and transform() move the failure, or the value through the
\* function, into a result of another type: Move and Destroy in other words.
Next ==
    \/ Calls
    \/ \E s, d \in Objects : Move(s, d)
    \/ \E o \in Objects : Default(o) \/ Destroy(o)
    \/ \E q \in Queries, w \in Rows, b \in Blocks :
           \/ \E i \in 1..MaxStatements : Statement(q, i, w, b)
           \/ Report(q, w, b)
           \/ Single(q, w, b)

Spec == Init /\ [][Next]_vars

-----------------------------------------------------------------------------
Cells ==
    [holds : {"nothing", "value", "error"}, code : Codes,
     origin : {"none", "c_api", "local"}, block : Blocks \cup {Null}]

\* The type of every variable.
TypeOK ==
    /\ heap \in [Blocks -> {"unused", "live", "freed"}]
    /\ made \in [Blocks -> {"nothing", "array", "c_string", "local"}]
    /\ codes \in [Blocks -> Batches]
    /\ obj \in [Objects -> Cells]
    /\ statement \in [Rows -> SUBSET (0..MaxStatements)]
    /\ wrong \subseteq Blocks
    /\ blank \subseteq Objects

\* No block is freed twice, and each by the destructor of its allocator, however
\* an error made here and one of the C library, and the results that hold
\* them, are moved, assigned over one another, taken apart and destroyed.
FreedRightly == wrong = {}

Owners(b) == {o \in Objects : Owns(o) /\ obj[o].block = b}

\* A block that was not freed has one owner, which will free it, and one that
\* was freed has none: nothing leaks, a message outlives the results it was
\* copied from, and none is read after it was freed.
OneOwner == \A b \in Blocks : Cardinality(Owners(b)) = IF heap[b] = "live" THEN 1 ELSE 0

\* A result without a value says why: its code is that of a failure, also when
\* its error was moved out of it.  The errors that say "ok" are those that come
\* from no failure -- of an error that was default-constructed, or of the first
\* error of a batch in which nothing failed -- wherever they were moved, and no
\* others (error.hpp:42-52, 85; results.hpp:148-154).
FailureHasCode ==
    \A o \in Objects : (obj[o].holds = "error" /\ obj[o].code = "ok") <=> o \in blank

\* Rows are handed out of a statement that succeeded, and by single() of the
\* only one: a failure is never read as an empty table (results.hpp:163-178).
RowsAreOfASuccess ==
    \A w \in Rows, q \in Queries :
        /\ obj[w].holds = "value"
        /\ obj[q].holds = "value" /\ obj[q].block = obj[w].block
        => \A i \in statement[w] : Batch(q)[i] = "ok"
=============================================================================
