--------------------------------- MODULE Dsl ---------------------------------
(****************************************************************************)
(* Building one SELECT statement (dsl/arena.hpp, guards.hpp, query.hpp,     *)
(* expr.hpp) through scope guards or through the fluent surface.            *)
(*                                                                          *)
(* The text is a sequence of tokens, one per keyword, joiner, parenthesis   *)
(* or condition; names and values are left out, and so is white space.  A   *)
(* token of Binding carries the placeholder of one bound value.  The guards *)
(* that are alive form a stack, as C++ scopes do, and the client may write  *)
(* through any of them.                                                     *)
(****************************************************************************)
EXTENDS Naturals, Sequences, FiniteSets

CONSTANTS
    Surfaces,   \* subset of {"guards", "fluent"}: which of them begins the statement
    MaxCalls,   \* bound on the calls that write
    MaxNesting  \* bound on the guards alive at once

ASSUME DslAssumption ==
    /\ Surfaces \subseteq {"guards", "fluent"}
    /\ MaxCalls \in Nat
    /\ MaxNesting \in Nat

VARIABLES
    surface,     \* the one in use
    \* arena
    buf,         \* buf_
    bound,       \* next_var_, the values in vars_
    depth,       \* depth_
    failed,      \* failed_
    \* the objects writing to it
    guards,      \* live where_guards and group_guards, the innermost last
    selectOpen,  \* the select_guard is alive
    writer,      \* select_writer
    whereDone,   \* select_query::where_written_
    built,       \* what build() returned: "none" yet, "ok" or "error"
    \* history
    calls,       \* calls that wrote
    misplaced,   \* a checked write was made through a guard with another open inside
    badName,     \* an invalid identifier was written
    liberties    \* what the client did that no check looks for

arenaVars == <<buf, bound, depth, failed>>
history == <<misplaced, badName, liberties>>
vars == <<surface, arenaVars, guards, selectOpen, writer, whereDone, built, calls, history>>

Clauses == {"ORDER BY", "LIMIT", "START", "FETCH"}
Joiners == {"AND", "OR"}
Conditions == {"cond", "raw"}
Binding == {"cond", "LIMIT", "START"}

\* query::select() and dsl::select(): SELECT is written by the writer, which a
\* select_guard, when there is one, has registered for.
Init ==
    /\ surface \in Surfaces
    /\ buf = <<"SELECT">> /\ bound = 0 /\ failed = FALSE
    /\ depth = IF surface = "guards" THEN 1 ELSE 0
    /\ guards = <<>>
    /\ selectOpen = (surface = "guards")
    /\ \E bad \in BOOLEAN :
         writer = [depth |-> depth, badTarget |-> bad, anyField |-> FALSE,
                   from |-> FALSE, ordered |-> FALSE, fetched |-> FALSE]
    /\ whereDone = FALSE /\ built = "none" /\ calls = 0
    /\ misplaced = FALSE /\ badName = FALSE /\ liberties = {}

-----------------------------------------------------------------------------
\* Helpers of every surface.

Building ==
    /\ built = "none"
    /\ calls < MaxCalls
    /\ calls' = calls + 1
    /\ UNCHANGED <<surface, selectOpen, built>>

\* can_write(): nothing is open inside the object, which recorded depth d.
CanWrite(d) == ~failed /\ depth = d

\* Mutant of Latch: a refused write is dropped in silence.
LatchOnlyNames(d, outer, bad) ==
    /\ failed' = (failed \/ bad)
    /\ misplaced' = (misplaced \/ outer)
    /\ badName' = (badName \/ bad)

\* What a call latches: a write through an outer object, or a bad identifier.
Latch(d, outer, bad) ==
    /\ failed' = (failed \/ depth # d \/ bad)
    /\ misplaced' = (misplaced \/ outer)
    /\ badName' = (badName \/ bad)

Took(conditions) ==
    liberties' = liberties \cup {l \in DOMAIN conditions : conditions[l]}

Written(token) == \E i \in 1..Len(buf) : buf[i] = token
WrittenAny(tokens) == \E t \in tokens : Written(t)

\* finish_fields(): the projection is closed once, by the first clause, with the
\* target, whose name is checked then.
FromClause ==
    IF writer.from THEN <<>>
    ELSE IF writer.anyField THEN <<"FROM">> ELSE <<"*", "FROM">>

FromFails == writer.badTarget /\ ~writer.from

LatchFrom ==
    /\ failed' = (failed \/ FromFails)
    /\ badName' = (badName \/ FromFails)

\* What a clause finds after finish_fields().
CanWriteClause == CanWrite(writer.depth) /\ ~FromFails

-----------------------------------------------------------------------------
\* select_writer: the clauses, for both surfaces.

\* field()
Field(bad) ==
    /\ Building
    /\ surface = "guards" => selectOpen
    /\ Latch(writer.depth, guards # <<>>, bad /\ CanWrite(writer.depth))
    /\ IF CanWrite(writer.depth)
       THEN /\ buf' = Append(buf, IF writer.anyField THEN ", field" ELSE "field")
            /\ writer' = [writer EXCEPT !.anyField = TRUE]
       ELSE UNCHANGED <<buf, writer>>
    /\ Took([out_of_order |-> writer.from])
    /\ UNCHANGED <<bound, depth, guards, whereDone>>

\* The clauses the grammar puts after c.
Later(c) ==
    CASE c = "WHERE"    -> {"ORDER BY", "LIMIT", "START", "FETCH"}
      [] c = "ORDER BY" -> {"LIMIT", "START", "FETCH"}
      [] c = "LIMIT"    -> {"START", "FETCH"}
      [] c = "START"    -> {"FETCH"}
      [] c = "FETCH"    -> {}

\* What a clause writes: order_by() and fetch() go on with a list.
ClauseText(c) ==
    CASE c = "ORDER BY" /\ writer.ordered -> ", order"
      [] c = "FETCH" /\ writer.fetched -> ", fetch"
      [] OTHER -> c

\* order_by(), limit(), start(), fetch()
Clause(c, bad) ==
    /\ Building
    /\ surface = "guards" => selectOpen
    /\ bad => c \in {"ORDER BY", "FETCH"}
    /\ Latch(writer.depth, guards # <<>>, FromFails \/ (bad /\ CanWriteClause))
    /\ IF CanWriteClause
       THEN /\ buf' = buf \o FromClause \o <<ClauseText(c)>>
            /\ bound' = IF c \in Binding THEN bound + 1 ELSE bound
            /\ writer' = [writer EXCEPT !.from = TRUE,
                                        !.ordered = @ \/ c = "ORDER BY",
                                        !.fetched = @ \/ c = "FETCH"]
       ELSE /\ buf' = buf \o FromClause
            /\ writer' = [writer EXCEPT !.from = TRUE]
            /\ UNCHANGED bound
    /\ Took([out_of_order |-> WrittenAny(Later(c)) \/ (c \in Binding /\ Written(c))])
    /\ UNCHANGED <<depth, guards, whereDone>>

-----------------------------------------------------------------------------
\* where_guard and group_guard.

Push(g) ==
    /\ depth' = depth + 1
    /\ guards' = Append(guards, g)

\* select_guard::where() and select_query::where_dynamic(): no check is made of
\* what is open or was written before.
OpenWhere ==
    /\ Building
    /\ surface = "guards" => selectOpen
    /\ Len(guards) < MaxNesting
    /\ buf' = buf \o FromClause \o <<"WHERE">>
    /\ writer' = [writer EXCEPT !.from = TRUE]
    /\ Push([kind |-> "where", joiner |-> "AND", depth |-> depth + 1, first |-> TRUE,
             open |-> Len(buf \o FromClause) + 1])
    /\ Took([out_of_order |-> WrittenAny(Later("WHERE")),
             second_where |-> Written("WHERE"),
             nested_where |-> guards # <<>>])
    /\ LatchFrom
    /\ UNCHANGED <<bound, misplaced, whereDone>>

\* join(): the joiner is written from the second condition on.
Join(i) ==
    IF CanWrite(guards[i].depth) /\ ~guards[i].first
    THEN <<guards[i].joiner>> ELSE <<>>

Joined(i) ==
    IF CanWrite(guards[i].depth) THEN [guards EXCEPT ![i].first = FALSE] ELSE guards

\* compare() and raw(): join() may refuse, and the condition is written anyway
\* into a statement that will not be built.
Condition(i, token, bad) ==
    /\ Building
    /\ bad => token = "cond"
    /\ Latch(guards[i].depth, i # Len(guards), bad)
    /\ buf' = buf \o Join(i) \o <<token>>
    /\ bound' = IF token \in Binding THEN bound + 1 ELSE bound
    /\ guards' = Joined(i)
    /\ UNCHANGED <<depth, writer, whereDone, liberties>>

\* all_of() and any_of(): the joiner of this guard, then the group.
OpenGroup(i, joiner) ==
    /\ Building
    /\ Len(guards) < MaxNesting
    /\ Latch(guards[i].depth, i # Len(guards), FALSE)
    /\ buf' = buf \o Join(i) \o <<"(">>
    /\ depth' = depth + 1
    /\ guards' = Append(Joined(i),
                        [kind |-> "group", joiner |-> joiner, depth |-> depth + 1,
                         first |-> TRUE, open |-> Len(buf \o Join(i)) + 1])
    /\ UNCHANGED <<bound, writer, whereDone, liberties>>

\* Mutants of Closing: a clause is thrown away with its conditions, a
\* group is not closed, and one token too many is rewound.
ClosingRewindsAll(g) == SubSeq(buf, 1, g.open - 1)
ClosingForgets(g) == IF Len(buf) > g.open THEN buf ELSE SubSeq(buf, 1, g.open - 1)

ClosingOneTooMany(g) ==
    IF Len(buf) > g.open
    THEN IF g.kind = "group" THEN Append(buf, ")") ELSE buf
    ELSE SubSeq(buf, 1, g.open - 2)

\* The text a guard leaves: rewound to before its keyword or parenthesis when
\* nothing was written since.
Closing(g) ==
    IF Len(buf) > g.open
    THEN IF g.kind = "group" THEN Append(buf, ")") ELSE buf
    ELSE SubSeq(buf, 1, g.open - 1)

\* Mutant of CloseGuard: the guard stays registered.
CloseGuardRegistered ==
    LET g == guards[Len(guards)] IN
    /\ built = "none"
    /\ guards # <<>>
    /\ buf' = Closing(g)
    /\ guards' = SubSeq(guards, 1, Len(guards) - 1)
    /\ Took([empty_group |-> g.kind = "group" /\ Len(buf) <= g.open])
    /\ UNCHANGED <<surface, bound, depth, failed, selectOpen, writer, whereDone, built,
                   calls, misplaced, badName>>

\* ~where_guard and ~group_guard, the innermost first.
CloseGuard ==
    LET g == guards[Len(guards)] IN
    /\ built = "none"
    /\ guards # <<>>
    /\ buf' = Closing(g)
    /\ depth' = IF depth > 0 THEN depth - 1 ELSE 0
    /\ guards' = SubSeq(guards, 1, Len(guards) - 1)
    /\ Took([empty_group |-> g.kind = "group" /\ Len(buf) <= g.open])
    /\ UNCHANGED <<surface, bound, failed, selectOpen, writer, whereDone, built, calls,
                   misplaced, badName>>

-----------------------------------------------------------------------------
\* The statement.

\* ~select_guard: terminate().
CloseSelect ==
    /\ built = "none"
    /\ selectOpen /\ guards = <<>>
    /\ selectOpen' = FALSE
    /\ buf' = buf \o FromClause \o <<";">>
    /\ LatchFrom
    /\ writer' = [writer EXCEPT !.from = TRUE]
    /\ depth' = IF depth > 0 THEN depth - 1 ELSE 0
    /\ UNCHANGED <<surface, bound, guards, whereDone, built, calls, misplaced, liberties>>

\* What an expression of expr.hpp renders to: a comparison, a raw fragment or a
\* parenthesised junction.
Expressions ==
    {<<"cond">>, <<"raw">>} \cup {<<"(", "cond", j, "raw", ")">> : j \in Joiners}

BoundBy(e) == Cardinality({i \in 1..Len(e) : e[i] \in Binding})

\* Mutant of FluentWhere: every where() writes its keyword.
FluentWhereTwice(e, bad) ==
    /\ Building
    /\ surface = "fluent"
    /\ Latch(writer.depth, guards # <<>>, FromFails \/ (bad /\ CanWriteClause))
    /\ buf' = buf \o FromClause \o (IF CanWriteClause THEN <<"WHERE">> \o e ELSE <<>>)
    /\ bound' = IF CanWriteClause THEN bound + BoundBy(e) ELSE bound
    /\ whereDone' = (whereDone \/ CanWriteClause)
    /\ writer' = [writer EXCEPT !.from = TRUE]
    /\ Took([out_of_order |-> WrittenAny(Later("WHERE")),
             second_where |-> ~whereDone /\ Written("WHERE")])
    /\ UNCHANGED <<depth, guards>>

\* select_query::where()
FluentWhere(e, bad) ==
    /\ Building
    /\ surface = "fluent"
    /\ bad => BoundBy(e) > 0
    /\ Latch(writer.depth, guards # <<>>, FromFails \/ (bad /\ CanWriteClause))
    /\ IF CanWriteClause
       THEN /\ buf' = buf \o FromClause \o <<IF whereDone THEN "AND" ELSE "WHERE">> \o e
            /\ bound' = bound + BoundBy(e)
            /\ whereDone' = TRUE
       ELSE /\ buf' = buf \o FromClause
            /\ UNCHANGED <<bound, whereDone>>
    /\ writer' = [writer EXCEPT !.from = TRUE]
    /\ Took([out_of_order |-> WrittenAny(Later("WHERE")),
             second_where |-> ~whereDone /\ Written("WHERE")])
    /\ UNCHANGED <<depth, guards>>

\* query::build() and select_query::build(), once.  Neither looks at the depth.
Build ==
    /\ built = "none"
    /\ IF surface = "fluent"
       THEN /\ LatchFrom
            /\ buf' = buf \o FromClause \o <<";">>
            /\ writer' = [writer EXCEPT !.from = TRUE]
       ELSE UNCHANGED <<buf, failed, badName, writer>>
    /\ built' = IF failed' THEN "error" ELSE "ok"
    /\ Took([early_build |-> selectOpen \/ guards # <<>>])
    /\ UNCHANGED <<surface, bound, depth, guards, selectOpen, whereDone, calls, misplaced>>

Next ==
    \/ \E bad \in BOOLEAN : Field(bad)
    \/ \E c \in Clauses, bad \in BOOLEAN : Clause(c, bad)
    \/ OpenWhere
    \/ \E i \in DOMAIN guards, t \in Conditions, bad \in BOOLEAN : Condition(i, t, bad)
    \/ \E i \in DOMAIN guards, j \in Joiners : OpenGroup(i, j)
    \/ CloseGuard \/ CloseSelect
    \/ \E e \in Expressions, bad \in BOOLEAN : FluentWhere(e, bad)
    \/ Build

Spec == Init /\ [][Next]_vars

-----------------------------------------------------------------------------
\* The grammar of a statement, as the tests show it.

Tokens ==
    {"SELECT", "*", "field", ", field", "FROM", "WHERE", "(", ")", ";", ", order",
     ", fetch"} \cup Conditions \cup Joiners \cup Clauses

Operand == Conditions \cup {"("}
After(c) == Later(c) \cup {";"}

Follows ==
    [t \in Tokens |->
        CASE t = "SELECT" -> {"*", "field"}
          [] t = "*" -> {"FROM"}
          [] t \in {"field", ", field"} -> {", field", "FROM"}
          [] t = "FROM" -> {"WHERE"} \cup After("WHERE")
          [] t \in Joiners \cup {"WHERE", "("} -> Operand
          [] t \in Conditions \cup {")"} -> Joiners \cup {")"} \cup After("WHERE")
          [] t \in {"ORDER BY", ", order"} -> {", order"} \cup After("ORDER BY")
          [] t \in {"FETCH", ", fetch"} -> {", fetch", ";"}
          [] t \in {"LIMIT", "START"} -> After(t)
          [] t = ";" -> {}]

Count(t, i) == Cardinality({k \in 1..i : buf[k] = t})
Nesting(i) == Count("(", i) - Count(")", i)

Parenthesised ==
    /\ \A i \in DOMAIN buf : Count("(", i) >= Count(")", i)
    /\ Nesting(Len(buf)) = 0

\* Conditions side by side are joined in one way, at the top by AND.
JoinersAgree ==
    \A i, j \in DOMAIN buf :
        /\ i <= j
        /\ buf[i] \in Joiners /\ buf[j] \in Joiners
        /\ \A k \in i..j : Nesting(k) >= Nesting(i)
        /\ Nesting(j) = Nesting(i)
        => buf[i] = buf[j] /\ (Nesting(i) = 0 => buf[i] = "AND")

Statement ==
    /\ buf[1] = "SELECT" /\ buf[Len(buf)] = ";"
    /\ \A i \in 1..(Len(buf) - 1) : buf[i + 1] \in Follows[buf[i]]
    /\ \A i \in DOMAIN buf : buf[i] \in Clauses \cup {";"} => Nesting(i) = 0
    /\ Parenthesised
    /\ JoinersAgree

-----------------------------------------------------------------------------
Guard == [kind : {"where", "group"}, joiner : Joiners, depth : Nat, first : BOOLEAN,
          open : Nat]

\* The type of every variable; the arena never counts more guards than may be
\* alive.
TypeOK ==
    /\ surface \in Surfaces
    /\ buf \in Seq(Tokens)
    /\ bound \in Nat
    /\ depth \in 0..(MaxNesting + 1)
    /\ failed \in BOOLEAN
    /\ guards \in Seq(Guard) /\ Len(guards) <= MaxNesting
    /\ selectOpen \in BOOLEAN
    /\ writer \in [depth : 0..1, badTarget : BOOLEAN, anyField : BOOLEAN, from : BOOLEAN,
                   ordered : BOOLEAN, fetched : BOOLEAN]
    /\ whereDone \in BOOLEAN
    /\ built \in {"none", "ok", "error"}
    /\ calls \in 0..MaxCalls
    /\ misplaced \in BOOLEAN /\ badName \in BOOLEAN
    /\ liberties \subseteq {"out_of_order", "second_where", "nested_where", "empty_group",
                            "early_build"}

\* What build() hands out is a statement, whatever conditions, groups and
\* clauses were written or left empty, in a client that keeps to one WHERE, to
\* the order of the clauses and to the scopes (guards.hpp:20-25).
WellFormed == built = "ok" /\ liberties = {} => Statement

\* Every parenthesis is closed in a statement built after its scopes, also by a
\* client that takes other liberties (guards.hpp:20).
Balanced == built = "ok" /\ "early_build" \notin liberties => Parenthesised

\* The statement is refused exactly when a write was made through an object
\* with another one open inside, or a name was not an identifier: no misplaced
\* write is let through and no guard is refused for its own presence
\* (guards.hpp:45-58, arena.hpp:198-205).
FailureIsDeserved == failed <=> misplaced \/ badName

\* Every bound value has its placeholder in the text and the text no other:
\* what a closing clause rewinds never held a value (arena.hpp:76-94).
EveryValueHasItsPlaceholder ==
    bound = Cardinality({i \in DOMAIN buf : buf[i] \in Binding})

\* The offset every live guard recorded is still the one of its own keyword or
\* parenthesis: closing an inner guard rewinds nothing of the guards around it,
\* and an outer clause is never mistaken for an empty one (arena.hpp:71-81).
MarksAreTrue ==
    \A i \in DOMAIN guards :
        /\ guards[i].open <= Len(buf)
        /\ buf[guards[i].open] = IF guards[i].kind = "where" THEN "WHERE" ELSE "("
        /\ i > 1 => guards[i - 1].open < guards[i].open

\* "So the mistake surfaces when the query is built rather than as a malformed
\* statement", for a client that leaves groups empty (guards.hpp:24, 75-77).
EmptyGroupIsDropped ==
    built = "ok" /\ liberties \subseteq {"empty_group"} => Statement
=============================================================================
