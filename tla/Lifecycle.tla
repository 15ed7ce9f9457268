------------------------------ MODULE Lifecycle ------------------------------
(****************************************************************************)
(* The lifetimes of connection, stream and transaction objects              *)
(* (connection.hpp, stream.hpp, detail/owned.hpp) over the C handles they   *)
(* own.                                                                     *)
(*                                                                          *)
(* The C library keeps a table of handles.  An engine's runtime is          *)
(* reference counted by the session handles (sr_surreal_t) opened on it and *)
(* shuts down with the last one.  A live query reader (sr_stream_t) and a   *)
(* transaction (sr_transaction_t) run on that runtime without keeping it    *)
(* up, so the C++ side guards them with a token: every connection object of *)
(* an engine shares the token, streams and transactions observe it through  *)
(* a weak pointer, and an expired token means "do not call".  A second      *)
(* shared cell records that some call reported SR_FATAL.                    *)
(*                                                                          *)
(* A token and a poison cell are created together by connect(), once per    *)
(* engine, so both are named by the engine they were created for.           *)
(****************************************************************************)
EXTENDS Naturals

CONSTANTS
    Engines,         \* engines connect() may start; each is started once
    SessionHandles,  \* sr_surreal_t handles the C library may allocate
    StreamHandles,   \* sr_stream_t handles
    TxHandles,       \* sr_transaction_t handles
    Conns,           \* C++ variables of type connection
    Streams,         \* C++ variables of type stream
    Txs,             \* C++ variables of type transaction
    Null,            \* the null pointer
    \* What the client program allows itself:
    MayDisconnect,   \* calls connection::disconnect() on an object it keeps
    MayAssignOver    \* move-assigns onto a stream that still owns a reader

Handles == SessionHandles \cup StreamHandles \cup TxHandles

ASSUME LifecycleAssumption ==
    /\ SessionHandles \cap StreamHandles = {}
    /\ SessionHandles \cap TxHandles = {}
    /\ StreamHandles \cap TxHandles = {}
    /\ Null \notin Handles
    /\ Null \notin Engines
    /\ MayDisconnect \in BOOLEAN
    /\ MayAssignOver \in BOOLEAN

VARIABLES
    orderly,    \* the client keeps a connection until its streams and
                \* transactions are gone, the order stream.hpp asks for
    careful,    \* the client neither disconnects an object it keeps nor
                \* assigns over a stream that owns a reader
    hstate,     \* C: what became of each handle
    heng,       \* C: the engine each handle was opened on
    conn,       \* the connection objects
    strm,       \* the stream objects
    tx,         \* the transaction objects
    flag,       \* the shared poison cells
    fatal,      \* history: engines that reported SR_FATAL to a caller
    deadCalls   \* history: calls issued against a runtime already shut down

vars == <<orderly, careful, hstate, heng, conn, strm, tx, flag, fatal, deadCalls>>

-----------------------------------------------------------------------------
\* The C library.

\* The reference count of the runtime: it is up while a session handle is open.
RuntimeUp(e) ==
    \E h \in SessionHandles : hstate[h] = "open" /\ heng[h] = e

Allocate(h, e) ==
    /\ hstate[h] = "unused"
    /\ hstate' = [hstate EXCEPT ![h] = "open"]
    /\ heng' = [heng EXCEPT ![h] = e]

\* The destructor, or the consuming call, of the handle's kind.
Release(h) == hstate' = [hstate EXCEPT ![h] = "freed"]

\* Reaching the C library through a reader or a transaction of a dead engine.
Calling(op, h) ==
    deadCalls' = IF RuntimeUp(heng[h]) THEN deadCalls ELSE deadCalls \cup {op}

\* How a call on engine e ends.  On SR_FATAL the calling object stores the fact
\* in the poison cell it shares -- if it has one.
Outcomes == {"ok", "fatal"}

Report(r, cell, e) ==
    IF r = "ok"
    THEN UNCHANGED <<flag, fatal>>
    ELSE /\ fatal' = fatal \cup {e}
         /\ flag' = IF cell = Null THEN flag ELSE [flag EXCEPT ![cell] = TRUE]

-----------------------------------------------------------------------------
\* Objects.

\* A default constructed, moved-from or destroyed connection.  (A default
\* constructed one has a token and a cell of its own which nothing can share.)
NoConn == [db |-> Null, alive |-> Null, poisoned |-> Null]

\* Mutant of NoStream: done_ without an initialiser.
NoStreamUninitialised == [h |-> Null, alive |-> Null, poisoned |-> Null, done |-> Null]

\* A stream without a reader; done_ survives a move out of the object.
NoStream == [h |-> Null, alive |-> Null, poisoned |-> Null, done |-> FALSE]

NoTx == [h |-> Null, alive |-> Null, poisoned |-> Null]

\* std::weak_ptr::expired(): no connection object holds the token any more.
Expired(token) == \A c \in Conns : token = Null \/ conn[c].alive # token

\* connection::poisoned()
Poisoned(c) == conn[c].poisoned # Null /\ flag[conn[c].poisoned]

\* The client still has a stream or a transaction of engine e.
Borrowed(e) ==
    \/ \E s \in Streams : strm[s].h # Null /\ heng[strm[s].h] = e
    \/ \E t \in Txs : tx[t].h # Null /\ heng[tx[t].h] = e

\* An orderly client lets the last handle of an engine go only when nothing
\* borrows the engine.
MayDrop(h) ==
    orderly /\ h # Null =>
        \/ ~Borrowed(heng[h])
        \/ \E g \in SessionHandles \ {h} : hstate[g] = "open" /\ heng[g] = heng[h]

Init ==
    /\ orderly \in BOOLEAN
    /\ careful \in BOOLEAN
    /\ hstate = [h \in Handles |-> "unused"]
    /\ heng = [h \in Handles |-> Null]
    /\ conn = [c \in Conns |-> NoConn]
    /\ strm = [s \in Streams |-> NoStream]
    /\ tx = [t \in Txs |-> NoTx]
    /\ flag = [e \in Engines |-> FALSE]
    /\ fatal = {}
    /\ deadCalls = {}

-----------------------------------------------------------------------------
\* connection

\* connection::connect() into an empty variable: a new engine, a new token.
Connect(c, h, e) ==
    /\ conn[c] = NoConn
    /\ \A g \in Handles : heng[g] # e
    /\ Allocate(h, e)
    /\ conn' = [conn EXCEPT ![c] = [db |-> h, alive |-> e, poisoned |-> e]]
    /\ UNCHANGED <<strm, tx, flag, fatal, deadCalls>>

\* Mutant of Fork: a token per handle.
ForkOwnToken(c, d, h) ==
    /\ conn[c].db # Null
    /\ conn[d] = NoConn
    /\ Allocate(h, heng[conn[c].db])
    /\ conn' = [conn EXCEPT ![d] = [db |-> h, alive |-> Null, poisoned |-> conn[c].poisoned]]
    /\ UNCHANGED <<strm, tx, flag, fatal, deadCalls>>

\* fork_session() and new_session(): another session of the same engine, which
\* shares the parent's token and poison cell.
Fork(c, d, h) ==
    /\ conn[c].db # Null
    /\ conn[d] = NoConn
    /\ Allocate(h, heng[conn[c].db])
    /\ conn' = [conn EXCEPT ![d] = [db |-> h, alive |-> conn[c].alive,
                                    poisoned |-> conn[c].poisoned]]
    /\ UNCHANGED <<strm, tx, flag, fatal, deadCalls>>

\* Any call on the handle that reports SR_FATAL; track() latches the cell.
ConnCallFatal(c) ==
    /\ conn[c].db # Null
    /\ Report("fatal", conn[c].poisoned, heng[conn[c].db])
    /\ UNCHANGED <<hstate, heng, conn, strm, tx, deadCalls>>

\* disconnect() resets db_ and nothing else: the object keeps its token.
Disconnect(c) ==
    /\ MayDisconnect /\ ~careful
    /\ conn[c].db # Null
    /\ MayDrop(conn[c].db)
    /\ Release(conn[c].db)
    /\ conn' = [conn EXCEPT ![c].db = Null]
    /\ UNCHANGED <<heng, strm, tx, flag, fatal, deadCalls>>

\* The destructor: the members go in reverse order, the token before the handle.
DestroyConn(c) ==
    /\ conn[c] # NoConn
    /\ MayDrop(conn[c].db)
    /\ IF conn[c].db # Null THEN Release(conn[c].db) ELSE UNCHANGED hstate
    /\ conn' = [conn EXCEPT ![c] = NoConn]
    /\ UNCHANGED <<heng, strm, tx, flag, fatal, deadCalls>>

\* d = std::move(c), memberwise; also the move constructor when d is empty.
MoveConn(c, d) ==
    /\ c # d
    /\ conn[c] # NoConn
    /\ MayDrop(conn[d].db)
    /\ IF conn[d].db # Null THEN Release(conn[d].db) ELSE UNCHANGED hstate
    /\ conn' = [conn EXCEPT ![d] = conn[c], ![c] = NoConn]
    /\ UNCHANGED <<heng, strm, tx, flag, fatal, deadCalls>>

-----------------------------------------------------------------------------
\* stream

\* connection::live()
Live(c, s, h) ==
    /\ conn[c].db # Null
    /\ strm[s] = NoStream
    /\ Allocate(h, heng[conn[c].db])
    /\ strm' = [strm EXCEPT ![s] = [h |-> h, alive |-> conn[c].alive,
                                    poisoned |-> conn[c].poisoned, done |-> FALSE]]
    /\ UNCHANGED <<conn, tx, flag, fatal, deadCalls>>

\* next(), next_for() and try_next() answer from done_ or a null reader without
\* a call and otherwise call the C library, whatever the token says.
CanRead(s) == ~strm[s].done /\ strm[s].h # Null

\* A notification, or nothing yet.
ReadEvent(s) ==
    /\ CanRead(s)
    /\ Calling("read", strm[s].h)
    /\ UNCHANGED <<hstate, heng, conn, strm, tx, flag, fatal>>

\* Mutant of ReadEnd: a fatal read is seen and dropped.
ReadEndUnlatched(s, r) ==
    /\ CanRead(s)
    /\ Calling("read", strm[s].h)
    /\ Report(r, Null, heng[strm[s].h])
    /\ strm' = [strm EXCEPT ![s].done = TRUE]
    /\ UNCHANGED <<hstate, heng, conn, tx>>

\* SR_CLOSED, or an error: whatever ends the stream.
ReadEnd(s, r) ==
    /\ CanRead(s)
    /\ Calling("read", strm[s].h)
    /\ Report(r, strm[s].poisoned, heng[strm[s].h])
    /\ strm' = [strm EXCEPT ![s].done = TRUE]
    /\ UNCHANGED <<hstate, heng, conn, tx>>

\* Mutants of Retire: killed without a look at the token, and never killed.
RetireUnguarded(s) ==
    IF strm[s].h = Null
    THEN UNCHANGED <<hstate, deadCalls>>
    ELSE Release(strm[s].h) /\ Calling("kill", strm[s].h)

RetireLeaks(s) == UNCHANGED <<hstate, deadCalls>>

\* The reader leaves its object: killed while the token lives, else abandoned.
Retire(s) ==
    IF strm[s].h = Null \/ Expired(strm[s].alive)
    THEN UNCHANGED <<hstate, deadCalls>>
    ELSE Release(strm[s].h) /\ Calling("kill", strm[s].h)

\* close()
CloseStream(s) ==
    /\ strm[s] # NoStream
    /\ Retire(s)
    /\ strm' = [strm EXCEPT ![s].h = Null, ![s].done = TRUE]
    /\ UNCHANGED <<heng, conn, tx, flag, fatal>>

\* The destructor makes the same choice.
DestroyStream(s) ==
    /\ strm[s] # NoStream
    /\ Retire(s)
    /\ strm' = [strm EXCEPT ![s] = NoStream]
    /\ UNCHANGED <<heng, conn, tx, flag, fatal>>

\* d = std::move(s), memberwise: owned<>::operator= destroys d's reader, if it
\* has one, without looking at d's token.
MoveStream(s, d) ==
    /\ s # d
    /\ strm[s] # NoStream
    /\ strm[d].h # Null => MayAssignOver /\ ~careful
    /\ IF strm[d].h # Null
       THEN Release(strm[d].h) /\ Calling("kill", strm[d].h)
       ELSE UNCHANGED <<hstate, deadCalls>>
    /\ strm' = [strm EXCEPT ![d] = strm[s],
                            ![s] = [NoStream EXCEPT !.done = strm[s].done]]
    /\ UNCHANGED <<heng, conn, tx, flag, fatal>>

-----------------------------------------------------------------------------
\* transaction

\* connection::begin()
Begin(c, t, h) ==
    /\ conn[c].db # Null
    /\ tx[t] = NoTx
    /\ Allocate(h, heng[conn[c].db])
    /\ tx' = [tx EXCEPT ![t] = [h |-> h, alive |-> conn[c].alive,
                                poisoned |-> conn[c].poisoned]]
    /\ UNCHANGED <<conn, strm, flag, fatal, deadCalls>>

\* query() reaches the C library only while the token lives.
TxQuery(t, r) ==
    /\ tx[t].h # Null
    /\ ~Expired(tx[t].alive)
    /\ Calling("tx", tx[t].h)
    /\ Report(r, tx[t].poisoned, heng[tx[t].h])
    /\ UNCHANGED <<hstate, heng, conn, strm, tx>>

\* Mutant of Finish: no look at the token.
FinishUnguarded(t, r) ==
    /\ Release(tx[t].h)
    /\ Calling("tx", tx[t].h)
    /\ Report(r, tx[t].poisoned, heng[tx[t].h])

\* finish() for a handle the object has already forgotten: sr_commit and
\* sr_cancel consume it whether or not they succeed, and with the token expired
\* it is abandoned.
Finish(t, r) ==
    IF Expired(tx[t].alive)
    THEN UNCHANGED <<hstate, deadCalls, flag, fatal>>
    ELSE /\ Release(tx[t].h)
         /\ Calling("tx", tx[t].h)
         /\ Report(r, tx[t].poisoned, heng[tx[t].h])

\* Mutant of TxFinish: a transaction whose commit failed is kept for a retry.
TxFinishKeeps(t, r) ==
    /\ tx[t].h # Null
    /\ Finish(t, r)
    /\ tx' = IF r = "ok" THEN [tx EXCEPT ![t].h = Null] ELSE tx
    /\ UNCHANGED <<heng, conn, strm>>

\* commit() or cancel()
TxFinish(t, r) ==
    /\ tx[t].h # Null
    /\ Finish(t, r)
    /\ tx' = [tx EXCEPT ![t].h = Null]
    /\ UNCHANGED <<heng, conn, strm>>

\* The destructor cancels a transaction that is still open.
DestroyTx(t, r) ==
    /\ tx[t] # NoTx
    /\ IF tx[t].h # Null
       THEN Finish(t, r)
       ELSE UNCHANGED <<hstate, deadCalls, flag, fatal>>
    /\ tx' = [tx EXCEPT ![t] = NoTx]
    /\ UNCHANGED <<heng, conn, strm>>

\* The move constructor; move assignment is deleted.
MoveTx(t, u) ==
    /\ tx[t] # NoTx
    /\ tx[u] = NoTx
    /\ tx' = [tx EXCEPT ![u] = tx[t], ![t] = NoTx]
    /\ UNCHANGED <<hstate, heng, conn, strm, flag, fatal, deadCalls>>

-----------------------------------------------------------------------------
ConnNext ==
    \/ \E c \in Conns, h \in SessionHandles, e \in Engines : Connect(c, h, e)
    \/ \E c, d \in Conns, h \in SessionHandles : Fork(c, d, h)
    \/ \E c \in Conns : ConnCallFatal(c) \/ Disconnect(c) \/ DestroyConn(c)
    \/ \E c, d \in Conns : MoveConn(c, d)

StreamNext ==
    \/ \E c \in Conns, s \in Streams, h \in StreamHandles : Live(c, s, h)
    \/ \E s \in Streams, r \in Outcomes : ReadEnd(s, r)
    \/ \E s \in Streams : ReadEvent(s) \/ CloseStream(s) \/ DestroyStream(s)
    \/ \E s, d \in Streams : MoveStream(s, d)

TxNext ==
    \/ \E c \in Conns, t \in Txs, h \in TxHandles : Begin(c, t, h)
    \/ \E t \in Txs, r \in Outcomes :
           TxQuery(t, r) \/ TxFinish(t, r) \/ DestroyTx(t, r)
    \/ \E t, u \in Txs : MoveTx(t, u)

Next == (ConnNext \/ StreamNext \/ TxNext) /\ UNCHANGED <<orderly, careful>>

Spec == Init /\ [][Next]_vars

-----------------------------------------------------------------------------
\* Properties that hold whatever the client does.

States == {"unused", "open", "freed"}
Calls == {"read", "kill", "tx"}

ConnObjects ==
    [db : SessionHandles \cup {Null}, alive : Engines \cup {Null},
     poisoned : Engines \cup {Null}]
StreamObjects ==
    [h : StreamHandles \cup {Null}, alive : Engines \cup {Null},
     poisoned : Engines \cup {Null}, done : BOOLEAN]
TxObjects ==
    [h : TxHandles \cup {Null}, alive : Engines \cup {Null},
     poisoned : Engines \cup {Null}]

\* The type of every variable.
TypeOK ==
    /\ orderly \in BOOLEAN
    /\ careful \in BOOLEAN
    /\ hstate \in [Handles -> States]
    /\ heng \in [Handles -> Engines \cup {Null}]
    /\ conn \in [Conns -> ConnObjects]
    /\ strm \in [Streams -> StreamObjects]
    /\ tx \in [Txs -> TxObjects]
    /\ flag \in [Engines -> BOOLEAN]
    /\ fatal \subseteq Engines
    /\ deadCalls \subseteq Calls

\* Every pointer held by a C++ object is to an open handle which no other
\* object holds: through moves, assignments, early closes and consuming calls
\* no handle is ever freed twice, used after it was freed, or freed by two
\* owners (owned<> and the hand-written members of transaction).
SoleOwner ==
    /\ \A c \in Conns : conn[c].db # Null =>
          /\ hstate[conn[c].db] = "open"
          /\ \A d \in Conns \ {c} : conn[d].db # conn[c].db
    /\ \A s \in Streams : strm[s].h # Null =>
          /\ hstate[strm[s].h] = "open"
          /\ \A d \in Streams \ {s} : strm[d].h # strm[s].h
    /\ \A t \in Txs : tx[t].h # Null =>
          /\ hstate[tx[t].h] = "open"
          /\ \A u \in Txs \ {t} : tx[u].h # tx[t].h

\* The guard never refuses without need: while any session keeps an engine up
\* its token is alive, so a stream or a transaction opened on a session that
\* has gone is still usable through its siblings (the token is shared by all
\* forks, connection.hpp:332-353).
GuardComplete == \A e \in Engines : RuntimeUp(e) => ~Expired(e)

Owner(h) ==
    \/ \E c \in Conns : conn[c].db = h
    \/ \E s \in Streams : strm[s].h = h
    \/ \E t \in Txs : tx[t].h = h

Abandoned(h) == hstate[h] = "open" /\ ~Owner(h)

\* No session handle is ever lost, so engines do shut down; a reader or a
\* transaction is left behind only when the engine it ran on has shut down
\* (the trade the destructors of stream and transaction make).
AbandonedOnlyWhenDead ==
    \A h \in Handles : Abandoned(h) => h \notin SessionHandles /\ ~RuntimeUp(heng[h])

\* A connection reports poisoned() exactly when some call on its engine has
\* reported SR_FATAL -- through whichever session, stream or transaction, and
\* whether it happened before or after this session was forked.
FatalIsShared ==
    \A c \in Conns : conn[c].db # Null => (Poisoned(c) <=> heng[conn[c].db] \in fatal)

-----------------------------------------------------------------------------
\* Properties that depend on what the client does.

\* stream never kills a reader on a runtime that has shut down (close(), the
\* destructor and move assignment; stream.hpp:44-50).
NoKillOnDeadRuntime == "kill" \notin deadCalls

\* For a careful client the token is guard enough in every order of destruction:
\* neither a stream's kill (close(), the destructor, move assignment) nor a
\* transaction's statement, commit or cancel reaches a runtime that has shut
\* down (stream.hpp:44-50, connection.hpp:99-107).
TokenGuards == careful => deadCalls \subseteq {"read"}

\* Torn down in the documented order, nothing reaches a dead runtime -- reads,
\* which do not look at the token, included -- and nothing is left behind.
OrderedTeardownIsClean ==
    orderly => deadCalls = {} /\ \A h \in Handles : ~Abandoned(h)
-----------------------------------------------------------------------------
\* The promise made to the C library.  A handle that no object holds any more
\* but which was never given back is abandoned.
Protocol == INSTANCE HandleProtocol WITH
    BorrowedHandles <- StreamHandles \cup TxHandles,
    state <- [h \in Handles |-> IF hstate[h] = "freed" THEN "closed"
                                ELSE IF Abandoned(h) THEN "abandoned"
                                ELSE hstate[h]],
    engine <- heng

\* Every step of a careful client's objects is one step of that protocol, or
\* none: handles are given back exactly once, readers and transactions only to
\* an engine that is up.
KeepsProtocol ==
    /\ careful => Protocol!Init
    /\ [][careful => Protocol!Next]_(Protocol!vars)
=============================================================================
