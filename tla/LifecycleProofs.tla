--------------------------- MODULE LifecycleProofs ---------------------------
(****************************************************************************)
(* The safety properties of Lifecycle for any number of engines, handles    *)
(* and objects.  Base, Shared and LeftBehind are the inductive invariant of *)
(* every client; Guarded and Ordered strengthen it for a client that keeps  *)
(* one of two disciplines.                                                  *)
(****************************************************************************)
EXTENDS Lifecycle, TLAPS

-----------------------------------------------------------------------------
\* What every client gets: the invariant.

\* A handle has an engine once it has been opened.
EngineKnown == \A h \in Handles : hstate[h] = "unused" <=> heng[h] = Null

Base == TypeOK /\ EngineKnown /\ SoleOwner

\* The first part of the invariant holds of empty variables.
LEMMA BaseInit == Init => Base
  BY LifecycleAssumption DEF Init, Base, TypeOK, EngineKnown, SoleOwner, Handles, NoConn,
     NoStream,
         NoTx, ConnObjects, StreamObjects, TxObjects, States, Calls

\* A pointer held by an object is to a handle that has an engine.
LEMMA HeldHandles ==
  ASSUME Base
  PROVE  /\ \A c \in Conns : conn[c].db # Null => heng[conn[c].db] \in Engines
         /\ \A s \in Streams : strm[s].h # Null => heng[strm[s].h] \in Engines
         /\ \A t \in Txs : tx[t].h # Null => heng[tx[t].h] \in Engines
  BY DEF Base, TypeOK, EngineKnown, SoleOwner, Handles, ConnObjects, StreamObjects,
     TxObjects

\* What Report writes has the type of a cell and of a set of engines.
LEMMA ReportTypes ==
  ASSUME TypeOK, NEW r, NEW cell \in Engines \cup {Null}, NEW e \in Engines, Report(r, cell, e)
  PROVE  flag' \in [Engines -> BOOLEAN] /\ fatal' \subseteq Engines
  BY DEF Report, TypeOK

\* What Calling writes has the type of a set of calls.
LEMMA CallingTypes ==
  ASSUME TypeOK, NEW op \in Calls, NEW h, Calling(op, h)
  PROVE  deadCalls' \subseteq Calls
  BY DEF Calling, TypeOK

\* The names of the calls.
LEMMA CallNames == Calls = {"read", "kill", "tx"}
  BY DEF Calls

\* Every step keeps the types, gives opened handles an engine and leaves each
\* handle with one owner.
LEMMA BaseStep == Base /\ [Next]_vars => Base'
<1> SUFFICES ASSUME Base, [Next]_vars PROVE Base'
  OBVIOUS
<1>0. orderly' = orderly /\ careful' = careful
  BY DEF Next, vars
<1> USE LifecycleAssumption DEF Base, Handles, Allocate, Release
<1>1. ASSUME NEW c \in Conns, NEW h \in SessionHandles, NEW e \in Engines, Connect(c, h, e)
      PROVE  Base'
  <2>1. TypeOK'
    BY <1>0, <1>1 DEF Connect, TypeOK, ConnObjects, StreamObjects, TxObjects, EngineKnown,
       SoleOwner, States, Calls
  <2>2. EngineKnown'
    BY <1>1 DEF Connect, TypeOK, ConnObjects, StreamObjects, TxObjects, EngineKnown,
       SoleOwner
  <2>3. SoleOwner'
    BY <1>1 DEF Connect, TypeOK, ConnObjects, StreamObjects, TxObjects, SoleOwner
  <2> QED BY <2>1, <2>2, <2>3
<1>2. ASSUME NEW c \in Conns, NEW d \in Conns, NEW h \in SessionHandles, Fork(c, d, h)
      PROVE  Base'
  <2>1. TypeOK'
    BY <1>0, <1>2 DEF Fork, TypeOK, ConnObjects, StreamObjects, TxObjects, EngineKnown,
       SoleOwner, States, Calls
  <2>2. EngineKnown'
    BY <1>2 DEF Fork, TypeOK, ConnObjects, StreamObjects, TxObjects, EngineKnown, SoleOwner
  <2>3. SoleOwner'
    BY <1>2 DEF Fork, TypeOK, ConnObjects, StreamObjects, TxObjects, SoleOwner
  <2> QED BY <2>1, <2>2, <2>3
<1>3. ASSUME NEW c \in Conns, ConnCallFatal(c)
      PROVE  Base'
  <2>1. TypeOK'
    <3>1. flag' \in [Engines -> BOOLEAN] /\ fatal' \subseteq Engines
      BY <1>3, ReportTypes, HeldHandles DEF ConnCallFatal, ConnObjects, TypeOK
    <3> QED BY <1>0, <1>3, <3>1 DEF ConnCallFatal, TypeOK
  <2>2. EngineKnown'
    BY <1>3 DEF ConnCallFatal, TypeOK, ConnObjects, StreamObjects, TxObjects, EngineKnown,
       SoleOwner
  <2>3. SoleOwner'
    BY <1>3 DEF ConnCallFatal, TypeOK, ConnObjects, StreamObjects, TxObjects, SoleOwner
  <2> QED BY <2>1, <2>2, <2>3
<1>4. ASSUME NEW c \in Conns, Disconnect(c)
      PROVE  Base'
  <2>1. TypeOK'
    <3>1. hstate' \in [Handles -> States] /\ conn' \in [Conns -> ConnObjects]
      BY <1>4 DEF Disconnect, TypeOK, ConnObjects, States
    <3> QED BY <1>0, <1>4, <3>1 DEF Disconnect, TypeOK
  <2>2. EngineKnown'
    BY <1>4 DEF Disconnect, TypeOK, ConnObjects, StreamObjects, TxObjects, EngineKnown,
       SoleOwner
  <2>3. SoleOwner'
    BY <1>4 DEF Disconnect, TypeOK, ConnObjects, StreamObjects, TxObjects, SoleOwner
  <2> QED BY <2>1, <2>2, <2>3
<1>5. ASSUME NEW c \in Conns, DestroyConn(c)
      PROVE  Base'
  <2>1. TypeOK'
    <3>1. hstate' \in [Handles -> States] /\ conn' \in [Conns -> ConnObjects]
      BY <1>5 DEF DestroyConn, NoConn, TypeOK, ConnObjects, States
    <3> QED BY <1>0, <1>5, <3>1 DEF DestroyConn, TypeOK
  <2>2. EngineKnown'
    BY <1>5 DEF DestroyConn, NoConn, TypeOK, ConnObjects, StreamObjects, TxObjects,
       EngineKnown, SoleOwner
  <2>3. SoleOwner'
    BY <1>5 DEF DestroyConn, NoConn, TypeOK, ConnObjects, StreamObjects, TxObjects,
       SoleOwner
  <2> QED BY <2>1, <2>2, <2>3
<1>6. ASSUME NEW c \in Conns, NEW d \in Conns, MoveConn(c, d)
      PROVE  Base'
  <2>1. TypeOK'
    <3>1. hstate' \in [Handles -> States]
      BY <1>6 DEF MoveConn, TypeOK, States
    <3>2. conn' \in [Conns -> ConnObjects]
      BY <1>6 DEF MoveConn, NoConn, TypeOK, ConnObjects
    <3> QED BY <1>0, <1>6, <3>1, <3>2 DEF MoveConn, TypeOK
  <2>2. EngineKnown'
    BY <1>6 DEF MoveConn, NoConn, TypeOK, ConnObjects, StreamObjects, TxObjects,
       EngineKnown, SoleOwner
  <2>3. \A k \in Conns : conn'[k].db = IF k = c THEN Null ELSE IF k = d THEN conn[c].db
      ELSE conn[k].db
    BY <1>6 DEF MoveConn, NoConn, TypeOK, ConnObjects
  <2>4. \A h \in SessionHandles : hstate[h] = "open" /\ h # conn[d].db => hstate'[h] =
      "open"
    BY <1>6 DEF MoveConn, TypeOK
  <2>5. \A h \in StreamHandles \cup TxHandles : hstate'[h] = hstate[h]
    BY <1>6 DEF MoveConn, TypeOK, ConnObjects
  <2>6. SoleOwner'
    <3>1. ASSUME NEW k \in Conns, conn'[k].db # Null
          PROVE  /\ hstate'[conn'[k].db] = "open"
                 /\ \A d2 \in Conns \ {k} : conn'[d2].db # conn'[k].db
      BY <1>6, <2>3, <2>4, <3>1 DEF MoveConn, TypeOK, ConnObjects, SoleOwner
    <3>2. ASSUME NEW k \in Streams, strm'[k].h # Null
          PROVE  /\ hstate'[strm'[k].h] = "open"
                 /\ \A d2 \in Streams \ {k} : strm'[d2].h # strm'[k].h
      BY <1>6, <2>5, <3>2 DEF MoveConn, TypeOK, StreamObjects, SoleOwner
    <3>3. ASSUME NEW k \in Txs, tx'[k].h # Null
          PROVE  /\ hstate'[tx'[k].h] = "open"
                 /\ \A d2 \in Txs \ {k} : tx'[d2].h # tx'[k].h
      BY <1>6, <2>5, <3>3 DEF MoveConn, TypeOK, TxObjects, SoleOwner
    <3> QED BY <3>1, <3>2, <3>3 DEF SoleOwner
  <2> QED BY <2>1, <2>2, <2>6
<1>7. ASSUME NEW c \in Conns, NEW s \in Streams, NEW h \in StreamHandles, Live(c, s, h)
      PROVE  Base'
  <2>1. TypeOK'
    BY <1>0, <1>7 DEF Live, TypeOK, ConnObjects, StreamObjects, TxObjects, EngineKnown,
       SoleOwner, States, Calls
  <2>2. EngineKnown'
    BY <1>7 DEF Live, TypeOK, ConnObjects, StreamObjects, TxObjects, EngineKnown, SoleOwner
  <2>3. SoleOwner'
    BY <1>7 DEF Live, TypeOK, ConnObjects, StreamObjects, TxObjects, SoleOwner
  <2> QED BY <2>1, <2>2, <2>3
<1>8. ASSUME NEW s \in Streams, ReadEvent(s)
      PROVE  Base'
  <2>1. TypeOK'
    BY <1>0, <1>8 DEF ReadEvent, Calling, TypeOK, ConnObjects, StreamObjects, TxObjects,
       EngineKnown, SoleOwner, States, Calls
  <2>2. EngineKnown'
    BY <1>8 DEF ReadEvent, Calling, TypeOK, ConnObjects, StreamObjects, TxObjects,
       EngineKnown, SoleOwner
  <2>3. SoleOwner'
    BY <1>8 DEF ReadEvent, Calling, TypeOK, ConnObjects, StreamObjects, TxObjects, SoleOwner
  <2> QED BY <2>1, <2>2, <2>3
<1>9. ASSUME NEW s \in Streams, NEW r \in Outcomes, ReadEnd(s, r)
      PROVE  Base'
  <2>1. TypeOK'
    <3>1. flag' \in [Engines -> BOOLEAN] /\ fatal' \subseteq Engines
      BY <1>9, ReportTypes, HeldHandles DEF ReadEnd, CanRead, StreamObjects, TypeOK
    <3>2. deadCalls' \subseteq Calls
      BY <1>9, CallingTypes, CallNames DEF ReadEnd
    <3>3. strm' \in [Streams -> StreamObjects]
      <4>a. strm[s] \in StreamObjects
        BY DEF TypeOK
      <4>1. [strm[s] EXCEPT !.done = TRUE] \in StreamObjects
        BY <4>a DEF StreamObjects
      <4>2. strm' = [strm EXCEPT ![s] = [strm[s] EXCEPT !.done = TRUE]]
        BY <1>9 DEF ReadEnd
      <4>3. strm \in [Streams -> StreamObjects]
        BY DEF TypeOK
      <4> QED BY <4>1, <4>2, <4>3
    <3> QED BY <1>0, <1>9, <3>1, <3>2, <3>3 DEF ReadEnd, TypeOK
  <2>2. EngineKnown'
    BY <1>9 DEF ReadEnd, TypeOK, ConnObjects, StreamObjects, TxObjects, EngineKnown,
       SoleOwner
  <2>3. SoleOwner'
    BY <1>9 DEF ReadEnd, TypeOK, ConnObjects, StreamObjects, TxObjects, SoleOwner
  <2> QED BY <2>1, <2>2, <2>3
<1>10. ASSUME NEW s \in Streams, CloseStream(s)
      PROVE  Base'
  <2>1. TypeOK'
    <3>1. hstate' \in [Handles -> States] /\ deadCalls' \subseteq Calls
      <4>1. hstate' \in [Handles -> States]
        BY <1>10 DEF CloseStream, Retire, States, TypeOK
      <4>2. deadCalls' \subseteq Calls
        BY <1>10, CallingTypes, CallNames DEF CloseStream, Retire, TypeOK
      <4> QED BY <4>1, <4>2
    <3>2. strm' \in [Streams -> StreamObjects]
      <4>a. strm[s] \in StreamObjects
        BY DEF TypeOK
      <4>1. [strm[s] EXCEPT !.h = Null, !.done = TRUE] \in StreamObjects
        BY <4>a DEF StreamObjects
      <4>2. strm' = [strm EXCEPT ![s] = [strm[s] EXCEPT !.h = Null, !.done = TRUE]]
        BY <1>10 DEF CloseStream
      <4>3. strm \in [Streams -> StreamObjects]
        BY DEF TypeOK
      <4> QED BY <4>1, <4>2, <4>3
    <3> QED BY <1>0, <1>10, <3>1, <3>2 DEF CloseStream, TypeOK
  <2>2. EngineKnown'
    BY <1>10 DEF CloseStream, Retire, TypeOK, ConnObjects, StreamObjects, TxObjects,
       EngineKnown, SoleOwner
  <2>3. SoleOwner'
    BY <1>10 DEF CloseStream, Retire, TypeOK, ConnObjects, StreamObjects, TxObjects,
       SoleOwner
  <2> QED BY <2>1, <2>2, <2>3
<1>11. ASSUME NEW s \in Streams, DestroyStream(s)
      PROVE  Base'
  <2>1. TypeOK'
    <3>1. hstate' \in [Handles -> States] /\ deadCalls' \subseteq Calls
      <4>1. hstate' \in [Handles -> States]
        BY <1>11 DEF DestroyStream, Retire, States, TypeOK
      <4>2. deadCalls' \subseteq Calls
        BY <1>11, CallingTypes, CallNames DEF DestroyStream, Retire, TypeOK
      <4> QED BY <4>1, <4>2
    <3>2. strm' \in [Streams -> StreamObjects]
      BY <1>11 DEF DestroyStream, NoStream, TypeOK, StreamObjects
    <3> QED BY <1>0, <1>11, <3>1, <3>2 DEF DestroyStream, TypeOK
  <2>2. EngineKnown'
    BY <1>11 DEF DestroyStream, Retire, NoStream, TypeOK, ConnObjects, StreamObjects,
       TxObjects, EngineKnown, SoleOwner
  <2>3. SoleOwner'
    BY <1>11 DEF DestroyStream, Retire, NoStream, TypeOK, ConnObjects, StreamObjects,
       TxObjects, SoleOwner
  <2> QED BY <2>1, <2>2, <2>3
<1>12. ASSUME NEW s \in Streams, NEW d \in Streams, MoveStream(s, d)
      PROVE  Base'
  <2>1. TypeOK'
    <3>1. hstate' \in [Handles -> States] /\ deadCalls' \subseteq Calls
      BY <1>12 DEF MoveStream, Calling, Calls, States, TypeOK
    <3>2. strm' \in [Streams -> StreamObjects]
      BY <1>12 DEF MoveStream, NoStream, TypeOK, StreamObjects
    <3> QED BY <1>0, <1>12, <3>1, <3>2 DEF MoveStream, TypeOK
  <2>2. EngineKnown'
    BY <1>12 DEF MoveStream, NoStream, TypeOK, ConnObjects, StreamObjects, TxObjects,
       EngineKnown, SoleOwner
  <2>3. \A k \in Streams : strm'[k].h = IF k = s THEN Null ELSE IF k = d THEN strm[s].h
                                          ELSE strm[k].h
    BY <1>12 DEF MoveStream, NoStream, TypeOK, StreamObjects
  <2>4. \A h \in StreamHandles : hstate[h] = "open" /\ h # strm[d].h => hstate'[h] = "open"
    BY <1>12 DEF MoveStream, TypeOK
  <2>5. \A h \in SessionHandles \cup TxHandles : hstate'[h] = hstate[h]
    BY <1>12 DEF MoveStream, TypeOK, StreamObjects
  <2>6. SoleOwner'
    <3>1. ASSUME NEW k \in Streams, strm'[k].h # Null
          PROVE  /\ hstate'[strm'[k].h] = "open"
                 /\ \A d2 \in Streams \ {k} : strm'[d2].h # strm'[k].h
      BY <1>12, <2>3, <2>4, <3>1 DEF MoveStream, TypeOK, StreamObjects, SoleOwner
    <3>2. ASSUME NEW k \in Conns, conn'[k].db # Null
          PROVE  /\ hstate'[conn'[k].db] = "open"
                 /\ \A d2 \in Conns \ {k} : conn'[d2].db # conn'[k].db
      BY <1>12, <2>5, <3>2 DEF MoveStream, TypeOK, ConnObjects, SoleOwner
    <3>3. ASSUME NEW k \in Txs, tx'[k].h # Null
          PROVE  /\ hstate'[tx'[k].h] = "open"
                 /\ \A d2 \in Txs \ {k} : tx'[d2].h # tx'[k].h
      BY <1>12, <2>5, <3>3 DEF MoveStream, TypeOK, TxObjects, SoleOwner
    <3> QED BY <3>1, <3>2, <3>3 DEF SoleOwner
  <2> QED BY <2>1, <2>2, <2>6
<1>13. ASSUME NEW c \in Conns, NEW t \in Txs, NEW h \in TxHandles, Begin(c, t, h)
      PROVE  Base'
  <2>1. TypeOK'
    BY <1>0, <1>13 DEF Begin, TypeOK, ConnObjects, StreamObjects, TxObjects, EngineKnown,
       SoleOwner, States, Calls
  <2>2. EngineKnown'
    BY <1>13 DEF Begin, TypeOK, ConnObjects, StreamObjects, TxObjects, EngineKnown,
       SoleOwner
  <2>3. SoleOwner'
    BY <1>13 DEF Begin, TypeOK, ConnObjects, StreamObjects, TxObjects, SoleOwner
  <2> QED BY <2>1, <2>2, <2>3
<1>14. ASSUME NEW t \in Txs, NEW r \in Outcomes, TxQuery(t, r)
      PROVE  Base'
  <2>1. TypeOK'
    <3>1. flag' \in [Engines -> BOOLEAN] /\ fatal' \subseteq Engines
      BY <1>14, ReportTypes, HeldHandles DEF TxQuery, TxObjects, TypeOK
    <3>2. deadCalls' \subseteq Calls
      BY <1>14, CallingTypes, CallNames DEF TxQuery
    <3> QED BY <1>0, <1>14, <3>1, <3>2 DEF TxQuery, TypeOK
  <2>2. EngineKnown'
    BY <1>14 DEF TxQuery, TypeOK, ConnObjects, StreamObjects, TxObjects, EngineKnown,
       SoleOwner
  <2>3. SoleOwner'
    BY <1>14 DEF TxQuery, TypeOK, ConnObjects, StreamObjects, TxObjects, SoleOwner
  <2> QED BY <2>1, <2>2, <2>3
<1>15. ASSUME NEW t \in Txs, NEW r \in Outcomes, TxFinish(t, r)
      PROVE  Base'
  <2>1. TypeOK'
    <3>1. flag' \in [Engines -> BOOLEAN] /\ fatal' \subseteq Engines
      BY <1>15, ReportTypes, HeldHandles DEF TxFinish, Finish, TxObjects, TypeOK
    <3>2. hstate' \in [Handles -> States] /\ deadCalls' \subseteq Calls
      <4>1. hstate' \in [Handles -> States]
        BY <1>15 DEF TxFinish, Finish, States, TypeOK
      <4>2. deadCalls' \subseteq Calls
        BY <1>15, CallingTypes, CallNames DEF TxFinish, Finish, TypeOK
      <4> QED BY <4>1, <4>2
    <3>3. tx' \in [Txs -> TxObjects]
      BY <1>15 DEF TxFinish, TypeOK, TxObjects
    <3> QED BY <1>0, <1>15, <3>1, <3>2, <3>3 DEF TxFinish, TypeOK
  <2>2. EngineKnown'
    BY <1>15 DEF TxFinish, Finish, TypeOK, ConnObjects, StreamObjects, TxObjects,
       EngineKnown, SoleOwner
  <2>3. SoleOwner'
    BY <1>15 DEF TxFinish, Finish, TypeOK, ConnObjects, StreamObjects, TxObjects, SoleOwner
  <2> QED BY <2>1, <2>2, <2>3
<1>16. ASSUME NEW t \in Txs, NEW r \in Outcomes, DestroyTx(t, r)
      PROVE  Base'
  <2>1. TypeOK'
    <3>1. flag' \in [Engines -> BOOLEAN] /\ fatal' \subseteq Engines
      BY <1>16, ReportTypes, HeldHandles DEF DestroyTx, Finish, TxObjects, TypeOK
    <3>2. hstate' \in [Handles -> States]
      BY <1>16 DEF DestroyTx, Finish, States, TypeOK, TxObjects
    <3>3. deadCalls' \subseteq Calls
      BY <1>16, CallingTypes, CallNames DEF DestroyTx, Finish, TypeOK
    <3>4. tx' = [tx EXCEPT ![t] = NoTx]
      BY <1>16 DEF DestroyTx
    <3>5. tx' \in [Txs -> TxObjects]
      BY <1>16, <3>4 DEF NoTx, TypeOK, TxObjects
    <3> QED BY <1>0, <1>16, <3>1, <3>2, <3>3, <3>4, <3>5 DEF DestroyTx, TypeOK
  <2>2. EngineKnown'
    BY <1>16 DEF DestroyTx, Finish, NoTx, TypeOK, ConnObjects, StreamObjects, TxObjects,
       EngineKnown, SoleOwner
  <2>3. SoleOwner'
    BY <1>16 DEF DestroyTx, Finish, NoTx, TypeOK, ConnObjects, StreamObjects, TxObjects,
       SoleOwner
  <2> QED BY <2>1, <2>2, <2>3
<1>17. ASSUME NEW t \in Txs, NEW u \in Txs, MoveTx(t, u)
      PROVE  Base'
  <2>1. TypeOK'
    BY <1>0, <1>17 DEF MoveTx, NoTx, TypeOK, ConnObjects, StreamObjects, TxObjects, EngineKnown,
       SoleOwner, States, Calls
  <2>2. EngineKnown'
    BY <1>17 DEF MoveTx, NoTx, TypeOK, ConnObjects, StreamObjects, TxObjects, EngineKnown,
       SoleOwner
  <2>3. SoleOwner'
    <3>1. \A k \in Txs : tx'[k].h = IF k = t THEN Null ELSE IF k = u THEN tx[t].h
                                     ELSE tx[k].h
      BY <1>17 DEF MoveTx, NoTx, TypeOK, TxObjects
    <3>2. ASSUME NEW k \in Txs, tx'[k].h # Null
          PROVE  /\ hstate'[tx'[k].h] = "open"
                 /\ \A d2 \in Txs \ {k} : tx'[d2].h # tx'[k].h
      BY <1>17, <3>1, <3>2 DEF MoveTx, TypeOK, TxObjects, SoleOwner
    <3> QED BY <1>17, <3>2 DEF MoveTx, SoleOwner
  <2> QED BY <2>1, <2>2, <2>3
<1>18. CASE UNCHANGED vars
  BY <1>18 DEF vars, TypeOK, EngineKnown, SoleOwner
<1> QED
  BY <1>1, <1>2, <1>3, <1>4, <1>5, <1>6, <1>7, <1>8, <1>9, <1>10, <1>11, <1>12, <1>13,
     <1>14, <1>15, <1>16, <1>17, <1>18 DEF Next, ConnNext, StreamNext, TxNext

-----------------------------------------------------------------------------
\* An object that holds a handle holds the token and the cell of its engine.
TokensMatch ==
    /\ \A c \in Conns : conn[c].db # Null =>
          conn[c].alive = heng[conn[c].db] /\ conn[c].poisoned = heng[conn[c].db]
    /\ \A s \in Streams : strm[s].h # Null =>
          strm[s].alive = heng[strm[s].h] /\ strm[s].poisoned = heng[strm[s].h]
    /\ \A t \in Txs : tx[t].h # Null =>
          tx[t].alive = heng[tx[t].h] /\ tx[t].poisoned = heng[tx[t].h]

\* The cells remember exactly what the calls reported.
CellsMatch == \A e \in Engines : flag[e] <=> e \in fatal

SessionsOwned ==
    \A h \in SessionHandles : hstate[h] = "open" => \E c \in Conns : conn[c].db = h

Shared == TokensMatch /\ CellsMatch /\ SessionsOwned

\* Nothing is shared and no session is open at first.
LEMMA SharedInit == Init => Shared
  BY DEF Init, Shared, TokensMatch, CellsMatch, SessionsOwned, NoConn, NoStream, NoTx,
     Handles

\* Every step keeps the token and the cell of an object those of the engine its
\* handle runs on, the cells what the calls reported, and every session owned.
LEMMA SharedStep == Base /\ Shared /\ [Next]_vars => Shared'
<1> SUFFICES ASSUME Base, Shared, [Next]_vars PROVE Shared'
  OBVIOUS
<1> USE LifecycleAssumption DEF Base, Shared, Handles, Allocate, Release
<1>1. ASSUME NEW c \in Conns, NEW h \in SessionHandles, NEW e \in Engines, Connect(c, h, e)
      PROVE  Shared'
  <2>1. TokensMatch'
    BY <1>1 DEF Connect, TokensMatch, EngineKnown, SoleOwner, TypeOK, ConnObjects,
       StreamObjects, TxObjects
  <2>2. CellsMatch'
    BY <1>1 DEF Connect, CellsMatch, TokensMatch, TypeOK
  <2>3. SessionsOwned'
    <3> SUFFICES ASSUME NEW g \in SessionHandles, hstate'[g] = "open"
                 PROVE  \E k \in Conns : conn'[k].db = g
      BY DEF SessionsOwned
    <3>1. CASE g = h
      BY <1>1, <3>1 DEF Connect, TypeOK, ConnObjects
    <3>2. CASE g # h
      <4>1. PICK k \in Conns : conn[k].db = g
        BY <1>1, <3>2 DEF Connect, SessionsOwned, TypeOK
      <4>2. k # c
        BY <1>1, <4>1 DEF Connect, NoConn
      <4> QED BY <1>1, <4>1, <4>2 DEF Connect, TypeOK
    <3> QED BY <3>1, <3>2
  <2> QED BY <2>1, <2>2, <2>3 DEF Shared
<1>2. ASSUME NEW c \in Conns, NEW d \in Conns, NEW h \in SessionHandles, Fork(c, d, h)
      PROVE  Shared'
  <2>1. TokensMatch'
    BY <1>2 DEF Fork, TokensMatch, EngineKnown, SoleOwner, TypeOK, ConnObjects,
       StreamObjects, TxObjects
  <2>2. CellsMatch'
    BY <1>2 DEF Fork, CellsMatch, TokensMatch, TypeOK
  <2>3. SessionsOwned'
    <3> SUFFICES ASSUME NEW g \in SessionHandles, hstate'[g] = "open"
                 PROVE  \E k \in Conns : conn'[k].db = g
      BY DEF SessionsOwned
    <3>1. CASE g = h
      BY <1>2, <3>1 DEF Fork, TypeOK, ConnObjects
    <3>2. CASE g # h
      <4>1. PICK k \in Conns : conn[k].db = g
        BY <1>2, <3>2 DEF Fork, SessionsOwned, TypeOK
      <4>2. k # d
        BY <1>2, <4>1 DEF Fork, NoConn
      <4> QED BY <1>2, <4>1, <4>2 DEF Fork, TypeOK
    <3> QED BY <3>1, <3>2
  <2> QED BY <2>1, <2>2, <2>3 DEF Shared
<1>3. ASSUME NEW c \in Conns, ConnCallFatal(c)
      PROVE  Shared'
  <2>1. TokensMatch'
    BY <1>3 DEF ConnCallFatal, TokensMatch, EngineKnown, SoleOwner, TypeOK, ConnObjects,
       StreamObjects, TxObjects
  <2>2. CellsMatch'
    BY <1>3 DEF ConnCallFatal, CellsMatch, TokensMatch, TypeOK, Report
  <2>3. SessionsOwned'
    BY <1>3 DEF ConnCallFatal, SessionsOwned, SoleOwner, TypeOK, ConnObjects,
       StreamObjects, TxObjects
  <2> QED BY <2>1, <2>2, <2>3 DEF Shared
<1>4. ASSUME NEW c \in Conns, Disconnect(c)
      PROVE  Shared'
  <2>1. TokensMatch'
    BY <1>4 DEF Disconnect, TokensMatch, EngineKnown, SoleOwner, TypeOK, ConnObjects,
       StreamObjects, TxObjects
  <2>2. CellsMatch'
    BY <1>4 DEF Disconnect, CellsMatch, TokensMatch, TypeOK
  <2>3. SessionsOwned'
    BY <1>4 DEF Disconnect, SessionsOwned, SoleOwner, TypeOK, ConnObjects, StreamObjects,
       TxObjects
  <2> QED BY <2>1, <2>2, <2>3 DEF Shared
<1>5. ASSUME NEW c \in Conns, DestroyConn(c)
      PROVE  Shared'
  <2>1. TokensMatch'
    BY <1>5 DEF DestroyConn, NoConn, TokensMatch, EngineKnown, SoleOwner, TypeOK,
       ConnObjects, StreamObjects, TxObjects
  <2>2. CellsMatch'
    BY <1>5 DEF DestroyConn, NoConn, CellsMatch, TokensMatch, TypeOK
  <2>3. SessionsOwned'
    BY <1>5 DEF DestroyConn, NoConn, SessionsOwned, SoleOwner, TypeOK, ConnObjects,
       StreamObjects, TxObjects
  <2> QED BY <2>1, <2>2, <2>3 DEF Shared
<1>6. ASSUME NEW c \in Conns, NEW d \in Conns, MoveConn(c, d)
      PROVE  Shared'
  <2>1. TokensMatch'
    BY <1>6 DEF MoveConn, NoConn, TokensMatch, EngineKnown, SoleOwner, TypeOK,
       ConnObjects, StreamObjects, TxObjects
  <2>2. CellsMatch'
    BY <1>6 DEF MoveConn, NoConn, CellsMatch, TokensMatch, TypeOK
  <2>3. SessionsOwned'
    <3> SUFFICES ASSUME NEW g \in SessionHandles, hstate'[g] = "open"
                 PROVE  \E k \in Conns : conn'[k].db = g
      BY DEF SessionsOwned
    <3>1. hstate[g] = "open" /\ g # conn[d].db
      BY <1>6 DEF MoveConn, TypeOK, ConnObjects
    <3>2. PICK k \in Conns : conn[k].db = g
      BY <3>1 DEF SessionsOwned
    <3>3. CASE k = c
      BY <1>6, <3>2, <3>3 DEF MoveConn, TypeOK
    <3>4. CASE k # c
      <4>1. k # d
        BY <3>1, <3>2
      <4> QED BY <1>6, <3>2, <3>4, <4>1 DEF MoveConn, TypeOK
    <3> QED BY <3>3, <3>4
  <2> QED BY <2>1, <2>2, <2>3 DEF Shared
<1>7. ASSUME NEW c \in Conns, NEW s \in Streams, NEW h \in StreamHandles, Live(c, s, h)
      PROVE  Shared'
  <2>1. TokensMatch'
    BY <1>7 DEF Live, TokensMatch, EngineKnown, SoleOwner, TypeOK, ConnObjects,
       StreamObjects, TxObjects
  <2>2. CellsMatch'
    BY <1>7 DEF Live, CellsMatch, TokensMatch, TypeOK
  <2>3. SessionsOwned'
    BY <1>7 DEF Live, SessionsOwned, SoleOwner, TypeOK, ConnObjects, StreamObjects,
       TxObjects
  <2> QED BY <2>1, <2>2, <2>3 DEF Shared
<1>8. ASSUME NEW s \in Streams, ReadEvent(s)
      PROVE  Shared'
  <2>1. TokensMatch'
    BY <1>8 DEF ReadEvent, Calling, TokensMatch, EngineKnown, SoleOwner, TypeOK,
       ConnObjects, StreamObjects, TxObjects
  <2>2. CellsMatch'
    BY <1>8 DEF ReadEvent, Calling, CellsMatch, TokensMatch, TypeOK
  <2>3. SessionsOwned'
    BY <1>8 DEF ReadEvent, Calling, SessionsOwned, SoleOwner, TypeOK, ConnObjects,
       StreamObjects, TxObjects
  <2> QED BY <2>1, <2>2, <2>3 DEF Shared
<1>9. ASSUME NEW s \in Streams, NEW r \in Outcomes, ReadEnd(s, r)
      PROVE  Shared'
  <2>1. TokensMatch'
    BY <1>9 DEF ReadEnd, TokensMatch, EngineKnown, SoleOwner, TypeOK, ConnObjects,
       StreamObjects, TxObjects
  <2>2. CellsMatch'
    BY <1>9 DEF ReadEnd, CellsMatch, TokensMatch, TypeOK, Report, CanRead
  <2>3. SessionsOwned'
    BY <1>9 DEF ReadEnd, SessionsOwned, SoleOwner, TypeOK, ConnObjects, StreamObjects,
       TxObjects
  <2> QED BY <2>1, <2>2, <2>3 DEF Shared
<1>10. ASSUME NEW s \in Streams, CloseStream(s)
      PROVE  Shared'
  <2>1. TokensMatch'
    BY <1>10 DEF CloseStream, Retire, TokensMatch, EngineKnown, SoleOwner, TypeOK,
       ConnObjects, StreamObjects, TxObjects
  <2>2. CellsMatch'
    BY <1>10 DEF CloseStream, Retire, CellsMatch, TokensMatch, TypeOK
  <2>3. SessionsOwned'
    BY <1>10 DEF CloseStream, Retire, SessionsOwned, SoleOwner, TypeOK, ConnObjects,
       StreamObjects, TxObjects
  <2> QED BY <2>1, <2>2, <2>3 DEF Shared
<1>11. ASSUME NEW s \in Streams, DestroyStream(s)
      PROVE  Shared'
  <2>1. TokensMatch'
    BY <1>11 DEF DestroyStream, Retire, NoStream, TokensMatch, EngineKnown, SoleOwner,
       TypeOK, ConnObjects, StreamObjects, TxObjects
  <2>2. CellsMatch'
    BY <1>11 DEF DestroyStream, Retire, NoStream, CellsMatch, TokensMatch, TypeOK
  <2>3. SessionsOwned'
    BY <1>11 DEF DestroyStream, Retire, NoStream, SessionsOwned, SoleOwner, TypeOK,
       ConnObjects, StreamObjects, TxObjects
  <2> QED BY <2>1, <2>2, <2>3 DEF Shared
<1>12. ASSUME NEW s \in Streams, NEW d \in Streams, MoveStream(s, d)
      PROVE  Shared'
  <2>1. TokensMatch'
    BY <1>12 DEF MoveStream, NoStream, TokensMatch, EngineKnown, SoleOwner, TypeOK,
       ConnObjects, StreamObjects, TxObjects
  <2>2. CellsMatch'
    BY <1>12 DEF MoveStream, NoStream, CellsMatch, TokensMatch, TypeOK
  <2>3. SessionsOwned'
    BY <1>12 DEF MoveStream, NoStream, SessionsOwned, SoleOwner, TypeOK, ConnObjects,
       StreamObjects, TxObjects
  <2> QED BY <2>1, <2>2, <2>3 DEF Shared
<1>13. ASSUME NEW c \in Conns, NEW t \in Txs, NEW h \in TxHandles, Begin(c, t, h)
      PROVE  Shared'
  <2>1. TokensMatch'
    BY <1>13 DEF Begin, TokensMatch, EngineKnown, SoleOwner, TypeOK, ConnObjects,
       StreamObjects, TxObjects
  <2>2. CellsMatch'
    BY <1>13 DEF Begin, CellsMatch, TokensMatch, TypeOK
  <2>3. SessionsOwned'
    BY <1>13 DEF Begin, SessionsOwned, SoleOwner, TypeOK, ConnObjects, StreamObjects,
       TxObjects
  <2> QED BY <2>1, <2>2, <2>3 DEF Shared
<1>14. ASSUME NEW t \in Txs, NEW r \in Outcomes, TxQuery(t, r)
      PROVE  Shared'
  <2>1. TokensMatch'
    BY <1>14 DEF TxQuery, TokensMatch, EngineKnown, SoleOwner, TypeOK, ConnObjects,
       StreamObjects, TxObjects
  <2>2. CellsMatch'
    BY <1>14 DEF TxQuery, CellsMatch, TokensMatch, TypeOK, Report
  <2>3. SessionsOwned'
    BY <1>14 DEF TxQuery, SessionsOwned, SoleOwner, TypeOK, ConnObjects, StreamObjects,
       TxObjects
  <2> QED BY <2>1, <2>2, <2>3 DEF Shared
<1>15. ASSUME NEW t \in Txs, NEW r \in Outcomes, TxFinish(t, r)
      PROVE  Shared'
  <2>1. TokensMatch'
    BY <1>15 DEF TxFinish, Finish, TokensMatch, EngineKnown, SoleOwner, TypeOK,
       ConnObjects, StreamObjects, TxObjects
  <2>2. CellsMatch'
    BY <1>15 DEF TxFinish, Finish, CellsMatch, TokensMatch, TypeOK, Report
  <2>3. SessionsOwned'
    BY <1>15 DEF TxFinish, Finish, SessionsOwned, SoleOwner, TypeOK, ConnObjects,
       StreamObjects, TxObjects
  <2> QED BY <2>1, <2>2, <2>3 DEF Shared
<1>16. ASSUME NEW t \in Txs, NEW r \in Outcomes, DestroyTx(t, r)
      PROVE  Shared'
  <2>1. TokensMatch'
    BY <1>16 DEF DestroyTx, Finish, NoTx, TokensMatch, EngineKnown, SoleOwner, TypeOK,
       ConnObjects, StreamObjects, TxObjects
  <2>2. CellsMatch'
    BY <1>16 DEF DestroyTx, Finish, NoTx, CellsMatch, TokensMatch, TypeOK, Report
  <2>3. SessionsOwned'
    BY <1>16 DEF DestroyTx, Finish, NoTx, SessionsOwned, SoleOwner, TypeOK, ConnObjects,
       StreamObjects, TxObjects
  <2> QED BY <2>1, <2>2, <2>3 DEF Shared
<1>17. ASSUME NEW t \in Txs, NEW u \in Txs, MoveTx(t, u)
      PROVE  Shared'
  <2>1. TokensMatch'
    BY <1>17 DEF MoveTx, NoTx, TokensMatch, EngineKnown, SoleOwner, TypeOK, ConnObjects,
       StreamObjects, TxObjects
  <2>2. CellsMatch'
    BY <1>17 DEF MoveTx, NoTx, CellsMatch, TokensMatch, TypeOK
  <2>3. SessionsOwned'
    BY <1>17 DEF MoveTx, NoTx, SessionsOwned, SoleOwner, TypeOK, ConnObjects,
       StreamObjects, TxObjects
  <2> QED BY <2>1, <2>2, <2>3 DEF Shared
<1>18. CASE UNCHANGED vars
  BY <1>18 DEF vars, Shared, TokensMatch, CellsMatch, SessionsOwned
<1> QED
  BY <1>1, <1>2, <1>3, <1>4, <1>5, <1>6, <1>7, <1>8, <1>9, <1>10, <1>11, <1>12, <1>13,
     <1>14, <1>15, <1>16, <1>17, <1>18 DEF Next, ConnNext, StreamNext, TxNext

-----------------------------------------------------------------------------
\* An open session has an owner, and the owner holds the token of its engine.
LEMMA GuardIsComplete == Base /\ Shared => GuardComplete
<1> SUFFICES ASSUME Base, Shared, NEW e \in Engines, RuntimeUp(e)
             PROVE  ~Expired(e)
  BY DEF GuardComplete
<1>1. PICK h \in SessionHandles : hstate[h] = "open" /\ heng[h] = e
  BY DEF RuntimeUp
<1>2. PICK c \in Conns : conn[c].db = h
  BY <1>1 DEF Shared, SessionsOwned
<1>3. conn[c].alive = e /\ e # Null
  BY <1>1, <1>2, LifecycleAssumption DEF Shared, TokensMatch, Handles
<1> QED BY <1>3 DEF Expired

\* A refused object's engine has shut down.
LEMMA RefusedIsDead ==
  ASSUME Base, Shared
  PROVE  /\ \A s \in Streams :
               strm[s].h # Null /\ Expired(strm[s].alive) => ~RuntimeUp(heng[strm[s].h])
         /\ \A t \in Txs :
               tx[t].h # Null /\ Expired(tx[t].alive) => ~RuntimeUp(heng[tx[t].h])
  BY GuardIsComplete, HeldHandles DEF GuardComplete, Shared, TokensMatch

\* An engine that is up now was up before, or nothing had ever run on it.
LEMMA NoRestart ==
  ASSUME Base, [Next]_vars, NEW k \in Engines, RuntimeUp(k)', ~RuntimeUp(k)
  PROVE  \A g \in Handles : heng[g] # k
<1> USE LifecycleAssumption DEF Base, Handles, Allocate, Release, RuntimeUp
<1>1. ASSUME NEW c \in Conns, NEW h \in SessionHandles, NEW e \in Engines, Connect(c, h, e)
      PROVE  \A g \in Handles : heng[g] # k
  BY <1>1 DEF Connect, TypeOK, ConnObjects, StreamObjects, TxObjects
<1>2. ASSUME NEW c \in Conns, NEW d \in Conns, NEW h \in SessionHandles, Fork(c, d, h)
      PROVE  \A g \in Handles : heng[g] # k
  <2>1. conn[c].db \in SessionHandles /\ hstate[conn[c].db] = "open"
    BY <1>2 DEF Fork, TypeOK, ConnObjects, SoleOwner
  <2>2. RuntimeUp(k)
    BY <1>2, <2>1 DEF Fork, TypeOK
  <2> QED BY <2>2
<1>3. ASSUME NEW c \in Conns, ConnCallFatal(c)
      PROVE  \A g \in Handles : heng[g] # k
  BY <1>3 DEF ConnCallFatal, TypeOK, ConnObjects, StreamObjects, TxObjects
<1>4. ASSUME NEW c \in Conns, Disconnect(c)
      PROVE  \A g \in Handles : heng[g] # k
  BY <1>4 DEF Disconnect, TypeOK, ConnObjects, StreamObjects, TxObjects
<1>5. ASSUME NEW c \in Conns, DestroyConn(c)
      PROVE  \A g \in Handles : heng[g] # k
  BY <1>5 DEF DestroyConn, NoConn, TypeOK, ConnObjects, StreamObjects, TxObjects
<1>6. ASSUME NEW c \in Conns, NEW d \in Conns, MoveConn(c, d)
      PROVE  \A g \in Handles : heng[g] # k
  BY <1>6 DEF MoveConn, NoConn, TypeOK, ConnObjects, StreamObjects, TxObjects
<1>7. ASSUME NEW c \in Conns, NEW s \in Streams, NEW h \in StreamHandles, Live(c, s, h)
      PROVE  \A g \in Handles : heng[g] # k
  BY <1>7 DEF Live, TypeOK, ConnObjects, StreamObjects, TxObjects
<1>8. ASSUME NEW s \in Streams, ReadEvent(s)
      PROVE  \A g \in Handles : heng[g] # k
  BY <1>8 DEF ReadEvent, Calling, TypeOK, ConnObjects, StreamObjects, TxObjects
<1>9. ASSUME NEW s \in Streams, NEW r \in Outcomes, ReadEnd(s, r)
      PROVE  \A g \in Handles : heng[g] # k
  BY <1>9 DEF ReadEnd, TypeOK, ConnObjects, StreamObjects, TxObjects
<1>10. ASSUME NEW s \in Streams, CloseStream(s)
      PROVE  \A g \in Handles : heng[g] # k
  BY <1>10 DEF CloseStream, Retire, TypeOK, ConnObjects, StreamObjects, TxObjects
<1>11. ASSUME NEW s \in Streams, DestroyStream(s)
      PROVE  \A g \in Handles : heng[g] # k
  BY <1>11 DEF DestroyStream, Retire, NoStream, TypeOK, ConnObjects, StreamObjects,
     TxObjects
<1>12. ASSUME NEW s \in Streams, NEW d \in Streams, MoveStream(s, d)
      PROVE  \A g \in Handles : heng[g] # k
  BY <1>12 DEF MoveStream, NoStream, TypeOK, ConnObjects, StreamObjects, TxObjects
<1>13. ASSUME NEW c \in Conns, NEW t \in Txs, NEW h \in TxHandles, Begin(c, t, h)
      PROVE  \A g \in Handles : heng[g] # k
  BY <1>13 DEF Begin, TypeOK, ConnObjects, StreamObjects, TxObjects
<1>14. ASSUME NEW t \in Txs, NEW r \in Outcomes, TxQuery(t, r)
      PROVE  \A g \in Handles : heng[g] # k
  BY <1>14 DEF TxQuery, TypeOK, ConnObjects, StreamObjects, TxObjects
<1>15. ASSUME NEW t \in Txs, NEW r \in Outcomes, TxFinish(t, r)
      PROVE  \A g \in Handles : heng[g] # k
  BY <1>15 DEF TxFinish, Finish, TypeOK, ConnObjects, StreamObjects, TxObjects
<1>16. ASSUME NEW t \in Txs, NEW r \in Outcomes, DestroyTx(t, r)
      PROVE  \A g \in Handles : heng[g] # k
  BY <1>16 DEF DestroyTx, Finish, NoTx, TypeOK, ConnObjects, StreamObjects, TxObjects
<1>17. ASSUME NEW t \in Txs, NEW u \in Txs, MoveTx(t, u)
      PROVE  \A g \in Handles : heng[g] # k
  BY <1>17 DEF MoveTx, NoTx, TypeOK, ConnObjects, StreamObjects, TxObjects
<1>18. CASE UNCHANGED vars
  BY <1>18 DEF vars
<1> QED
  BY <1>1, <1>2, <1>3, <1>4, <1>5, <1>6, <1>7, <1>8, <1>9, <1>10, <1>11, <1>12, <1>13,
     <1>14, <1>15, <1>16, <1>17, <1>18 DEF Next, ConnNext, StreamNext, TxNext

\* What is left behind, readers and transactions.
LeftBehind ==
    \A h \in StreamHandles \cup TxHandles : Abandoned(h) => ~RuntimeUp(heng[h])

\* What is left behind stays on an engine that has shut down, for good.
LEMMA LeftBehindStep == Base /\ Shared /\ LeftBehind /\ [Next]_vars => LeftBehind'
<1> SUFFICES ASSUME Base, Shared, LeftBehind, [Next]_vars,
                    NEW h \in StreamHandles \cup TxHandles, Abandoned(h)'
             PROVE  ~RuntimeUp(heng[h])'
  BY DEF LeftBehind
<1> USE LifecycleAssumption DEF Base, Handles, Allocate, Release, Abandoned, Owner
<1>a. hstate[h] = "open" /\ heng'[h] = heng[h] /\ ~RuntimeUp(heng[h])
  <2>a. CASE strm' = strm /\ tx' = tx /\ hstate'[h] = hstate[h] /\ heng'[h] = heng[h]
    BY <2>a DEF LeftBehind, TypeOK, ConnObjects
  <2>1. ASSUME NEW c \in Conns, NEW g \in SessionHandles, NEW e \in Engines, Connect(c, g,
      e)
        PROVE  hstate[h] = "open" /\ heng'[h] = heng[h] /\ ~RuntimeUp(heng[h])
    BY <2>1, <2>a DEF Connect, TypeOK, ConnObjects
  <2>2. ASSUME NEW c \in Conns, NEW d \in Conns, NEW g \in SessionHandles, Fork(c, d, g)
        PROVE  hstate[h] = "open" /\ heng'[h] = heng[h] /\ ~RuntimeUp(heng[h])
    BY <2>2, <2>a DEF Fork, TypeOK, ConnObjects
  <2>3. ASSUME NEW c \in Conns, ConnCallFatal(c)
        PROVE  hstate[h] = "open" /\ heng'[h] = heng[h] /\ ~RuntimeUp(heng[h])
    BY <2>3, <2>a DEF ConnCallFatal, TypeOK, ConnObjects
  <2>4. ASSUME NEW c \in Conns, Disconnect(c)
        PROVE  hstate[h] = "open" /\ heng'[h] = heng[h] /\ ~RuntimeUp(heng[h])
    BY <2>4, <2>a DEF Disconnect, TypeOK, ConnObjects
  <2>5. ASSUME NEW c \in Conns, DestroyConn(c)
        PROVE  hstate[h] = "open" /\ heng'[h] = heng[h] /\ ~RuntimeUp(heng[h])
    BY <2>5, <2>a DEF DestroyConn, TypeOK, ConnObjects
  <2>6. ASSUME NEW c \in Conns, NEW d \in Conns, MoveConn(c, d)
        PROVE  hstate[h] = "open" /\ heng'[h] = heng[h] /\ ~RuntimeUp(heng[h])
    BY <2>6, <2>a DEF MoveConn, TypeOK, ConnObjects
  <2>7. ASSUME NEW c \in Conns, NEW s \in Streams, NEW g \in StreamHandles, Live(c, s, g)
        PROVE  hstate[h] = "open" /\ heng'[h] = heng[h] /\ ~RuntimeUp(heng[h])
    <3>1. hstate[h] = "open" /\ heng'[h] = heng[h]
      BY <2>7 DEF Live, TypeOK, ConnObjects, StreamObjects, TxObjects
    <3>2. ASSUME NEW k \in Streams, strm[k].h = h PROVE ~RuntimeUp(heng[h])
      BY <2>7, <3>2, RefusedIsDead DEF Live, NoStream, TypeOK, StreamObjects, TxObjects,
         SoleOwner
    <3>3. CASE ~Owner(h)
      BY <3>1, <3>3 DEF LeftBehind
    <3>4. CASE Owner(h)
      BY <2>7, <3>2, <3>4 DEF Live, TypeOK, ConnObjects
    <3> QED BY <3>1, <3>3, <3>4
  <2>8. ASSUME NEW s \in Streams, ReadEvent(s)
        PROVE  hstate[h] = "open" /\ heng'[h] = heng[h] /\ ~RuntimeUp(heng[h])
    BY <2>8, <2>a DEF ReadEvent, TypeOK, ConnObjects
  <2>9. ASSUME NEW s \in Streams, NEW r \in Outcomes, ReadEnd(s, r)
        PROVE  hstate[h] = "open" /\ heng'[h] = heng[h] /\ ~RuntimeUp(heng[h])
    BY <2>9, RefusedIsDead DEF ReadEnd, LeftBehind, TypeOK, ConnObjects, StreamObjects,
       TxObjects, SoleOwner
  <2>10. ASSUME NEW s \in Streams, CloseStream(s)
        PROVE  hstate[h] = "open" /\ heng'[h] = heng[h] /\ ~RuntimeUp(heng[h])
    <3>1. hstate[h] = "open" /\ heng'[h] = heng[h]
      BY <2>10 DEF CloseStream, Retire, TypeOK, ConnObjects, StreamObjects, TxObjects
    <3>2. ASSUME NEW k \in Streams, strm[k].h = h PROVE ~RuntimeUp(heng[h])
      <4>1. CASE k = s
        BY <2>10, <3>2, <4>1, RefusedIsDead DEF CloseStream, Retire, TypeOK, StreamObjects
      <4>2. CASE k # s
        BY <2>10, <3>2, <4>2 DEF CloseStream, TypeOK
      <4> QED BY <4>1, <4>2
    <3>3. CASE ~Owner(h)
      BY <3>1, <3>3 DEF LeftBehind
    <3>4. CASE Owner(h)
      <4>1. UNCHANGED <<conn, tx>>
        BY <2>10 DEF CloseStream
      <4> QED BY <3>1, <3>2, <3>4, <4>1
    <3> QED BY <3>1, <3>3, <3>4
  <2>11. ASSUME NEW s \in Streams, DestroyStream(s)
        PROVE  hstate[h] = "open" /\ heng'[h] = heng[h] /\ ~RuntimeUp(heng[h])
    <3>1. hstate[h] = "open" /\ heng'[h] = heng[h]
      BY <2>11 DEF DestroyStream, Retire, NoStream, TypeOK, ConnObjects, StreamObjects,
         TxObjects
    <3>2. ASSUME NEW k \in Streams, strm[k].h = h PROVE ~RuntimeUp(heng[h])
      <4>1. CASE k = s
        BY <2>11, <3>2, <4>1, RefusedIsDead DEF DestroyStream, Retire, TypeOK, StreamObjects
      <4>2. CASE k # s
        BY <2>11, <3>2, <4>2 DEF DestroyStream, TypeOK
      <4> QED BY <4>1, <4>2
    <3>3. CASE ~Owner(h)
      BY <3>1, <3>3 DEF LeftBehind
    <3>4. CASE Owner(h)
      <4>1. UNCHANGED <<conn, tx>>
        BY <2>11 DEF DestroyStream
      <4> QED BY <3>1, <3>2, <3>4, <4>1
    <3> QED BY <3>1, <3>3, <3>4
  <2>12. ASSUME NEW s \in Streams, NEW d \in Streams, MoveStream(s, d)
        PROVE  hstate[h] = "open" /\ heng'[h] = heng[h] /\ ~RuntimeUp(heng[h])
    <3>1. hstate[h] = "open" /\ heng'[h] = heng[h]
      BY <2>12 DEF MoveStream, NoStream, TypeOK, ConnObjects, StreamObjects, TxObjects
    <3>2. ASSUME NEW k \in Streams, strm[k].h = h PROVE ~RuntimeUp(heng[h])
      BY <2>12, <3>2, RefusedIsDead DEF MoveStream, NoStream, TypeOK, StreamObjects,
         TxObjects, SoleOwner
    <3>3. CASE ~Owner(h)
      BY <3>1, <3>3 DEF LeftBehind
    <3>4. CASE Owner(h)
      BY <2>12, <3>2, <3>4 DEF MoveStream, TypeOK, ConnObjects
    <3> QED BY <3>1, <3>3, <3>4
  <2>13. ASSUME NEW c \in Conns, NEW t \in Txs, NEW g \in TxHandles, Begin(c, t, g)
        PROVE  hstate[h] = "open" /\ heng'[h] = heng[h] /\ ~RuntimeUp(heng[h])
    <3>1. hstate[h] = "open" /\ heng'[h] = heng[h]
      BY <2>13 DEF Begin, TypeOK, ConnObjects, StreamObjects, TxObjects
    <3>2. ASSUME NEW k \in Txs, tx[k].h = h PROVE ~RuntimeUp(heng[h])
      BY <2>13, <3>2, RefusedIsDead DEF Begin, NoTx, TypeOK, StreamObjects, TxObjects,
         SoleOwner
    <3>3. CASE ~Owner(h)
      BY <3>1, <3>3 DEF LeftBehind
    <3>4. CASE Owner(h)
      BY <2>13, <3>2, <3>4 DEF Begin, TypeOK, ConnObjects
    <3> QED BY <3>1, <3>3, <3>4
  <2>14. ASSUME NEW t \in Txs, NEW r \in Outcomes, TxQuery(t, r)
        PROVE  hstate[h] = "open" /\ heng'[h] = heng[h] /\ ~RuntimeUp(heng[h])
    BY <2>14, <2>a DEF TxQuery, TypeOK, ConnObjects
  <2>15. ASSUME NEW t \in Txs, NEW r \in Outcomes, TxFinish(t, r)
        PROVE  hstate[h] = "open" /\ heng'[h] = heng[h] /\ ~RuntimeUp(heng[h])
    <3>1. hstate[h] = "open" /\ heng'[h] = heng[h]
      BY <2>15 DEF TxFinish, Finish, TypeOK, ConnObjects, StreamObjects, TxObjects
    <3>2. ASSUME NEW k \in Txs, tx[k].h = h PROVE ~RuntimeUp(heng[h])
      <4>1. CASE k = t
        BY <2>15, <3>2, <4>1, RefusedIsDead DEF TxFinish, Finish, TypeOK, TxObjects
      <4>2. CASE k # t
        BY <2>15, <3>2, <4>2 DEF TxFinish, TypeOK
      <4> QED BY <4>1, <4>2
    <3>3. CASE ~Owner(h)
      BY <3>1, <3>3 DEF LeftBehind
    <3>4. CASE Owner(h)
      <4>1. UNCHANGED <<conn, strm>>
        BY <2>15 DEF TxFinish
      <4> QED BY <3>1, <3>2, <3>4, <4>1
    <3> QED BY <3>1, <3>3, <3>4
  <2>16. ASSUME NEW t \in Txs, NEW r \in Outcomes, DestroyTx(t, r)
        PROVE  hstate[h] = "open" /\ heng'[h] = heng[h] /\ ~RuntimeUp(heng[h])
    <3>1. hstate[h] = "open" /\ heng'[h] = heng[h]
      BY <2>16 DEF DestroyTx, Finish, TypeOK, ConnObjects, StreamObjects, TxObjects
    <3>2. ASSUME NEW k \in Txs, tx[k].h = h PROVE ~RuntimeUp(heng[h])
      <4>1. CASE k = t
        BY <2>16, <3>2, <4>1, RefusedIsDead DEF DestroyTx, Finish, TypeOK, TxObjects
      <4>2. CASE k # t
        BY <2>16, <3>2, <4>2 DEF DestroyTx, TypeOK
      <4> QED BY <4>1, <4>2
    <3>3. CASE ~Owner(h)
      BY <3>1, <3>3 DEF LeftBehind
    <3>4. CASE Owner(h)
      <4>1. UNCHANGED <<conn, strm>>
        BY <2>16 DEF DestroyTx
      <4> QED BY <3>1, <3>2, <3>4, <4>1
    <3> QED BY <3>1, <3>3, <3>4
  <2>17. ASSUME NEW t \in Txs, NEW u \in Txs, MoveTx(t, u)
        PROVE  hstate[h] = "open" /\ heng'[h] = heng[h] /\ ~RuntimeUp(heng[h])
    <3>1. hstate[h] = "open" /\ heng'[h] = heng[h]
      BY <2>17 DEF MoveTx, NoTx, TypeOK, ConnObjects, StreamObjects, TxObjects
    <3>2. ASSUME NEW k \in Txs, tx[k].h = h PROVE ~RuntimeUp(heng[h])
      BY <2>17, <3>2, RefusedIsDead DEF MoveTx, NoTx, TypeOK, StreamObjects, TxObjects,
         SoleOwner
    <3>3. CASE ~Owner(h)
      BY <3>1, <3>3 DEF LeftBehind
    <3>4. CASE Owner(h)
      BY <2>17, <3>2, <3>4 DEF MoveTx, TypeOK, ConnObjects
    <3> QED BY <3>1, <3>3, <3>4
  <2>18. CASE UNCHANGED vars
    BY <2>18, <2>a DEF vars
  <2> QED
    BY <2>1, <2>2, <2>3, <2>4, <2>5, <2>6, <2>7, <2>8, <2>9, <2>10, <2>11, <2>12, <2>13,
       <2>14, <2>15, <2>16, <2>17, <2>18 DEF Next, ConnNext, StreamNext, TxNext
<1>b. heng[h] \in Engines
  BY <1>a DEF TypeOK, EngineKnown
<1> QED
  BY <1>a, <1>b, NoRestart DEF RuntimeUp

-----------------------------------------------------------------------------
\* A careful client: a token in an object means a handle beside it.
TokenHasHandle == \A c \in Conns : conn[c].alive # Null => conn[c].db # Null

OnlyReads == deadCalls \subseteq {"read"}

Guarded == TokenHasHandle /\ OnlyReads

\* With a handle beside every token, a live token means an engine that is up.
LEMMA GuardIsSound ==
  ASSUME Base, Shared, TokenHasHandle
  PROVE  /\ \A s \in Streams :
               strm[s].h # Null /\ ~Expired(strm[s].alive) => RuntimeUp(heng[strm[s].h])
         /\ \A t \in Txs :
               tx[t].h # Null /\ ~Expired(tx[t].alive) => RuntimeUp(heng[tx[t].h])
<1>1. ASSUME NEW e \in Engines, ~Expired(e)
      PROVE  RuntimeUp(e)
  <2>1. PICK c \in Conns : conn[c].alive = e /\ conn[c].db # Null
    BY <1>1, LifecycleAssumption DEF Expired, TokenHasHandle
  <2>2. heng[conn[c].db] = e /\ hstate[conn[c].db] = "open" /\ conn[c].db \in SessionHandles
    BY <2>1 DEF Base, TypeOK, SoleOwner, ConnObjects, Shared, TokensMatch
  <2> QED BY <2>2 DEF RuntimeUp
<1> QED BY <1>1, HeldHandles DEF Shared, TokensMatch

\* The first discipline keeps the guard sound through every step.
LEMMA GuardedStep ==
  ASSUME careful, Base, Shared, Guarded, [Next]_vars
  PROVE  Guarded'
<1> USE LifecycleAssumption DEF Base, Guarded, Handles, Allocate, Release
<1> USE DEF OnlyReads
<1>1. ASSUME NEW c \in Conns, NEW h \in SessionHandles, NEW e \in Engines, Connect(c, h, e)
      PROVE  Guarded'
  <2>1. TokenHasHandle'
    BY <1>1 DEF Connect, TokenHasHandle, TypeOK, ConnObjects
  <2>2. OnlyReads'
    BY <1>1 DEF Connect
  <2> QED BY <2>1, <2>2
<1>2. ASSUME NEW c \in Conns, NEW d \in Conns, NEW h \in SessionHandles, Fork(c, d, h)
      PROVE  Guarded'
  <2>1. TokenHasHandle'
    BY <1>2 DEF Fork, TokenHasHandle, TypeOK, ConnObjects
  <2>2. OnlyReads'
    BY <1>2 DEF Fork
  <2> QED BY <2>1, <2>2
<1>3. ASSUME NEW c \in Conns, ConnCallFatal(c)
      PROVE  Guarded'
  <2>1. TokenHasHandle'
    BY <1>3 DEF ConnCallFatal, TokenHasHandle, TypeOK, ConnObjects
  <2>2. OnlyReads'
    BY <1>3 DEF ConnCallFatal
  <2> QED BY <2>1, <2>2
<1>4. ASSUME NEW c \in Conns, Disconnect(c)
      PROVE  Guarded'
  <2>1. TokenHasHandle'
    BY <1>4 DEF Disconnect, TokenHasHandle, TypeOK, ConnObjects
  <2>2. OnlyReads'
    BY <1>4 DEF Disconnect
  <2> QED BY <2>1, <2>2
<1>5. ASSUME NEW c \in Conns, DestroyConn(c)
      PROVE  Guarded'
  <2>1. TokenHasHandle'
    BY <1>5 DEF DestroyConn, NoConn, TokenHasHandle, TypeOK, ConnObjects
  <2>2. OnlyReads'
    BY <1>5 DEF DestroyConn
  <2> QED BY <2>1, <2>2
<1>6. ASSUME NEW c \in Conns, NEW d \in Conns, MoveConn(c, d)
      PROVE  Guarded'
  <2>1. TokenHasHandle'
    BY <1>6 DEF MoveConn, NoConn, TokenHasHandle, TypeOK, ConnObjects
  <2>2. OnlyReads'
    BY <1>6 DEF MoveConn
  <2> QED BY <2>1, <2>2
<1>7. ASSUME NEW c \in Conns, NEW s \in Streams, NEW h \in StreamHandles, Live(c, s, h)
      PROVE  Guarded'
  <2>1. TokenHasHandle'
    BY <1>7 DEF Live, TokenHasHandle, TypeOK, ConnObjects
  <2>2. OnlyReads'
    BY <1>7 DEF Live
  <2> QED BY <2>1, <2>2
<1>8. ASSUME NEW s \in Streams, ReadEvent(s)
      PROVE  Guarded'
  <2>1. TokenHasHandle'
    BY <1>8 DEF ReadEvent, TokenHasHandle, TypeOK, ConnObjects
  <2>2. OnlyReads'
    BY <1>8, GuardIsSound DEF ReadEvent, Calling, TypeOK
  <2> QED BY <2>1, <2>2
<1>9. ASSUME NEW s \in Streams, NEW r \in Outcomes, ReadEnd(s, r)
      PROVE  Guarded'
  <2>1. TokenHasHandle'
    BY <1>9 DEF ReadEnd, TokenHasHandle, TypeOK, ConnObjects
  <2>2. OnlyReads'
    BY <1>9, GuardIsSound DEF ReadEnd, Calling, TypeOK
  <2> QED BY <2>1, <2>2
<1>10. ASSUME NEW s \in Streams, CloseStream(s)
      PROVE  Guarded'
  <2>1. TokenHasHandle'
    BY <1>10 DEF CloseStream, TokenHasHandle, TypeOK, ConnObjects
  <2>2. OnlyReads'
    BY <1>10, GuardIsSound DEF CloseStream, Retire, Calling, TypeOK
  <2> QED BY <2>1, <2>2
<1>11. ASSUME NEW s \in Streams, DestroyStream(s)
      PROVE  Guarded'
  <2>1. TokenHasHandle'
    BY <1>11 DEF DestroyStream, TokenHasHandle, TypeOK, ConnObjects
  <2>2. OnlyReads'
    BY <1>11, GuardIsSound DEF DestroyStream, Retire, Calling, TypeOK
  <2> QED BY <2>1, <2>2
<1>12. ASSUME NEW s \in Streams, NEW d \in Streams, MoveStream(s, d)
      PROVE  Guarded'
  <2>1. TokenHasHandle'
    BY <1>12 DEF MoveStream, TokenHasHandle, TypeOK, ConnObjects
  <2>2. OnlyReads'
    BY <1>12, GuardIsSound DEF MoveStream, Calling, TypeOK
  <2> QED BY <2>1, <2>2
<1>13. ASSUME NEW c \in Conns, NEW t \in Txs, NEW h \in TxHandles, Begin(c, t, h)
      PROVE  Guarded'
  <2>1. TokenHasHandle'
    BY <1>13 DEF Begin, TokenHasHandle, TypeOK, ConnObjects
  <2>2. OnlyReads'
    BY <1>13 DEF Begin
  <2> QED BY <2>1, <2>2
<1>14. ASSUME NEW t \in Txs, NEW r \in Outcomes, TxQuery(t, r)
      PROVE  Guarded'
  <2>1. TokenHasHandle'
    BY <1>14 DEF TxQuery, TokenHasHandle, TypeOK, ConnObjects
  <2>2. OnlyReads'
    BY <1>14, GuardIsSound DEF TxQuery, Calling, TypeOK
  <2> QED BY <2>1, <2>2
<1>15. ASSUME NEW t \in Txs, NEW r \in Outcomes, TxFinish(t, r)
      PROVE  Guarded'
  <2>1. TokenHasHandle'
    BY <1>15 DEF TxFinish, TokenHasHandle, TypeOK, ConnObjects
  <2>2. OnlyReads'
    BY <1>15, GuardIsSound DEF TxFinish, Finish, Calling, TypeOK
  <2> QED BY <2>1, <2>2
<1>16. ASSUME NEW t \in Txs, NEW r \in Outcomes, DestroyTx(t, r)
      PROVE  Guarded'
  <2>1. TokenHasHandle'
    BY <1>16 DEF DestroyTx, TokenHasHandle, TypeOK, ConnObjects
  <2>2. OnlyReads'
    BY <1>16, GuardIsSound DEF DestroyTx, Finish, Calling, TypeOK
  <2> QED BY <2>1, <2>2
<1>17. ASSUME NEW t \in Txs, NEW u \in Txs, MoveTx(t, u)
      PROVE  Guarded'
  <2>1. TokenHasHandle'
    BY <1>17 DEF MoveTx, TokenHasHandle, TypeOK, ConnObjects
  <2>2. OnlyReads'
    BY <1>17 DEF MoveTx
  <2> QED BY <2>1, <2>2
<1>18. CASE UNCHANGED vars
  BY <1>18 DEF vars, TokenHasHandle
<1> QED
  BY <1>1, <1>2, <1>3, <1>4, <1>5, <1>6, <1>7, <1>8, <1>9, <1>10, <1>11, <1>12, <1>13,
     <1>14, <1>15, <1>16, <1>17, <1>18 DEF Next, ConnNext, StreamNext, TxNext

-----------------------------------------------------------------------------
\* A client that keeps the documented order: what is borrowed is up.
BorrowedIsUp == \A e \in Engines : Borrowed(e) => RuntimeUp(e)

\* Then every reader and transaction in an object may be called and killed.
LEMMA HeldIsUp ==
  ASSUME Base, Shared, BorrowedIsUp
  PROVE  /\ \A s \in Streams : strm[s].h # Null =>
               RuntimeUp(heng[strm[s].h]) /\ ~Expired(strm[s].alive)
         /\ \A t \in Txs : tx[t].h # Null =>
               RuntimeUp(heng[tx[t].h]) /\ ~Expired(tx[t].alive)
<1>1. \A s \in Streams : strm[s].h # Null => RuntimeUp(heng[strm[s].h])
  BY HeldHandles DEF BorrowedIsUp, Borrowed
<1>2. \A t \in Txs : tx[t].h # Null => RuntimeUp(heng[tx[t].h])
  BY HeldHandles DEF BorrowedIsUp, Borrowed
<1> QED BY <1>1, <1>2, RefusedIsDead

SessionsStayOpen ==
    \A h \in SessionHandles :
        hstate[h] = "open" => hstate'[h] = "open" /\ heng'[h] = heng[h]

\* Where no engine's reference count goes down, only a new borrower counts.
LEMMA BorrowedIsUpKept ==
  ASSUME Base, BorrowedIsUp,
         SessionsStayOpen,
         \A e \in Engines : Borrowed(e)' => Borrowed(e) \/ RuntimeUp(e)
  PROVE  BorrowedIsUp'
  BY DEF BorrowedIsUp, RuntimeUp, SessionsStayOpen

\* Where a session goes, the client made sure that its engine stays up or is
\* not borrowed.
LEMMA BorrowedIsUpDrop ==
  ASSUME orderly, Base, BorrowedIsUp, NEW g \in SessionHandles, MayDrop(g),
         UNCHANGED <<heng, strm, tx>>, hstate[g] = "open",
         \A h \in SessionHandles \ {g} : hstate'[h] = hstate[h]
  PROVE  BorrowedIsUp'
<1> SUFFICES ASSUME NEW e \in Engines, Borrowed(e) PROVE RuntimeUp(e)'
  BY DEF BorrowedIsUp, Borrowed
<1>1. PICK h \in SessionHandles : hstate[h] = "open" /\ heng[h] = e
  BY DEF BorrowedIsUp, RuntimeUp
<1>2. CASE h # g
  BY <1>1, <1>2 DEF RuntimeUp
<1>3. CASE h = g
  BY <1>1, <1>3, LifecycleAssumption DEF RuntimeUp, MayDrop, Handles
<1> QED BY <1>2, <1>3

StreamsOwned ==
    \A h \in StreamHandles : hstate[h] = "open" => \E s \in Streams : strm[s].h = h

TxsOwned == \A h \in TxHandles : hstate[h] = "open" => \E t \in Txs : tx[t].h = h

Ordered == BorrowedIsUp /\ deadCalls = {} /\ StreamsOwned /\ TxsOwned

\* The second discipline keeps it so through every step.
LEMMA OrderedStep ==
  ASSUME orderly, Base, Shared, Ordered, [Next]_vars
  PROVE  Ordered'
<1> USE LifecycleAssumption DEF Base, Ordered, Handles, Allocate, Release
<1>1. ASSUME NEW c \in Conns, NEW h \in SessionHandles, NEW e \in Engines, Connect(c, h, e)
      PROVE  Ordered'
  <2>1. BorrowedIsUp'
    <3>1. SessionsStayOpen
      BY <1>1 DEF SessionsStayOpen, Connect, TypeOK, ConnObjects, StreamObjects, TxObjects
    <3>2. \A k \in Engines : Borrowed(k)' => Borrowed(k) \/ RuntimeUp(k)
      BY <1>1 DEF Connect, TypeOK, ConnObjects, StreamObjects, TxObjects, Borrowed,
         RuntimeUp, SoleOwner, EngineKnown
    <3> QED BY <3>1, <3>2, BorrowedIsUpKept
  <2>2. deadCalls' = {}
    BY <1>1 DEF Connect
  <2>3. StreamsOwned'
    BY <1>1 DEF Connect, StreamsOwned, TypeOK, ConnObjects, StreamObjects, TxObjects
  <2>4. TxsOwned'
    BY <1>1 DEF Connect, TxsOwned, TypeOK, ConnObjects, StreamObjects, TxObjects
  <2> QED BY <2>1, <2>2, <2>3, <2>4
<1>2. ASSUME NEW c \in Conns, NEW d \in Conns, NEW h \in SessionHandles, Fork(c, d, h)
      PROVE  Ordered'
  <2>1. BorrowedIsUp'
    <3>1. SessionsStayOpen
      BY <1>2 DEF SessionsStayOpen, Fork, TypeOK, ConnObjects, StreamObjects, TxObjects
    <3>2. \A k \in Engines : Borrowed(k)' => Borrowed(k) \/ RuntimeUp(k)
      BY <1>2 DEF Fork, TypeOK, ConnObjects, StreamObjects, TxObjects, Borrowed,
         RuntimeUp, SoleOwner, EngineKnown
    <3> QED BY <3>1, <3>2, BorrowedIsUpKept
  <2>2. deadCalls' = {}
    BY <1>2 DEF Fork
  <2>3. StreamsOwned'
    BY <1>2 DEF Fork, StreamsOwned, TypeOK, ConnObjects, StreamObjects, TxObjects
  <2>4. TxsOwned'
    BY <1>2 DEF Fork, TxsOwned, TypeOK, ConnObjects, StreamObjects, TxObjects
  <2> QED BY <2>1, <2>2, <2>3, <2>4
<1>3. ASSUME NEW c \in Conns, ConnCallFatal(c)
      PROVE  Ordered'
  <2>1. BorrowedIsUp'
    <3>1. SessionsStayOpen
      BY <1>3 DEF SessionsStayOpen, ConnCallFatal, TypeOK, ConnObjects, StreamObjects, TxObjects
    <3>2. \A k \in Engines : Borrowed(k)' => Borrowed(k) \/ RuntimeUp(k)
      BY <1>3 DEF ConnCallFatal, TypeOK, ConnObjects, StreamObjects, TxObjects, Borrowed,
         RuntimeUp, SoleOwner, EngineKnown
    <3> QED BY <3>1, <3>2, BorrowedIsUpKept
  <2>2. deadCalls' = {}
    BY <1>3 DEF ConnCallFatal
  <2>3. StreamsOwned'
    BY <1>3 DEF ConnCallFatal, StreamsOwned, TypeOK, ConnObjects, StreamObjects, TxObjects
  <2>4. TxsOwned'
    BY <1>3 DEF ConnCallFatal, TxsOwned, TypeOK, ConnObjects, StreamObjects, TxObjects
  <2> QED BY <2>1, <2>2, <2>3, <2>4
<1>4. ASSUME NEW c \in Conns, Disconnect(c)
      PROVE  Ordered'
  <2>1. BorrowedIsUp'
    <3>1. CASE conn[c].db = Null
      BY <1>4, <3>1 DEF Disconnect, BorrowedIsUp, Borrowed, RuntimeUp
    <3>2. CASE conn[c].db # Null
      <4>1. conn[c].db \in SessionHandles /\ hstate[conn[c].db] = "open"
        BY <3>2 DEF TypeOK, ConnObjects, SoleOwner
      <4>2. UNCHANGED <<heng, strm, tx>> /\ MayDrop(conn[c].db)
        BY <1>4 DEF Disconnect
      <4>3. \A h \in SessionHandles \ {conn[c].db} : hstate'[h] = hstate[h]
        BY <1>4, <3>2 DEF Disconnect, TypeOK
      <4> QED BY <4>1, <4>2, <4>3, BorrowedIsUpDrop
    <3> QED BY <3>1, <3>2
  <2>2. deadCalls' = {}
    BY <1>4 DEF Disconnect
  <2>3. StreamsOwned'
    BY <1>4 DEF Disconnect, StreamsOwned, TypeOK, ConnObjects, StreamObjects, TxObjects
  <2>4. TxsOwned'
    BY <1>4 DEF Disconnect, TxsOwned, TypeOK, ConnObjects, StreamObjects, TxObjects
  <2> QED BY <2>1, <2>2, <2>3, <2>4
<1>5. ASSUME NEW c \in Conns, DestroyConn(c)
      PROVE  Ordered'
  <2>1. BorrowedIsUp'
    <3>1. CASE conn[c].db = Null
      BY <1>5, <3>1 DEF DestroyConn, BorrowedIsUp, Borrowed, RuntimeUp
    <3>2. CASE conn[c].db # Null
      <4>1. conn[c].db \in SessionHandles /\ hstate[conn[c].db] = "open"
        BY <3>2 DEF TypeOK, ConnObjects, SoleOwner
      <4>2. UNCHANGED <<heng, strm, tx>> /\ MayDrop(conn[c].db)
        BY <1>5 DEF DestroyConn
      <4>3. \A h \in SessionHandles \ {conn[c].db} : hstate'[h] = hstate[h]
        BY <1>5, <3>2 DEF DestroyConn, TypeOK
      <4> QED BY <4>1, <4>2, <4>3, BorrowedIsUpDrop
    <3> QED BY <3>1, <3>2
  <2>2. deadCalls' = {}
    BY <1>5 DEF DestroyConn
  <2>3. StreamsOwned'
    BY <1>5 DEF DestroyConn, NoConn, StreamsOwned, TypeOK, ConnObjects, StreamObjects,
       TxObjects
  <2>4. TxsOwned'
    BY <1>5 DEF DestroyConn, NoConn, TxsOwned, TypeOK, ConnObjects, StreamObjects, TxObjects
  <2> QED BY <2>1, <2>2, <2>3, <2>4
<1>6. ASSUME NEW c \in Conns, NEW d \in Conns, MoveConn(c, d)
      PROVE  Ordered'
  <2>1. BorrowedIsUp'
    <3>1. CASE conn[d].db = Null
      BY <1>6, <3>1 DEF MoveConn, BorrowedIsUp, Borrowed, RuntimeUp
    <3>2. CASE conn[d].db # Null
      <4>1. conn[d].db \in SessionHandles /\ hstate[conn[d].db] = "open"
        BY <3>2 DEF TypeOK, ConnObjects, SoleOwner
      <4>2. UNCHANGED <<heng, strm, tx>> /\ MayDrop(conn[d].db)
        BY <1>6 DEF MoveConn
      <4>3. \A h \in SessionHandles \ {conn[d].db} : hstate'[h] = hstate[h]
        BY <1>6, <3>2 DEF MoveConn, TypeOK
      <4> QED BY <4>1, <4>2, <4>3, BorrowedIsUpDrop
    <3> QED BY <3>1, <3>2
  <2>2. deadCalls' = {}
    BY <1>6 DEF MoveConn
  <2>3. StreamsOwned'
    BY <1>6 DEF MoveConn, NoConn, StreamsOwned, TypeOK, ConnObjects, StreamObjects,
       TxObjects
  <2>4. TxsOwned'
    BY <1>6 DEF MoveConn, NoConn, TxsOwned, TypeOK, ConnObjects, StreamObjects, TxObjects
  <2> QED BY <2>1, <2>2, <2>3, <2>4
<1>7. ASSUME NEW c \in Conns, NEW s \in Streams, NEW h \in StreamHandles, Live(c, s, h)
      PROVE  Ordered'
  <2>1. BorrowedIsUp'
    <3>1. SessionsStayOpen
      BY <1>7 DEF SessionsStayOpen, Live, TypeOK, ConnObjects, StreamObjects, TxObjects
    <3>2. \A k \in Engines : Borrowed(k)' => Borrowed(k) \/ RuntimeUp(k)
      BY <1>7 DEF Live, TypeOK, ConnObjects, StreamObjects, TxObjects, Borrowed,
         RuntimeUp, SoleOwner, EngineKnown
    <3> QED BY <3>1, <3>2, BorrowedIsUpKept
  <2>2. deadCalls' = {}
    BY <1>7 DEF Live
  <2>3. StreamsOwned'
    <3> SUFFICES ASSUME NEW g \in StreamHandles, hstate'[g] = "open"
                 PROVE  \E k \in Streams : strm'[k].h = g
      BY DEF StreamsOwned
    <3>1. CASE g = h
      BY <1>7, <3>1 DEF Live, TypeOK
    <3>2. CASE g # h
      <4>1. PICK k \in Streams : strm[k].h = g
        BY <1>7, <3>2 DEF Live, StreamsOwned, TypeOK
      <4>2. k # s
        BY <1>7, <4>1 DEF Live, NoStream
      <4> QED BY <1>7, <4>1, <4>2 DEF Live, TypeOK
    <3> QED BY <3>1, <3>2
  <2>4. TxsOwned'
    BY <1>7 DEF Live, TxsOwned, TypeOK, ConnObjects, StreamObjects, TxObjects
  <2> QED BY <2>1, <2>2, <2>3, <2>4
<1>8. ASSUME NEW s \in Streams, ReadEvent(s)
      PROVE  Ordered'
  <2>1. BorrowedIsUp'
    <3>1. SessionsStayOpen
      BY <1>8 DEF SessionsStayOpen, ReadEvent, Calling, TypeOK, ConnObjects, StreamObjects, TxObjects
    <3>2. \A k \in Engines : Borrowed(k)' => Borrowed(k) \/ RuntimeUp(k)
      BY <1>8 DEF ReadEvent, Calling, TypeOK, ConnObjects, StreamObjects, TxObjects,
         Borrowed, RuntimeUp, SoleOwner, EngineKnown
    <3> QED BY <3>1, <3>2, BorrowedIsUpKept
  <2>2. deadCalls' = {}
    BY <1>8, HeldIsUp DEF ReadEvent, CanRead, Calling
  <2>3. StreamsOwned'
    BY <1>8 DEF ReadEvent, StreamsOwned, TypeOK, ConnObjects, StreamObjects, TxObjects
  <2>4. TxsOwned'
    BY <1>8 DEF ReadEvent, TxsOwned, TypeOK, ConnObjects, StreamObjects, TxObjects
  <2> QED BY <2>1, <2>2, <2>3, <2>4
<1>9. ASSUME NEW s \in Streams, NEW r \in Outcomes, ReadEnd(s, r)
      PROVE  Ordered'
  <2>1. BorrowedIsUp'
    <3>1. SessionsStayOpen
      BY <1>9 DEF SessionsStayOpen, ReadEnd, TypeOK, ConnObjects, StreamObjects, TxObjects
    <3>2. \A k \in Engines : Borrowed(k)' => Borrowed(k) \/ RuntimeUp(k)
      BY <1>9 DEF ReadEnd, TypeOK, ConnObjects, StreamObjects, TxObjects, Borrowed,
         RuntimeUp, SoleOwner, EngineKnown
    <3> QED BY <3>1, <3>2, BorrowedIsUpKept
  <2>2. deadCalls' = {}
    BY <1>9, HeldIsUp DEF ReadEnd, CanRead, Calling
  <2>3. StreamsOwned'
    BY <1>9 DEF ReadEnd, StreamsOwned, TypeOK, ConnObjects, StreamObjects, TxObjects
  <2>4. TxsOwned'
    BY <1>9 DEF ReadEnd, TxsOwned, TypeOK, ConnObjects, StreamObjects, TxObjects
  <2> QED BY <2>1, <2>2, <2>3, <2>4
<1>10. ASSUME NEW s \in Streams, CloseStream(s)
      PROVE  Ordered'
  <2>1. BorrowedIsUp'
    <3>1. SessionsStayOpen
      BY <1>10 DEF SessionsStayOpen, CloseStream, Retire, TypeOK, ConnObjects, StreamObjects, TxObjects
    <3>2. \A k \in Engines : Borrowed(k)' => Borrowed(k) \/ RuntimeUp(k)
      BY <1>10 DEF CloseStream, Retire, TypeOK, ConnObjects, StreamObjects, TxObjects,
         Borrowed, RuntimeUp, SoleOwner, EngineKnown
    <3> QED BY <3>1, <3>2, BorrowedIsUpKept
  <2>2. deadCalls' = {}
    BY <1>10, HeldIsUp DEF CloseStream, Retire, Calling
  <2>3. StreamsOwned'
    <3> SUFFICES ASSUME NEW g \in StreamHandles, hstate'[g] = "open"
                 PROVE  \E k \in Streams : strm'[k].h = g
      BY DEF StreamsOwned
    <3>1. hstate[g] = "open" /\ g # strm[s].h
      BY <1>10, HeldIsUp DEF CloseStream, Retire, TypeOK, StreamObjects, TxObjects
    <3>2. PICK k \in Streams : strm[k].h = g
      BY <3>1 DEF StreamsOwned
    <3> QED BY <1>10, <3>1, <3>2 DEF CloseStream, TypeOK
  <2>4. TxsOwned'
    BY <1>10 DEF CloseStream, Retire, TxsOwned, TypeOK, ConnObjects, StreamObjects,
       TxObjects
  <2> QED BY <2>1, <2>2, <2>3, <2>4
<1>11. ASSUME NEW s \in Streams, DestroyStream(s)
      PROVE  Ordered'
  <2>1. BorrowedIsUp'
    <3>1. SessionsStayOpen
      BY <1>11 DEF SessionsStayOpen, DestroyStream, Retire, NoStream, TypeOK, ConnObjects, StreamObjects,
         TxObjects
    <3>2. \A k \in Engines : Borrowed(k)' => Borrowed(k) \/ RuntimeUp(k)
      BY <1>11 DEF DestroyStream, Retire, NoStream, TypeOK, ConnObjects, StreamObjects,
         TxObjects, Borrowed, RuntimeUp, SoleOwner, EngineKnown
    <3> QED BY <3>1, <3>2, BorrowedIsUpKept
  <2>2. deadCalls' = {}
    BY <1>11, HeldIsUp DEF DestroyStream, Retire, Calling
  <2>3. StreamsOwned'
    <3> SUFFICES ASSUME NEW g \in StreamHandles, hstate'[g] = "open"
                 PROVE  \E k \in Streams : strm'[k].h = g
      BY DEF StreamsOwned
    <3>1. hstate[g] = "open" /\ g # strm[s].h
      BY <1>11, HeldIsUp DEF DestroyStream, Retire, NoStream, TypeOK, StreamObjects,
         TxObjects
    <3>2. PICK k \in Streams : strm[k].h = g
      BY <3>1 DEF StreamsOwned
    <3> QED BY <1>11, <3>1, <3>2 DEF DestroyStream, TypeOK
  <2>4. TxsOwned'
    BY <1>11 DEF DestroyStream, Retire, NoStream, TxsOwned, TypeOK, ConnObjects,
       StreamObjects, TxObjects
  <2> QED BY <2>1, <2>2, <2>3, <2>4
<1>12. ASSUME NEW s \in Streams, NEW d \in Streams, MoveStream(s, d)
      PROVE  Ordered'
  <2>1. BorrowedIsUp'
    <3>1. SessionsStayOpen
      BY <1>12 DEF SessionsStayOpen, MoveStream, NoStream, TypeOK, ConnObjects, StreamObjects, TxObjects
    <3>2. \A k \in Engines : Borrowed(k)' => Borrowed(k) \/ RuntimeUp(k)
      BY <1>12 DEF MoveStream, NoStream, TypeOK, ConnObjects, StreamObjects, TxObjects,
         Borrowed, RuntimeUp, SoleOwner, EngineKnown
    <3> QED BY <3>1, <3>2, BorrowedIsUpKept
  <2>2. deadCalls' = {}
    BY <1>12, HeldIsUp DEF MoveStream, Calling
  <2>3. StreamsOwned'
    <3> SUFFICES ASSUME NEW g \in StreamHandles, hstate'[g] = "open"
                 PROVE  \E k \in Streams : strm'[k].h = g
      BY DEF StreamsOwned
    <3>1. hstate[g] = "open" /\ g # strm[d].h
      BY <1>12 DEF MoveStream, NoStream, TypeOK, StreamObjects, TxObjects
    <3>2. PICK k \in Streams : strm[k].h = g
      BY <3>1 DEF StreamsOwned
    <3>3. CASE k = s
      BY <1>12, <3>2, <3>3 DEF MoveStream, TypeOK
    <3>4. CASE k # s
      <4>1. k # d
        BY <3>1, <3>2
      <4> QED BY <1>12, <3>2, <3>4, <4>1 DEF MoveStream, TypeOK
    <3> QED BY <3>3, <3>4
  <2>4. TxsOwned'
    BY <1>12 DEF MoveStream, NoStream, TxsOwned, TypeOK, ConnObjects, StreamObjects,
       TxObjects
  <2> QED BY <2>1, <2>2, <2>3, <2>4
<1>13. ASSUME NEW c \in Conns, NEW t \in Txs, NEW h \in TxHandles, Begin(c, t, h)
      PROVE  Ordered'
  <2>1. BorrowedIsUp'
    <3>1. SessionsStayOpen
      BY <1>13 DEF SessionsStayOpen, Begin, TypeOK, ConnObjects, StreamObjects, TxObjects
    <3>2. \A k \in Engines : Borrowed(k)' => Borrowed(k) \/ RuntimeUp(k)
      BY <1>13 DEF Begin, TypeOK, ConnObjects, StreamObjects, TxObjects, Borrowed,
         RuntimeUp, SoleOwner, EngineKnown
    <3> QED BY <3>1, <3>2, BorrowedIsUpKept
  <2>2. deadCalls' = {}
    BY <1>13 DEF Begin
  <2>3. StreamsOwned'
    BY <1>13 DEF Begin, StreamsOwned, TypeOK, ConnObjects, StreamObjects, TxObjects
  <2>4. TxsOwned'
    <3> SUFFICES ASSUME NEW g \in TxHandles, hstate'[g] = "open"
                 PROVE  \E k \in Txs : tx'[k].h = g
      BY DEF TxsOwned
    <3>1. CASE g = h
      BY <1>13, <3>1 DEF Begin, TypeOK
    <3>2. CASE g # h
      <4>1. PICK k \in Txs : tx[k].h = g
        BY <1>13, <3>2 DEF Begin, TxsOwned, TypeOK
      <4>2. k # t
        BY <1>13, <4>1 DEF Begin, NoTx
      <4> QED BY <1>13, <4>1, <4>2 DEF Begin, TypeOK
    <3> QED BY <3>1, <3>2
  <2> QED BY <2>1, <2>2, <2>3, <2>4
<1>14. ASSUME NEW t \in Txs, NEW r \in Outcomes, TxQuery(t, r)
      PROVE  Ordered'
  <2>1. BorrowedIsUp'
    <3>1. SessionsStayOpen
      BY <1>14 DEF SessionsStayOpen, TxQuery, TypeOK, ConnObjects, StreamObjects, TxObjects
    <3>2. \A k \in Engines : Borrowed(k)' => Borrowed(k) \/ RuntimeUp(k)
      BY <1>14 DEF TxQuery, TypeOK, ConnObjects, StreamObjects, TxObjects, Borrowed,
         RuntimeUp, SoleOwner, EngineKnown
    <3> QED BY <3>1, <3>2, BorrowedIsUpKept
  <2>2. deadCalls' = {}
    BY <1>14, HeldIsUp DEF TxQuery, Calling
  <2>3. StreamsOwned'
    BY <1>14 DEF TxQuery, StreamsOwned, TypeOK, ConnObjects, StreamObjects, TxObjects
  <2>4. TxsOwned'
    BY <1>14 DEF TxQuery, TxsOwned, TypeOK, ConnObjects, StreamObjects, TxObjects
  <2> QED BY <2>1, <2>2, <2>3, <2>4
<1>15. ASSUME NEW t \in Txs, NEW r \in Outcomes, TxFinish(t, r)
      PROVE  Ordered'
  <2>1. BorrowedIsUp'
    <3>1. SessionsStayOpen
      BY <1>15 DEF SessionsStayOpen, TxFinish, Finish, TypeOK, ConnObjects, StreamObjects, TxObjects
    <3>2. \A k \in Engines : Borrowed(k)' => Borrowed(k) \/ RuntimeUp(k)
      BY <1>15 DEF TxFinish, Finish, TypeOK, ConnObjects, StreamObjects, TxObjects,
         Borrowed, RuntimeUp, SoleOwner, EngineKnown
    <3> QED BY <3>1, <3>2, BorrowedIsUpKept
  <2>2. deadCalls' = {}
    BY <1>15, HeldIsUp DEF TxFinish, Finish, Calling
  <2>3. StreamsOwned'
    BY <1>15 DEF TxFinish, Finish, StreamsOwned, TypeOK, ConnObjects, StreamObjects,
       TxObjects
  <2>4. TxsOwned'
    <3> SUFFICES ASSUME NEW g \in TxHandles, hstate'[g] = "open"
                 PROVE  \E k \in Txs : tx'[k].h = g
      BY DEF TxsOwned
    <3>1. hstate[g] = "open" /\ g # tx[t].h
      BY <1>15, HeldIsUp DEF TxFinish, Finish, TypeOK, StreamObjects, TxObjects
    <3>2. PICK k \in Txs : tx[k].h = g
      BY <3>1 DEF TxsOwned
    <3> QED BY <1>15, <3>1, <3>2 DEF TxFinish, TypeOK
  <2> QED BY <2>1, <2>2, <2>3, <2>4
<1>16. ASSUME NEW t \in Txs, NEW r \in Outcomes, DestroyTx(t, r)
      PROVE  Ordered'
  <2>1. BorrowedIsUp'
    <3>1. SessionsStayOpen
      BY <1>16 DEF SessionsStayOpen, DestroyTx, Finish, NoTx, TypeOK, ConnObjects, StreamObjects, TxObjects
    <3>2. \A k \in Engines : Borrowed(k)' => Borrowed(k) \/ RuntimeUp(k)
      BY <1>16 DEF DestroyTx, Finish, NoTx, TypeOK, ConnObjects, StreamObjects, TxObjects,
         Borrowed, RuntimeUp, SoleOwner, EngineKnown
    <3> QED BY <3>1, <3>2, BorrowedIsUpKept
  <2>2. deadCalls' = {}
    BY <1>16, HeldIsUp DEF DestroyTx, Finish, Calling
  <2>3. StreamsOwned'
    BY <1>16 DEF DestroyTx, Finish, NoTx, StreamsOwned, TypeOK, ConnObjects,
       StreamObjects, TxObjects
  <2>4. TxsOwned'
    <3> SUFFICES ASSUME NEW g \in TxHandles, hstate'[g] = "open"
                 PROVE  \E k \in Txs : tx'[k].h = g
      BY DEF TxsOwned
    <3>1. hstate[g] = "open" /\ g # tx[t].h
      BY <1>16, HeldIsUp DEF DestroyTx, Finish, NoTx, TypeOK, StreamObjects, TxObjects
    <3>2. PICK k \in Txs : tx[k].h = g
      BY <3>1 DEF TxsOwned
    <3> QED BY <1>16, <3>1, <3>2 DEF DestroyTx, TypeOK
  <2> QED BY <2>1, <2>2, <2>3, <2>4
<1>17. ASSUME NEW t \in Txs, NEW u \in Txs, MoveTx(t, u)
      PROVE  Ordered'
  <2>1. BorrowedIsUp'
    <3>1. SessionsStayOpen
      BY <1>17 DEF SessionsStayOpen, MoveTx, NoTx, TypeOK, ConnObjects, StreamObjects, TxObjects
    <3>2. \A k \in Engines : Borrowed(k)' => Borrowed(k) \/ RuntimeUp(k)
      BY <1>17 DEF MoveTx, NoTx, TypeOK, ConnObjects, StreamObjects, TxObjects, Borrowed,
         RuntimeUp, SoleOwner, EngineKnown
    <3> QED BY <3>1, <3>2, BorrowedIsUpKept
  <2>2. deadCalls' = {}
    BY <1>17 DEF MoveTx
  <2>3. StreamsOwned'
    BY <1>17 DEF MoveTx, StreamsOwned, TypeOK, ConnObjects, StreamObjects, TxObjects
  <2>4. TxsOwned'
    <3> SUFFICES ASSUME NEW g \in TxHandles, hstate'[g] = "open"
                 PROVE  \E k \in Txs : tx'[k].h = g
      BY DEF TxsOwned
    <3>1. hstate[g] = "open" /\ g # tx[u].h
      BY <1>17 DEF MoveTx, NoTx, TypeOK, StreamObjects, TxObjects
    <3>2. PICK k \in Txs : tx[k].h = g
      BY <3>1 DEF TxsOwned
    <3>3. CASE k = t
      BY <1>17, <3>2, <3>3 DEF MoveTx, TypeOK
    <3>4. CASE k # t
      <4>1. k # u
        BY <3>1, <3>2
      <4> QED BY <1>17, <3>2, <3>4, <4>1 DEF MoveTx, TypeOK
    <3> QED BY <3>3, <3>4
  <2> QED BY <2>1, <2>2, <2>3, <2>4
<1>18. CASE UNCHANGED vars
  BY <1>18 DEF vars, BorrowedIsUp, Borrowed, RuntimeUp, StreamsOwned, TxsOwned
<1> QED
  BY <1>1, <1>2, <1>3, <1>4, <1>5, <1>6, <1>7, <1>8, <1>9, <1>10, <1>11, <1>12, <1>13,
     <1>14, <1>15, <1>16, <1>17, <1>18 DEF Next, ConnNext, StreamNext, TxNext
-----------------------------------------------------------------------------
\* What every client gets: the theorems.

\* The invariant of every client.
LEMMA Invariant == Spec => [](Base /\ Shared /\ LeftBehind)
<1>1. Init => Base /\ Shared /\ LeftBehind
  BY BaseInit, SharedInit DEF LeftBehind, Abandoned, Init, Handles
<1>2. (Base /\ Shared /\ LeftBehind) /\ [Next]_vars => (Base /\ Shared /\ LeftBehind)'
  BY BaseStep, SharedStep, LeftBehindStep
<1> QED BY <1>1, <1>2, PTL DEF Spec

\* Every variable keeps its type.
THEOREM TypeCorrect == Spec => []TypeOK
<1>1. Base => TypeOK
  BY DEF Base
<1> QED BY <1>1, Invariant, PTL

\* No handle is freed twice, used after it was freed or held by two objects,
\* whatever is moved, closed, assigned or destroyed in whatever order.
THEOREM HandlesHaveOneOwner == Spec => []SoleOwner
<1>1. Base => SoleOwner
  BY DEF Base
<1> QED BY <1>1, Invariant, PTL

\* While any session keeps an engine up its token is alive: streams and
\* transactions of a session that has gone stay usable.
THEOREM GuardNeverRefusesEarly == Spec => []GuardComplete
  BY GuardIsComplete, Invariant, PTL

\* A session is never lost, and a reader or a transaction only once its engine
\* has shut down.
THEOREM NothingLostWhileUp == Spec => []AbandonedOnlyWhenDead
<1>1. Base /\ Shared /\ LeftBehind => AbandonedOnlyWhenDead
  <2> SUFFICES ASSUME Base, Shared, LeftBehind, NEW h \in Handles, Abandoned(h)
               PROVE  h \notin SessionHandles /\ ~RuntimeUp(heng[h])
    BY DEF AbandonedOnlyWhenDead
  <2>1. h \notin SessionHandles
    BY DEF Abandoned, Owner, Shared, SessionsOwned
  <2> QED BY <2>1 DEF LeftBehind, Handles
<1> QED BY <1>1, Invariant, PTL

\* A connection reports poisoned() exactly when some call on its engine has
\* reported SR_FATAL, whoever made that call.
THEOREM PoisonIsShared == Spec => []FatalIsShared
<1>1. Base /\ Shared => FatalIsShared
  <2> SUFFICES ASSUME Base, Shared, NEW c \in Conns, conn[c].db # Null
               PROVE  Poisoned(c) <=> heng[conn[c].db] \in fatal
    BY DEF FatalIsShared
  <2>1. heng[conn[c].db] \in Engines /\ conn[c].poisoned = heng[conn[c].db]
    BY HeldHandles DEF Shared, TokensMatch
  <2> QED BY <2>1, LifecycleAssumption DEF Poisoned, Shared, CellsMatch
<1> QED BY <1>1, Invariant, PTL

-----------------------------------------------------------------------------
\* What a client gets in exchange for some discipline.

\* A client that neither disconnects an object it keeps nor assigns over a
\* stream that owns a reader needs no other care: in any order of destruction
\* the token keeps kills, transaction statements, commits and cancels off a
\* runtime that has shut down.
THEOREM GuardedTeardown == Spec => []TokenGuards
<1>1. Init => (careful => Guarded)
  BY DEF Init, Guarded, TokenHasHandle, NoConn, OnlyReads
<1>2. Base /\ Shared /\ (careful => Guarded) /\ [Next]_vars => (careful => Guarded)'
  <2> SUFFICES ASSUME Base, Shared, careful => Guarded, [Next]_vars, careful'
               PROVE  Guarded'
    OBVIOUS
  <2>1. careful
    BY DEF Next, vars
  <2> QED BY <2>1, GuardedStep
<1>3. (careful => Guarded) => TokenGuards
  BY DEF Guarded, OnlyReads, TokenGuards
<1> QED BY <1>1, <1>2, <1>3, Invariant, PTL DEF Spec

\* Keeping a connection until what it opened is gone is enough for everything:
\* no call of any kind reaches a dead runtime and no handle is left behind.
THEOREM OrderedTeardownSuffices == Spec => []OrderedTeardownIsClean
<1>1. Init => (orderly => Ordered)
  BY DEF Init, Ordered, BorrowedIsUp, Borrowed, NoStream, NoTx, StreamsOwned, TxsOwned,
     Handles
<1>2. Base /\ Shared /\ (orderly => Ordered) /\ [Next]_vars => (orderly => Ordered)'
  <2> SUFFICES ASSUME Base, Shared, orderly => Ordered, [Next]_vars, orderly'
               PROVE  Ordered'
    OBVIOUS
  <2>1. orderly
    BY DEF Next, vars
  <2> QED BY <2>1, OrderedStep
<1>3. Shared /\ (orderly => Ordered) => OrderedTeardownIsClean
  BY DEF Shared, SessionsOwned, Ordered, StreamsOwned, TxsOwned, OrderedTeardownIsClean,
         Abandoned, Owner, Handles
<1> QED BY <1>1, <1>2, <1>3, Invariant, PTL DEF Spec

-----------------------------------------------------------------------------
\* The objects of a careful client implement HandleProtocol.  What becomes of a
\* handle in the protocol follows from its state and from whether some object still
\* holds it.  An action changes both for one handle at most, so it is one of four
\* steps: it opens a handle, gives one back, leaves one behind, or does none of
\* these.  Each of the four has a lemma, and every action is an instance of one.

\* What has become of a handle, in the words of HandleProtocol.
Stage(h) ==
    IF hstate[h] = "freed" THEN "closed"
    ELSE IF Abandoned(h) THEN "abandoned"
    ELSE hstate[h]

\* Outside S every open handle that has an owner keeps one, and no other gets one.
OwnersKept(S) ==
    \A g \in Handles \ S : hstate[g] = "open" => (Owner(g)' <=> Owner(g))

\* Sessions are never left behind, so the protocol counts as Lifecycle does.
LEMMA UpIsUp ==
  ASSUME Base, Shared, NEW e
  PROVE  Protocol!Up(e) <=> RuntimeUp(e)
<1>1. \A h \in SessionHandles : hstate[h] = "open" => Owner(h)
  BY DEF Shared, SessionsOwned, Owner
<1>2. \A h \in SessionHandles : Stage(h) = "open" <=> hstate[h] = "open"
  BY <1>1 DEF Stage, Abandoned
<1> QED BY <1>2 DEF Protocol!Up, RuntimeUp, Stage, Handles

\* Nothing is opened, given back or left behind.
LEMMA Stutters ==
  ASSUME hstate' = hstate, heng' = heng,
         OwnersKept({})
  PROVE  UNCHANGED Protocol!vars
<1>1. \A g \in Handles : Stage(g)' = Stage(g)
  BY DEF Stage, Abandoned, OwnersKept
<1> QED BY <1>1 DEF Protocol!vars, Stage

\* A handle is opened and held.
LEMMA Opens ==
  ASSUME Base, NEW h \in Handles, NEW e \in Engines, Allocate(h, e), Owner(h)',
         OwnersKept({h})
  PROVE  Protocol!Open(h, e)
<1>1. hstate[h] = "unused" /\ hstate'[h] = "open" /\ heng' = [heng EXCEPT ![h] = e]
  BY DEF Allocate, Base, TypeOK
<1>2. \A g \in Handles \ {h} : hstate'[g] = hstate[g]
  BY DEF Allocate, Base, TypeOK
<1>3. Stage(h) = "unused"
  BY <1>1 DEF Stage, Abandoned
<1>4. Stage(h)' = "open"
  BY <1>1 DEF Stage, Abandoned
<1>5. \A g \in Handles \ {h} : Stage(g)' = Stage(g)
  BY <1>2 DEF Stage, Abandoned, OwnersKept
<1> QED BY <1>1, <1>3, <1>4, <1>5 DEF Protocol!Open, Stage

\* A handle is given back; a reader or a transaction to an engine that is up.
LEMMA Closes ==
  ASSUME Base, Shared, NEW h \in Handles, hstate[h] = "open", Owner(h), Release(h),
         heng' = heng, OwnersKept({h}), h \in SessionHandles \/ RuntimeUp(heng[h])
  PROVE  Protocol!Close(h)
<1>1. hstate'[h] = "freed" /\ \A g \in Handles \ {h} : hstate'[g] = hstate[g]
  BY DEF Release, Base, TypeOK
<1>2. Stage(h) = "open" /\ Stage(h)' = "closed"
  BY <1>1 DEF Stage, Abandoned
<1>3. \A g \in Handles \ {h} : Stage(g)' = Stage(g)
  BY <1>1 DEF Stage, Abandoned, OwnersKept
<1>4. h \in StreamHandles \cup TxHandles => Protocol!Up(heng[h])
  BY UpIsUp, LifecycleAssumption
<1>5. \A g \in Handles : Stage(g)' = IF g = h THEN "closed" ELSE Stage(g)
  BY <1>2, <1>3
<1>6. heng' = heng /\ h \in Handles
  OBVIOUS
<1> QED BY <1>2, <1>4, <1>5, <1>6 DEF Protocol!Close, Stage

\* A reader or a transaction is left behind, its engine down.
LEMMA Abandons ==
  ASSUME Base, Shared, NEW h \in StreamHandles \cup TxHandles, hstate[h] = "open", Owner(h),
         ~Owner(h)', hstate' = hstate, heng' = heng, OwnersKept({h}), ~RuntimeUp(heng[h])
  PROVE  Protocol!Abandon(h)
<1>1. Stage(h) = "open" /\ Stage(h)' = "abandoned"
  BY DEF Stage, Abandoned
<1>2. \A g \in Handles \ {h} : Stage(g)' = Stage(g)
  BY DEF Stage, Abandoned, OwnersKept
<1>3. ~Protocol!Up(heng[h])
  BY UpIsUp
<1> QED BY <1>1, <1>2, <1>3 DEF Protocol!Abandon, Stage, Handles

-----------------------------------------------------------------------------
\* Which handles keep their owners.

\* A step that writes connections only.
LEMMA ConnOwners ==
  ASSUME Base, Base', NEW S, UNCHANGED <<strm, tx>>,
         \A g \in SessionHandles \ S :
             (\E c \in Conns : conn'[c].db = g) <=> (\E c \in Conns : conn[c].db = g)
  PROVE  OwnersKept(S)
<1> SUFFICES ASSUME NEW g \in Handles \ S PROVE Owner(g)' <=> Owner(g)
  BY DEF OwnersKept
<1>1. CASE g \in SessionHandles
  BY <1>1 DEF Owner
<1>2. CASE g \in StreamHandles \cup TxHandles
  <2>1. ~(\E c \in Conns : conn[c].db = g) /\ ~(\E c \in Conns : conn'[c].db = g)
    BY <1>2, LifecycleAssumption DEF Base, TypeOK, ConnObjects, Handles
  <2> QED BY <2>1 DEF Owner
<1> QED BY <1>1, <1>2 DEF Handles

\* A step that writes streams only.
LEMMA StreamOwners ==
  ASSUME Base, Base', NEW S, UNCHANGED <<conn, tx>>,
         \A g \in StreamHandles \ S :
             (\E s \in Streams : strm'[s].h = g) <=> (\E s \in Streams : strm[s].h = g)
  PROVE  OwnersKept(S)
<1> SUFFICES ASSUME NEW g \in Handles \ S PROVE Owner(g)' <=> Owner(g)
  BY DEF OwnersKept
<1>1. CASE g \in StreamHandles
  BY <1>1 DEF Owner
<1>2. CASE g \in SessionHandles \cup TxHandles
  <2>1. ~(\E s \in Streams : strm[s].h = g) /\ ~(\E s \in Streams : strm'[s].h = g)
    BY <1>2, LifecycleAssumption DEF Base, TypeOK, StreamObjects, Handles
  <2> QED BY <2>1 DEF Owner
<1> QED BY <1>1, <1>2 DEF Handles

\* A step that writes transactions only.
LEMMA TxOwners ==
  ASSUME Base, Base', NEW S, UNCHANGED <<conn, strm>>,
         \A g \in TxHandles \ S :
             (\E t \in Txs : tx'[t].h = g) <=> (\E t \in Txs : tx[t].h = g)
  PROVE  OwnersKept(S)
<1> SUFFICES ASSUME NEW g \in Handles \ S PROVE Owner(g)' <=> Owner(g)
  BY DEF OwnersKept
<1>1. CASE g \in TxHandles
  BY <1>1 DEF Owner
<1>2. CASE g \in SessionHandles \cup StreamHandles
  <2>1. ~(\E t \in Txs : tx[t].h = g) /\ ~(\E t \in Txs : tx'[t].h = g)
    BY <1>2, LifecycleAssumption DEF Base, TypeOK, TxObjects, Handles
  <2> QED BY <2>1 DEF Owner
<1> QED BY <1>1, <1>2 DEF Handles
-----------------------------------------------------------------------------
\* The four steps, as steps of the protocol.
ProtocolStep == [Protocol!Next]_(Protocol!vars)

\* Opening the first session of an engine.
LEMMA StartsEngine ==
  ASSUME Base, NEW h \in SessionHandles, NEW e \in Engines, Allocate(h, e), Owner(h)',
         OwnersKept({h}), \A g \in Handles : heng[g] # e
  PROVE  ProtocolStep
<1>1. Protocol!Open(h, e)
  BY Opens DEF Handles
<1>2. Protocol!StartEngine(h, e)
  BY <1>1 DEF Protocol!StartEngine, Protocol!Handles, Handles
<1> QED BY <1>2 DEF ProtocolStep, Protocol!Next

\* Opening a handle on an engine that is up.
LEMMA OpensOnEngine ==
  ASSUME Base, Shared, NEW h \in Handles, NEW e \in Engines, Allocate(h, e), Owner(h)',
         OwnersKept({h}), RuntimeUp(e)
  PROVE  ProtocolStep
<1>1. Protocol!OpenOn(h, e)
  BY Opens, UpIsUp DEF Protocol!OpenOn
<1> QED BY <1>1 DEF ProtocolStep, Protocol!Next, Protocol!Handles, Handles

\* Giving a handle back.
LEMMA GivesBack ==
  ASSUME Base, Shared, NEW h \in Handles, hstate[h] = "open", Owner(h), Release(h),
         heng' = heng, OwnersKept({h}), h \in SessionHandles \/ RuntimeUp(heng[h])
  PROVE  ProtocolStep
  BY Closes DEF ProtocolStep, Protocol!Next, Protocol!Handles, Handles

\* Leaving a handle behind.
LEMMA LeavesBehind ==
  ASSUME Base, Shared, NEW h \in StreamHandles \cup TxHandles, hstate[h] = "open", Owner(h),
         ~Owner(h)', hstate' = hstate, heng' = heng, OwnersKept({h}), ~RuntimeUp(heng[h])
  PROVE  ProtocolStep
  BY Abandons DEF ProtocolStep, Protocol!Next

-----------------------------------------------------------------------------
\* A handle in an object is open.
LEMMA HeldIsOpen ==
  ASSUME Base
  PROVE  /\ \A c \in Conns : conn[c].db # Null =>
               conn[c].db \in SessionHandles /\ hstate[conn[c].db] = "open" /\ Owner(conn[c].db)
         /\ \A s \in Streams : strm[s].h # Null =>
               strm[s].h \in StreamHandles /\ hstate[strm[s].h] = "open" /\ Owner(strm[s].h)
         /\ \A t \in Txs : tx[t].h # Null =>
               tx[t].h \in TxHandles /\ hstate[tx[t].h] = "open" /\ Owner(tx[t].h)
  BY DEF Base, TypeOK, ConnObjects, StreamObjects, TxObjects, SoleOwner, Owner

\* A connection with a handle has an engine that is up.
LEMMA ConnectedIsUp ==
  ASSUME Base, NEW c \in Conns, conn[c].db # Null
  PROVE  heng[conn[c].db] \in Engines /\ RuntimeUp(heng[conn[c].db])
  BY HeldIsOpen, HeldHandles DEF RuntimeUp

\* A step in which connection c goes from one handle, or none, to none.
LEMMA ConnLetsGo ==
  ASSUME Base, Base', Shared, NEW c \in Conns, UNCHANGED <<heng, strm, tx>>,
         IF conn[c].db # Null THEN Release(conn[c].db) ELSE UNCHANGED hstate,
         conn'[c].db = Null, \A d \in Conns \ {c} : conn'[d].db = conn[d].db
  PROVE  ProtocolStep
<1> USE LifecycleAssumption DEF Handles
<1>1. CASE conn[c].db # Null
  <2>1. OwnersKept({conn[c].db})
    BY <1>1, ConnOwners
  <2> QED BY <1>1, <2>1, HeldIsOpen, GivesBack
<1>2. CASE conn[c].db = Null
  <2>1. OwnersKept({})
    BY <1>2, ConnOwners
  <2>2. hstate' = hstate
    BY <1>2
  <2> QED BY <2>1, <2>2, Stutters DEF ProtocolStep
<1> QED BY <1>1, <1>2

\* Every action of a connection is a step of the protocol, or none.
LEMMA ConnRefines ==
  ASSUME Base, Base', Shared, ConnNext
  PROVE  ProtocolStep
<1> USE LifecycleAssumption DEF Handles
<1>1. ASSUME NEW c \in Conns, NEW h \in SessionHandles, NEW e \in Engines, Connect(c, h, e)
      PROVE  ProtocolStep
  <2>1. conn'[c].db = h /\ conn[c].db = Null /\ \A d \in Conns \ {c} : conn'[d] = conn[d]
    BY <1>1 DEF Connect, NoConn, Base, TypeOK
  <2>2. UNCHANGED <<strm, tx>> /\ Allocate(h, e) /\ \A g \in Handles : heng[g] # e
    BY <1>1 DEF Connect
  <2>3. OwnersKept({h})
    BY <2>1, <2>2, ConnOwners
  <2>4. Owner(h)'
    BY <2>1 DEF Owner
  <2> QED BY <2>2, <2>3, <2>4, StartsEngine
<1>2. ASSUME NEW c \in Conns, NEW d \in Conns, NEW h \in SessionHandles, Fork(c, d, h)
      PROVE  ProtocolStep
  <2>1. conn'[d].db = h /\ conn[d].db = Null /\ \A k \in Conns \ {d} : conn'[k] = conn[k]
    BY <1>2 DEF Fork, NoConn, Base, TypeOK
  <2>2. UNCHANGED <<strm, tx>> /\ Allocate(h, heng[conn[c].db]) /\ conn[c].db # Null
    BY <1>2 DEF Fork
  <2>3. OwnersKept({h})
    BY <2>1, <2>2, ConnOwners
  <2>4. Owner(h)'
    BY <2>1 DEF Owner
  <2> QED BY <2>2, <2>3, <2>4, ConnectedIsUp, OpensOnEngine
<1>3. ASSUME NEW c \in Conns, ConnCallFatal(c)
      PROVE  ProtocolStep
  <2>1. UNCHANGED <<hstate, heng, conn, strm, tx>>
    BY <1>3 DEF ConnCallFatal
  <2>2. OwnersKept({})
    BY <2>1, ConnOwners
  <2> QED BY <2>1, <2>2, Stutters DEF ProtocolStep
<1>4. ASSUME NEW c \in Conns, Disconnect(c)
      PROVE  ProtocolStep
  <2>1. conn'[c].db = Null /\ \A d \in Conns \ {c} : conn'[d].db = conn[d].db
    BY <1>4 DEF Disconnect, Base, TypeOK, ConnObjects
  <2> QED BY <1>4, <2>1, ConnLetsGo DEF Disconnect
<1>5. ASSUME NEW c \in Conns, DestroyConn(c)
      PROVE  ProtocolStep
  <2>1. conn'[c].db = Null /\ \A d \in Conns \ {c} : conn'[d].db = conn[d].db
    BY <1>5 DEF DestroyConn, NoConn, Base, TypeOK
  <2> QED BY <1>5, <2>1, ConnLetsGo DEF DestroyConn
<1>6. ASSUME NEW c \in Conns, NEW d \in Conns, MoveConn(c, d)
      PROVE  ProtocolStep
  <2>1. /\ conn'[c].db = Null /\ conn'[d].db = conn[c].db
        /\ \A k \in Conns \ {c, d} : conn'[k].db = conn[k].db
    BY <1>6 DEF MoveConn, NoConn, Base, TypeOK
  <2>2. UNCHANGED <<heng, strm, tx>>
    BY <1>6 DEF MoveConn
  <2>3. \A g \in SessionHandles \ {conn[d].db} :
            (\E k \in Conns : conn'[k].db = g) <=> (\E k \in Conns : conn[k].db = g)
    <3> SUFFICES ASSUME NEW g \in SessionHandles \ {conn[d].db}
                 PROVE  (\E k \in Conns : conn'[k].db = g) <=> (\E k \in Conns : conn[k].db = g)
      OBVIOUS
    <3>1. ASSUME NEW k \in Conns, conn'[k].db = g PROVE \E i \in Conns : conn[i].db = g
      BY <2>1, <3>1
    <3>2. ASSUME NEW k \in Conns, conn[k].db = g PROVE \E i \in Conns : conn'[i].db = g
      <4>1. k # d
        BY <3>2
      <4> QED BY <2>1, <3>2, <4>1
    <3> QED BY <3>1, <3>2
  <2>4. CASE conn[d].db # Null
    <3>1. OwnersKept({conn[d].db})
      BY <2>2, <2>3, ConnOwners
    <3>2. Release(conn[d].db)
      BY <1>6, <2>4 DEF MoveConn
    <3> QED BY <2>2, <2>4, <3>1, <3>2, HeldIsOpen, GivesBack
  <2>5. CASE conn[d].db = Null
    <3>1. OwnersKept({})
      BY <2>2, <2>3, <2>5, ConnOwners
    <3>2. hstate' = hstate
      BY <1>6, <2>5 DEF MoveConn
    <3> QED BY <2>2, <3>1, <3>2, Stutters DEF ProtocolStep
  <2> QED BY <2>4, <2>5
<1> QED BY <1>1, <1>2, <1>3, <1>4, <1>5, <1>6 DEF ConnNext
-----------------------------------------------------------------------------
\* A step in which stream s goes from one reader, or none, to none: the reader
\* is killed while its token lives and left behind otherwise.
LEMMA StreamLetsGo ==
  ASSUME Base, Base', Shared, Guarded, NEW s \in Streams, UNCHANGED <<heng, conn, tx>>, Retire(s),
         strm'[s].h = Null, \A k \in Streams \ {s} : strm'[k].h = strm[k].h
  PROVE  ProtocolStep
<1> USE LifecycleAssumption DEF Handles
<1>1. CASE strm[s].h = Null
  <2>1. OwnersKept({})
    BY <1>1, StreamOwners
  <2>2. hstate' = hstate
    BY <1>1 DEF Retire
  <2> QED BY <2>1, <2>2, Stutters DEF ProtocolStep
<1>2. CASE strm[s].h # Null
  <2>0. PICK h \in StreamHandles : h = strm[s].h
    BY <1>2, HeldIsOpen
  <2>1. hstate[h] = "open" /\ Owner(h)
    BY <1>2, <2>0, HeldIsOpen
  <2>2. OwnersKept({h})
    BY <1>2, <2>0, StreamOwners
  <2>3. CASE Expired(strm[s].alive)
    <3>1. hstate' = hstate /\ ~RuntimeUp(heng[h])
      BY <1>2, <2>0, <2>3, RefusedIsDead DEF Retire
    <3>2. \A k \in Streams : strm'[k].h # h
      BY <1>2, <2>0 DEF Base, SoleOwner
    <3>3. \A c \in Conns : conn'[c].db # h
      BY DEF Base, TypeOK, ConnObjects
    <3>4. \A t \in Txs : tx'[t].h # h
      BY DEF Base, TypeOK, TxObjects
    <3>5. ~Owner(h)'
      BY <3>2, <3>3, <3>4 DEF Owner
    <3> QED BY <2>1, <2>2, <3>1, <3>5, LeavesBehind
  <2>4. CASE ~Expired(strm[s].alive)
    <3>1. Release(h)
      BY <1>2, <2>0, <2>4 DEF Retire
    <3>2. RuntimeUp(heng[h])
      BY <1>2, <2>0, <2>4, GuardIsSound DEF Guarded
    <3> QED BY <2>1, <2>2, <3>1, <3>2, GivesBack
  <2> QED BY <2>3, <2>4
<1> QED BY <1>1, <1>2

\* Every action of a careful client's stream is a step of the protocol, or none.
LEMMA StreamRefines ==
  ASSUME careful, Base, Base', Shared, Guarded, StreamNext
  PROVE  ProtocolStep
<1> USE LifecycleAssumption DEF Handles
<1>1. ASSUME NEW c \in Conns, NEW s \in Streams, NEW h \in StreamHandles, Live(c, s, h)
      PROVE  ProtocolStep
  <2>1. strm'[s].h = h /\ strm[s].h = Null /\ \A k \in Streams \ {s} : strm'[k] = strm[k]
    BY <1>1 DEF Live, NoStream, Base, TypeOK
  <2>2. UNCHANGED <<conn, tx>> /\ Allocate(h, heng[conn[c].db]) /\ conn[c].db # Null
    BY <1>1 DEF Live
  <2>3. OwnersKept({h})
    BY <2>1, <2>2, StreamOwners
  <2>4. Owner(h)'
    BY <2>1 DEF Owner
  <2> QED BY <2>2, <2>3, <2>4, ConnectedIsUp, OpensOnEngine
<1>2. ASSUME NEW s \in Streams, NEW r \in Outcomes, ReadEnd(s, r)
      PROVE  ProtocolStep
  <2>1. UNCHANGED <<hstate, heng, conn, tx>>
    BY <1>2 DEF ReadEnd
  <2>2. \A k \in Streams : strm'[k].h = strm[k].h
    BY <1>2 DEF ReadEnd, Base, TypeOK, StreamObjects
  <2>3. OwnersKept({})
    BY <2>1, <2>2, StreamOwners
  <2> QED BY <2>1, <2>3, Stutters DEF ProtocolStep
<1>3. ASSUME NEW s \in Streams, ReadEvent(s)
      PROVE  ProtocolStep
  <2>1. UNCHANGED <<hstate, heng, conn, strm, tx>>
    BY <1>3 DEF ReadEvent
  <2>2. OwnersKept({})
    BY <2>1, StreamOwners
  <2> QED BY <2>1, <2>2, Stutters DEF ProtocolStep
<1>4. ASSUME NEW s \in Streams, CloseStream(s)
      PROVE  ProtocolStep
  <2>1. strm'[s].h = Null /\ \A k \in Streams \ {s} : strm'[k].h = strm[k].h
    BY <1>4 DEF CloseStream, Base, TypeOK, StreamObjects
  <2> QED BY <1>4, <2>1, StreamLetsGo DEF CloseStream
<1>5. ASSUME NEW s \in Streams, DestroyStream(s)
      PROVE  ProtocolStep
  <2>1. strm'[s].h = Null /\ \A k \in Streams \ {s} : strm'[k].h = strm[k].h
    BY <1>5 DEF DestroyStream, NoStream, Base, TypeOK
  <2> QED BY <1>5, <2>1, StreamLetsGo DEF DestroyStream
<1>6. ASSUME NEW s \in Streams, NEW d \in Streams, MoveStream(s, d)
      PROVE  ProtocolStep
  <2>1. UNCHANGED <<hstate, heng, conn, tx>> /\ strm[d].h = Null
    BY <1>6 DEF MoveStream
  <2>2. /\ strm'[s].h = Null /\ strm'[d].h = strm[s].h
        /\ \A k \in Streams \ {s, d} : strm'[k].h = strm[k].h
    BY <1>6 DEF MoveStream, NoStream, Base, TypeOK
  <2>3. ASSUME NEW g \in StreamHandles
        PROVE  (\E k \in Streams : strm'[k].h = g) <=> (\E k \in Streams : strm[k].h = g)
    <3>1. ASSUME NEW k \in Streams, strm'[k].h = g PROVE \E i \in Streams : strm[i].h = g
      BY <2>2, <3>1
    <3>2. ASSUME NEW k \in Streams, strm[k].h = g PROVE \E i \in Streams : strm'[i].h = g
      <4>1. k # d
        BY <2>1, <3>2
      <4> QED BY <2>2, <3>2, <4>1
    <3> QED BY <3>1, <3>2
  <2>4. OwnersKept({})
    BY <2>1, <2>3, StreamOwners
  <2> QED BY <2>1, <2>4, Stutters DEF ProtocolStep
<1> QED BY <1>1, <1>2, <1>3, <1>4, <1>5, <1>6 DEF StreamNext

-----------------------------------------------------------------------------
\* A step in which transaction t goes from one handle to none, through Finish.
LEMMA TxLetsGo ==
  ASSUME Base, Base', Shared, Guarded, NEW t \in Txs, NEW r, UNCHANGED <<heng, conn, strm>>,
         tx[t].h # Null, Finish(t, r),
         tx'[t].h = Null, \A u \in Txs \ {t} : tx'[u].h = tx[u].h
  PROVE  ProtocolStep
<1> USE LifecycleAssumption DEF Handles
<1>0. PICK h \in TxHandles : h = tx[t].h
  BY HeldIsOpen
<1>1. hstate[h] = "open" /\ Owner(h)
  BY <1>0, HeldIsOpen
<1>2. OwnersKept({h})
  BY <1>0, TxOwners
<1>3. CASE Expired(tx[t].alive)
  <2>1. hstate' = hstate /\ ~RuntimeUp(heng[h])
    BY <1>0, <1>3, RefusedIsDead DEF Finish
  <2>2. \A u \in Txs : tx'[u].h # h
    BY <1>0 DEF Base, SoleOwner
  <2>3. \A c \in Conns : conn'[c].db # h
    BY DEF Base, TypeOK, ConnObjects
  <2>4. \A s \in Streams : strm'[s].h # h
    BY DEF Base, TypeOK, StreamObjects
  <2>5. ~Owner(h)'
    BY <2>2, <2>3, <2>4 DEF Owner
  <2> QED BY <1>1, <1>2, <2>1, <2>5, LeavesBehind
<1>4. CASE ~Expired(tx[t].alive)
  <2>1. Release(h)
    BY <1>0, <1>4 DEF Finish
  <2>2. RuntimeUp(heng[h])
    BY <1>0, <1>4, GuardIsSound DEF Guarded
  <2> QED BY <1>1, <1>2, <2>1, <2>2, GivesBack
<1> QED BY <1>3, <1>4

\* Every action of a careful client's transaction is a step of the protocol, or
\* none.
LEMMA TxRefines ==
  ASSUME Base, Base', Shared, Guarded, TxNext
  PROVE  ProtocolStep
<1> USE LifecycleAssumption DEF Handles
<1>1. ASSUME NEW c \in Conns, NEW t \in Txs, NEW h \in TxHandles, Begin(c, t, h)
      PROVE  ProtocolStep
  <2>1. tx'[t].h = h /\ tx[t].h = Null /\ \A u \in Txs \ {t} : tx'[u] = tx[u]
    BY <1>1 DEF Begin, NoTx, Base, TypeOK
  <2>2. UNCHANGED <<conn, strm>> /\ Allocate(h, heng[conn[c].db]) /\ conn[c].db # Null
    BY <1>1 DEF Begin
  <2>3. OwnersKept({h})
    BY <2>1, <2>2, TxOwners
  <2>4. Owner(h)'
    BY <2>1 DEF Owner
  <2> QED BY <2>2, <2>3, <2>4, ConnectedIsUp, OpensOnEngine
<1>2. ASSUME NEW t \in Txs, NEW r \in Outcomes, TxQuery(t, r)
      PROVE  ProtocolStep
  <2>1. UNCHANGED <<hstate, heng, conn, strm, tx>>
    BY <1>2 DEF TxQuery
  <2>2. OwnersKept({})
    BY <2>1, TxOwners
  <2> QED BY <2>1, <2>2, Stutters DEF ProtocolStep
<1>3. ASSUME NEW t \in Txs, NEW r \in Outcomes, TxFinish(t, r)
      PROVE  ProtocolStep
  <2>1. tx'[t].h = Null /\ \A u \in Txs \ {t} : tx'[u].h = tx[u].h
    BY <1>3 DEF TxFinish, Base, TypeOK, TxObjects
  <2> QED BY <1>3, <2>1, TxLetsGo DEF TxFinish
<1>4. ASSUME NEW t \in Txs, NEW r \in Outcomes, DestroyTx(t, r)
      PROVE  ProtocolStep
  <2>1. tx'[t].h = Null /\ \A u \in Txs \ {t} : tx'[u].h = tx[u].h
    BY <1>4 DEF DestroyTx, NoTx, Base, TypeOK
  <2>2. CASE tx[t].h # Null
    BY <1>4, <2>1, <2>2, TxLetsGo DEF DestroyTx
  <2>3. CASE tx[t].h = Null
    <3>1. UNCHANGED <<hstate, heng, conn, strm>>
      BY <1>4, <2>3 DEF DestroyTx
    <3>2. OwnersKept({})
      BY <2>1, <2>3, <3>1, TxOwners
    <3> QED BY <3>1, <3>2, Stutters DEF ProtocolStep
  <2> QED BY <2>2, <2>3
<1>5. ASSUME NEW t \in Txs, NEW u \in Txs, MoveTx(t, u)
      PROVE  ProtocolStep
  <2>1. UNCHANGED <<hstate, heng, conn, strm>> /\ tx[u].h = Null
    BY <1>5 DEF MoveTx, NoTx
  <2>2. /\ tx'[u].h = tx[t].h /\ t # u /\ tx'[t].h = Null
        /\ \A k \in Txs \ {t, u} : tx'[k].h = tx[k].h
    BY <1>5 DEF MoveTx, NoTx, Base, TypeOK
  <2>3. ASSUME NEW g \in TxHandles
        PROVE  (\E k \in Txs : tx'[k].h = g) <=> (\E k \in Txs : tx[k].h = g)
    <3>1. ASSUME NEW k \in Txs, tx'[k].h = g PROVE \E i \in Txs : tx[i].h = g
      BY <2>2, <3>1
    <3>2. ASSUME NEW k \in Txs, tx[k].h = g PROVE \E i \in Txs : tx'[i].h = g
      <4>1. k # u
        BY <2>1, <3>2
      <4> QED BY <2>2, <3>2, <4>1
    <3> QED BY <3>1, <3>2
  <2>4. OwnersKept({})
    BY <2>1, <2>3, TxOwners
  <2> QED BY <2>1, <2>4, Stutters DEF ProtocolStep
<1> QED BY <1>1, <1>2, <1>3, <1>4, <1>5 DEF TxNext

-----------------------------------------------------------------------------
\* The objects of a client that neither disconnects an object it keeps nor
\* assigns over a stream that owns a reader implement HandleProtocol: whatever is
\* forked, moved, closed, committed and destroyed in whatever order, each handle
\* is given back once and to an engine that is up, or else left behind on an
\* engine that has shut down.
THEOREM ObjectsKeepProtocol == Spec => KeepsProtocol
<1>1. Init => (careful => Guarded) /\ (careful => Protocol!Init)
  BY DEF Init, Guarded, TokenHasHandle, NoConn, OnlyReads, Protocol!Init, Protocol!Handles,
     Handles, Abandoned
<1>2. Base /\ Shared /\ (careful => Guarded) /\ [Next]_vars
        => (careful => Guarded)' /\ [careful => Protocol!Next]_(Protocol!vars)
  <2> SUFFICES ASSUME Base, Shared, careful => Guarded, [Next]_vars
               PROVE  (careful => Guarded)' /\ [careful => Protocol!Next]_(Protocol!vars)
    OBVIOUS
  <2>1. careful' = careful
    BY DEF Next, vars
  <2>2. CASE ~careful
    BY <2>1, <2>2
  <2>3. CASE careful
    <3>1. Guarded'
      BY <2>3, GuardedStep
    <3>2. Base'
      BY BaseStep
    <3>3. ProtocolStep
      <4>1. CASE UNCHANGED vars
        <5>1. OwnersKept({})
          BY <4>1 DEF vars, OwnersKept, Owner
        <5> QED BY <4>1, <5>1, Stutters DEF vars, ProtocolStep
      <4>2. CASE Next
        BY <2>3, <3>2, <4>2, ConnRefines, StreamRefines, TxRefines DEF Next
      <4> QED BY <4>1, <4>2
    <3> QED BY <2>3, <3>1, <3>3 DEF ProtocolStep
  <2> QED BY <2>2, <2>3
<1> QED BY <1>1, <1>2, Invariant, PTL DEF Spec, KeepsProtocol
=============================================================================
