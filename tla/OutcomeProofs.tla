----------------------------- MODULE OutcomeProofs -----------------------------
(****************************************************************************)
(* The safety properties of Outcome for any number of blocks, objects and   *)
(* statements.                                                              *)
(****************************************************************************)
EXTENDS Outcome, FiniteSetTheorems, WellFoundedInduction, TLAPS

-----------------------------------------------------------------------------
\* The statements of a batch.

\* A set of natural numbers with anything in it has a smallest one.
LEMMA SmallestExists ==
  ASSUME NEW S, S \subseteq Nat, S # {}
  PROVE  \E i \in S : \A j \in S : i <= j
<1> DEFINE R == {p \in Nat \X Nat : p[1] < p[2]}
<1>1. IsWellFoundedOn(R, Nat)
  BY NatLessThanWellFounded DEF OpToRel
<1>2. PICK i \in S : \A j \in S : ~(<<j, i>> \in R)
  BY <1>1, WFMin
<1>3. ASSUME NEW j \in S PROVE i <= j
  <2>1. i \in Nat /\ j \in Nat
    OBVIOUS
  <2>2. j < i => <<j, i>> \in R
    BY <2>1
  <2> QED BY <1>2, <2>1, <2>2
<1> QED BY <1>3

\* A batch is a sequence of codes of at most MaxStatements.
LEMMA BatchIsSequence ==
  ASSUME NEW s \in Batches
  PROVE  s \in Seq(Codes) /\ Len(s) \in 0..MaxStatements /\ DOMAIN s = 1..Len(s)
<1>1. PICK n \in 0..MaxStatements : s \in [1..n -> Codes]
  BY DEF Batches
<1>2. n \in Nat
  BY OutcomeAssumption
<1> QED BY <1>1, <1>2

\* No statement at all is a batch.
LEMMA EmptyBatch == <<>> \in Batches
<1>1. <<>> \in [1..0 -> Codes]
  OBVIOUS
<1>2. 0 \in 0..MaxStatements
  BY OutcomeAssumption
<1> QED BY <1>1, <1>2 DEF Batches

\* What a query holds is a batch.
LEMMA BatchOfQuery ==
  ASSUME TypeOK, NEW q \in Queries
  PROVE  Batch(q) \in Batches
  BY EmptyBatch DEF Batch, TypeOK, Objects, Cells

\* first_error() finds a statement that failed, or none.
LEMMA FirstErrorFails ==
  ASSUME TypeOK, NEW q \in Queries
  PROVE  \/ FirstError(q) = 0
         \/ FirstError(q) \in DOMAIN Batch(q) /\ Batch(q)[FirstError(q)] # "ok"
<1> DEFINE failed == {i \in DOMAIN Batch(q) : Batch(q)[i] # "ok"}
<1>1. CASE failed = {}
  BY <1>1 DEF FirstError
<1>2. CASE failed # {}
  <2>1. failed \subseteq Nat
    BY BatchOfQuery, BatchIsSequence
  <2>2. \E i \in failed : \A j \in failed : i <= j
    BY <1>2, <2>1, SmallestExists
  <2>3. FirstError(q) \in failed
    BY <1>2, <2>2 DEF FirstError
  <2> QED BY <2>3
<1> QED BY <1>1, <1>2
-----------------------------------------------------------------------------
\* Memory.

\* What an object owns is allocated and will be given to its own destructor, no
\* two objects own the same, and everything allocated has an owner.
OwnedIsLive ==
    \A o \in Objects : Owns(o) =>
        /\ heap[obj[o].block] = "live"
        /\ made[obj[o].block] = Destructor(obj[o])

OwnedOnce ==
    \A o, p \in Objects : Owns(o) /\ Owns(p) /\ obj[o].block = obj[p].block => o = p

LiveIsOwned ==
    \A b \in Blocks : heap[b] = "live" => \E o \in Objects : Owns(o) /\ obj[o].block = b

Owned == OwnedIsLive /\ OwnedOnce /\ LiveIsOwned /\ FreedRightly

\* An object is made that owns a new block.
LEMMA OwnsNew ==
  ASSUME TypeOK, Owned, NEW o \in Objects, NEW b \in Blocks, ~Owns(o), Unused(b),
         heap' \in [Blocks -> {"unused", "live", "freed"}],
         heap'[b] = "live", made'[b] = Destructor(obj'[o]), Owns(o)', obj'[o].block = b,
         \A p \in Objects \ {o} : obj'[p] = obj[p],
         \A a \in Blocks \ {b} : heap[a] = "live" => heap'[a] = "live" /\ made'[a] = made[a],
         \A a \in Blocks \ {b} : heap'[a] = "live" => heap[a] = "live",
         wrong' = wrong
  PROVE  Owned'
<1>1. \A p \in Objects \ {o} : Owns(p)' <=> Owns(p)
  BY DEF Owns
<1>2. \A p \in Objects : Owns(p) => obj[p].block \in Blocks \ {b}
  BY DEF Owned, OwnedIsLive, Unused, Owns, TypeOK, Cells
<1>3. OwnedIsLive'
  BY <1>1, <1>2 DEF Owned, OwnedIsLive, Destructor
<1>4. OwnedOnce'
  BY <1>1, <1>2 DEF Owned, OwnedOnce
<1>5. LiveIsOwned'
  BY <1>1, <1>2 DEF Owned, LiveIsOwned
<1> QED BY <1>3, <1>4, <1>5 DEF Owned, FreedRightly

\* An object is made, or goes, that owns nothing.
LEMMA OwnsNothing ==
  ASSUME TypeOK, Owned, NEW o \in Objects, ~Owns(o), ~Owns(o)',
         UNCHANGED <<heap, made, wrong>>,
         \A p \in Objects \ {o} : obj'[p] = obj[p]
  PROVE  Owned'
<1>1. \A p \in Objects \ {o} : Owns(p)' <=> Owns(p)
  BY DEF Owns
<1>2. OwnedIsLive'
  BY <1>1 DEF Owned, OwnedIsLive, Destructor
<1>3. OwnedOnce'
  BY <1>1 DEF Owned, OwnedOnce
<1>4. LiveIsOwned'
  BY <1>1 DEF Owned, LiveIsOwned
<1> QED BY <1>2, <1>3, <1>4 DEF Owned, FreedRightly

\* What Free does to the memory: it frees what the object owns, rightly.
LEMMA FreeIsRight ==
  ASSUME TypeOK, Owned, NEW o \in Objects, Free(o)
  PROVE  /\ wrong' = {}
         /\ Owns(o) => heap' = [heap EXCEPT ![obj[o].block] = "freed"] /\ obj[o].block \in Blocks
         /\ ~Owns(o) => heap' = heap
  BY DEF Free, Owned, OwnedIsLive, FreedRightly, Owns, TypeOK, Cells

\* An object goes, with what it owns.
LEMMA OwnerGoes ==
  ASSUME TypeOK, Owned, NEW o \in Objects, Free(o), ~Owns(o)', made' = made,
         \A p \in Objects \ {o} : obj'[p] = obj[p]
  PROVE  Owned'
<1>1. \A p \in Objects \ {o} : Owns(p)' <=> Owns(p)
  BY DEF Owns
<1>2. \A p \in Objects \ {o} : Owns(p) => heap'[obj[p].block] = heap[obj[p].block]
  BY FreeIsRight DEF Owned, OwnedOnce, Owns, TypeOK, Cells
<1>3. OwnedIsLive'
  BY <1>1, <1>2 DEF Owned, OwnedIsLive, Destructor
<1>4. OwnedOnce'
  BY <1>1 DEF Owned, OwnedOnce
<1>5. LiveIsOwned'
  <2> SUFFICES ASSUME NEW b \in Blocks, heap'[b] = "live"
               PROVE  \E p \in Objects : Owns(p)' /\ obj'[p].block = b
    BY DEF LiveIsOwned
  <2>1. heap[b] = "live" /\ (Owns(o) => b # obj[o].block)
    BY FreeIsRight DEF TypeOK
  <2>2. PICK p \in Objects : Owns(p) /\ obj[p].block = b
    BY <2>1 DEF Owned, LiveIsOwned
  <2>3. p # o
    BY <2>1, <2>2
  <2> QED BY <1>1, <2>2, <2>3
<1> QED BY <1>3, <1>4, <1>5, FreeIsRight DEF Owned, FreedRightly

\* An object goes with what it owns, and another's content takes its place.
LEMMA OwnerMoves ==
  ASSUME TypeOK, Owned, NEW s \in Objects, NEW d \in Objects, s # d, d \notin Rows,
         s \notin Rows \/ obj[s].holds = "error", Free(d), made' = made,
         obj' = [obj EXCEPT ![d] = obj[s], ![s] = Emptied(obj[s])]
  PROVE  Owned'
<1>1. obj'[d] = obj[s] /\ obj'[s].block = Null /\ \A p \in Objects \ {s, d} : obj'[p] = obj[p]
  BY DEF Emptied, TypeOK, Cells
<1>2. (Owns(d)' <=> Owns(s)) /\ ~Owns(s)' /\ \A p \in Objects \ {s, d} : Owns(p)' <=> Owns(p)
  BY <1>1 DEF Owns
<1>3. \A p \in Objects \ {d} : Owns(p) => heap'[obj[p].block] = heap[obj[p].block]
  BY FreeIsRight DEF Owned, OwnedOnce, Owns, TypeOK, Cells
<1>4. OwnedIsLive'
  <2> SUFFICES ASSUME NEW p \in Objects, Owns(p)'
               PROVE  heap'[obj'[p].block] = "live" /\ made'[obj'[p].block] = Destructor(obj'[p])
    BY DEF OwnedIsLive, Destructor
  <2>1. PICK q \in Objects \ {d} : Owns(q) /\ obj'[p] = obj[q]
    BY <1>1, <1>2
  <2>2. heap[obj[q].block] = "live" /\ made[obj[q].block] = Destructor(obj[q])
    BY <2>1 DEF Owned, OwnedIsLive
  <2> QED BY <1>3, <2>1, <2>2
<1>5. OwnedOnce'
  BY <1>1, <1>2 DEF Owned, OwnedOnce
<1>6. LiveIsOwned'
  <2> SUFFICES ASSUME NEW b \in Blocks, heap'[b] = "live"
               PROVE  \E p \in Objects : Owns(p)' /\ obj'[p].block = b
    BY DEF LiveIsOwned
  <2>1. heap[b] = "live" /\ (Owns(d) => b # obj[d].block)
    BY FreeIsRight DEF TypeOK
  <2>2. PICK p \in Objects : Owns(p) /\ obj[p].block = b
    BY <2>1 DEF Owned, LiveIsOwned
  <2>3. p # d
    BY <2>1, <2>2
  <2> QED BY <1>1, <1>2, <2>2, <2>3
<1> QED BY <1>4, <1>5, <1>6, FreeIsRight DEF Owned, FreedRightly

\* An owner for every block that is live, and for no other.
LEMMA OwnedGivesOneOwner == TypeOK /\ Owned => OneOwner
<1> SUFFICES ASSUME TypeOK, Owned, NEW b \in Blocks
             PROVE  Cardinality(Owners(b)) = IF heap[b] = "live" THEN 1 ELSE 0
  BY DEF OneOwner
<1>1. CASE heap[b] = "live"
  <2>1. PICK o \in Objects : Owns(o) /\ obj[o].block = b
    BY <1>1 DEF Owned, LiveIsOwned
  <2>2. Owners(b) = {o}
    BY <2>1 DEF Owners, Owned, OwnedOnce
  <2> QED BY <1>1, <2>2, FS_Singleton
<1>2. CASE heap[b] # "live"
  <2>1. Owners(b) = {}
    BY <1>2 DEF Owners, Owned, OwnedIsLive
  <2> QED BY <1>2, <2>1, FS_EmptySet
<1> QED BY <1>1, <1>2
-----------------------------------------------------------------------------
\* The invariant.

\* Rows that were handed out are in an array that was allocated, and as long as
\* it is there the statements they came from succeeded.
RowsTrue ==
    \A w \in Rows : obj[w].holds = "value" =>
        /\ obj[w].block \in Blocks
        /\ heap[obj[w].block] # "unused"
        /\ heap[obj[w].block] = "live" =>
              \A i \in statement[w] : codes[obj[w].block][i] = "ok"

IInv == TypeOK /\ Owned /\ FailureHasCode /\ RowsTrue

\* The codes of the C library do not include success.
LEMMA CodesOfFailures ==
  /\ Failing \subseteq Codes /\ "ok" \in Codes /\ "ok" \notin Failing /\ "error" \in Failing
  /\ \A c \in Codes : c # "ok" => c \in Failing
  BY OutcomeAssumption DEF Codes

\* The cells the actions write.
LEMMA CellsWritten ==
  /\ Nothing \in Cells
  /\ \A b \in Blocks \cup {Null} : Value(b) \in Cells
  /\ \A c \in Codes, o \in {"none", "c_api", "local"}, b \in Blocks \cup {Null} :
         Failure(c, o, b) \in Cells
  /\ \A cell \in Cells : Emptied(cell) \in Cells
  BY CodesOfFailures DEF Cells, Nothing, Value, Failure, Emptied

\* Free keeps the types, takes no row away and makes no block unused.
LEMMA FreeTypes ==
  ASSUME TypeOK, Owned, NEW o \in Objects, Free(o)
  PROVE  /\ heap' \in [Blocks -> {"unused", "live", "freed"}]
         /\ codes' \in [Blocks -> Batches]
         /\ wrong' \subseteq Blocks
         /\ \A b \in Blocks : heap[b] # "unused" => heap'[b] # "unused"
         /\ \A b \in Blocks : heap'[b] = "live" => heap[b] = "live" /\ codes'[b] = codes[b]
<1>1. CASE Owns(o)
  <2>1. obj[o].block \in Blocks
    BY <1>1, FreeIsRight
  <2>2. /\ heap' = [heap EXCEPT ![obj[o].block] = "freed"]
        /\ codes' = [codes EXCEPT ![obj[o].block] = <<>>]
    BY <1>1 DEF Free
  <2> QED BY <2>1, <2>2, FreeIsRight, EmptyBatch DEF TypeOK
<1>2. CASE ~Owns(o)
  BY <1>2 DEF Free, TypeOK
<1> QED BY <1>1, <1>2

\* A new object that is blank exactly if it is an error that says "ok".
LEMMA NewCode ==
  ASSUME TypeOK, FailureHasCode, NEW o \in Objects, obj[o] = Nothing, NEW cell,
         obj' = [obj EXCEPT ![o] = cell],
         blank' = IF cell.holds = "error" /\ cell.code = "ok" THEN blank \cup {o} ELSE blank
  PROVE  FailureHasCode'
<1> SUFFICES ASSUME NEW p \in Objects
             PROVE  (obj'[p].holds = "error" /\ obj'[p].code = "ok") <=> p \in blank'
  BY DEF FailureHasCode
<1>1. CASE p = o
  <2>1. obj'[p] = cell
    BY <1>1 DEF TypeOK
  <2>2. p \notin blank
    BY <1>1 DEF FailureHasCode, Nothing
  <2> QED BY <1>1, <2>1, <2>2
<1>2. CASE p # o
  <2>1. obj'[p] = obj[p]
    BY <1>2 DEF TypeOK
  <2>2. p \in blank' <=> p \in blank
    BY <1>2
  <2> QED BY <2>1, <2>2 DEF FailureHasCode
<1> QED BY <1>1, <1>2

\* A call that failed, into result r.
LEMMA CallFailsStep ==
  ASSUME IInv, NEW r \in Results, NEW c \in Failing,
         \/ \E b \in Blocks : CallFails(r, c, b)
         \/ CallFailsMute(r, c)
  PROVE  IInv'
<1> USE DEF IInv, Objects
<1>1. ASSUME NEW b \in Blocks, CallFails(r, c, b)
      PROVE  IInv'
  <2>1. TypeOK'
    BY <1>1, CodesOfFailures, CellsWritten DEF CallFails, Allocate, TypeOK
  <2>2. obj'[r] = Failure(c, "c_api", b) /\ ~Owns(r)
    BY <1>1 DEF CallFails, TypeOK, Nothing, Owns
  <2>3. Owned'
    <3>1. Owns(r)' /\ obj'[r].block = b /\ Destructor(obj'[r]) = "c_string"
      BY <2>2, OutcomeAssumption DEF Owns, Failure, Destructor
    <3>2. Unused(b) /\ heap' = [heap EXCEPT ![b] = "live"] /\ made' = [made EXCEPT ![b] = "c_string"]
      BY <1>1 DEF CallFails, Allocate
    <3> QED BY <1>1, <2>1, <2>2, <3>1, <3>2, OwnsNew DEF CallFails, TypeOK
  <2>4. FailureHasCode'
    <3>1. obj' = [obj EXCEPT ![r] = Failure(c, "c_api", b)] /\ obj[r] = Nothing /\ blank' = blank
      BY <1>1 DEF CallFails
    <3>2. Failure(c, "c_api", b).code # "ok"
      BY CodesOfFailures DEF Failure
    <3> QED BY <3>1, <3>2, NewCode
  <2>5. RowsTrue'
    BY <1>1, OutcomeAssumption DEF CallFails, Allocate, Unused, RowsTrue, TypeOK
  <2> QED BY <2>1, <2>3, <2>4, <2>5
<1>2. CASE CallFailsMute(r, c)
  <2>1. TypeOK'
    BY <1>2, CodesOfFailures, CellsWritten DEF CallFailsMute, TypeOK
  <2>2. obj'[r] = Failure(c, "none", Null) /\ ~Owns(r)
    BY <1>2 DEF CallFailsMute, TypeOK, Nothing, Owns
  <2>3. Owned'
    <3>1. ~Owns(r)'
      BY <2>2 DEF Owns, Failure
    <3> QED BY <1>2, <2>2, <3>1, OwnsNothing DEF CallFailsMute, TypeOK
  <2>4. FailureHasCode'
    <3>1. obj' = [obj EXCEPT ![r] = Failure(c, "none", Null)] /\ obj[r] = Nothing /\ blank' = blank
      BY <1>2 DEF CallFailsMute
    <3>2. Failure(c, "none", Null).code # "ok"
      BY CodesOfFailures DEF Failure
    <3> QED BY <3>1, <3>2, NewCode
  <2>5. RowsTrue'
    BY <1>2, OutcomeAssumption DEF CallFailsMute, RowsTrue, TypeOK
  <2> QED BY <2>1, <2>3, <2>4, <2>5
<1> QED BY <1>1, <1>2

\* A call that succeeded, into result r.
LEMMA CallReturnsStep ==
  ASSUME IInv, NEW r \in Results, NEW a \in Blocks, NEW m \in Blocks \cup {Null},
         NEW batch \in Batches, CallReturns(r, a, m, batch)
  PROVE  IInv'
<1> USE DEF IInv, Objects
<1>1. TypeOK'
  <2>1. heap' \in [Blocks -> {"unused", "live", "freed"}]
    BY DEF CallReturns, TypeOK
  <2>2. made' \in [Blocks -> {"nothing", "array", "c_string", "local"}]
    BY DEF CallReturns, TypeOK
  <2>3. codes' \in [Blocks -> Batches]
    BY DEF CallReturns, TypeOK
  <2>4. obj' \in [Objects -> Cells]
    BY CellsWritten DEF CallReturns, TypeOK
  <2> QED BY <2>1, <2>2, <2>3, <2>4 DEF CallReturns, TypeOK
<1>2. obj'[r] = Value(a) /\ ~Owns(r)
  BY DEF CallReturns, TypeOK, Nothing, Owns
<1>3. Owned'
  <2>1. Owns(r)' /\ obj'[r].block = a /\ Destructor(obj'[r]) = "array"
    BY <1>2, OutcomeAssumption DEF Owns, Value, Destructor
  <2>2. /\ Unused(a) /\ heap'[a] = "live" /\ made'[a] = "array"
        /\ \A b \in Blocks \ {a} : heap[b] = "live" => heap'[b] = "live" /\ made'[b] = made[b]
        /\ \A b \in Blocks \ {a} : heap'[b] = "live" => heap[b] = "live"
    BY OutcomeAssumption DEF CallReturns, Unused
  <2>3. wrong' = wrong /\ \A p \in Objects \ {r} : obj'[p] = obj[p]
    BY DEF CallReturns, TypeOK
  <2> QED BY <1>1, <1>2, <2>1, <2>2, <2>3, OwnsNew DEF TypeOK
<1>4. FailureHasCode'
  <2>1. obj' = [obj EXCEPT ![r] = Value(a)] /\ obj[r] = Nothing /\ blank' = blank
    BY DEF CallReturns
  <2>2. Value(a).holds # "error"
    BY DEF Value
  <2> QED BY <2>1, <2>2, NewCode
<1>5. RowsTrue'
  <2> SUFFICES ASSUME NEW w \in Rows, obj'[w].holds = "value"
               PROVE  /\ obj'[w].block \in Blocks
                      /\ heap'[obj'[w].block] # "unused"
                      /\ heap'[obj'[w].block] = "live" =>
                            \A i \in statement'[w] : codes'[obj'[w].block][i] = "ok"
    BY DEF RowsTrue
  <2>1. obj'[w] = obj[w]
    BY OutcomeAssumption DEF CallReturns, TypeOK
  <2>2. obj[w].block \in Blocks /\ heap[obj[w].block] # "unused" /\ obj[w].block # a
    BY <2>1 DEF CallReturns, Unused, RowsTrue
  <2>3. heap'[obj[w].block] = heap[obj[w].block] /\ codes'[obj[w].block] = codes[obj[w].block]
    BY <2>2, OutcomeAssumption DEF CallReturns, Unused, TypeOK
  <2> QED BY <2>1, <2>2, <2>3 DEF CallReturns, RowsTrue
<1> QED BY <1>1, <1>3, <1>4, <1>5
\* A move, by construction or assignment.
LEMMA MoveStep ==
  ASSUME IInv, NEW s \in Objects, NEW d \in Objects, Move(s, d)
  PROVE  IInv'
<1> USE DEF IInv
<1>1. CASE s = d
  <2>1. UNCHANGED vars
    BY <1>1 DEF Move, vars
  <2> QED BY <2>1 DEF vars, TypeOK, Owned, OwnedIsLive, OwnedOnce, LiveIsOwned, FreedRightly,
      Owns, Destructor, FailureHasCode, RowsTrue
<1>2. CASE s # d
  <2>1. Free(d) /\ obj' = [obj EXCEPT ![d] = obj[s], ![s] = Emptied(obj[s])]
    BY <1>2 DEF Move
  <2>2. /\ UNCHANGED <<made, statement>> /\ d \notin Rows
        /\ blank' = IF s \in blank THEN blank \cup {d} ELSE blank \ {d}
    BY <1>2 DEF Move
  <2>3. s \notin Rows \/ obj[s].holds = "error"
    BY DEF Move
  <2>4. obj[s] \in Cells /\ Emptied(obj[s]) \in Cells
    BY CellsWritten DEF TypeOK
  <2>5. TypeOK'
    <3>1. obj' \in [Objects -> Cells]
      BY <2>1, <2>4 DEF TypeOK
    <3>2. blank' \subseteq Objects
      BY <2>2 DEF TypeOK
    <3> QED BY <2>1, <2>2, <3>1, <3>2, FreeTypes DEF TypeOK
  <2>6. Owned'
    BY <1>2, <2>1, <2>2, <2>3, OwnerMoves
  <2>7. \A p \in Objects \ {s, d} : obj'[p] = obj[p]
    BY <2>1 DEF TypeOK
  <2>8. obj'[d] = obj[s] /\ obj'[s] = Emptied(obj[s])
    BY <1>2, <2>1 DEF TypeOK
  <2>9. obj'[s].holds = obj[s].holds /\ obj'[s].code = obj[s].code
    BY <2>4, <2>8 DEF Emptied, Cells
  <2>10. FailureHasCode'
    <3> SUFFICES ASSUME NEW o \in Objects
                 PROVE  (obj'[o].holds = "error" /\ obj'[o].code = "ok") <=> o \in blank'
      BY DEF FailureHasCode
    <3>1. CASE o = d
      BY <2>2, <2>8, <3>1 DEF FailureHasCode
    <3>2. CASE o # d
      BY <2>2, <2>7, <2>9, <3>2 DEF FailureHasCode
    <3> QED BY <3>1, <3>2
  <2>11. RowsTrue'
    <3> SUFFICES ASSUME NEW w \in Rows, obj'[w].holds = "value"
                 PROVE  /\ obj'[w].block \in Blocks
                        /\ heap'[obj'[w].block] # "unused"
                        /\ heap'[obj'[w].block] = "live" =>
                              \A i \in statement'[w] : codes'[obj'[w].block][i] = "ok"
      BY DEF RowsTrue
    <3>1. w # d /\ w # s /\ w \in Objects
      BY <2>2, <2>3, <2>9 DEF Objects
    <3>2. obj'[w] = obj[w]
      BY <2>7, <3>1
    <3>3. obj[w].block \in Blocks /\ heap[obj[w].block] # "unused"
      BY <3>2 DEF RowsTrue
    <3>4. heap'[obj[w].block] # "unused"
      BY <2>1, <3>3, FreeTypes
    <3>5. heap'[obj[w].block] = "live" =>
              heap[obj[w].block] = "live" /\ codes'[obj[w].block] = codes[obj[w].block]
      BY <2>1, <3>3, FreeTypes
    <3> QED BY <2>2, <3>2, <3>3, <3>4, <3>5 DEF RowsTrue
  <2> QED BY <2>5, <2>6, <2>10, <2>11
<1> QED BY <1>1, <1>2

\* A destructor.
LEMMA DestroyStep ==
  ASSUME IInv, NEW o \in Objects, Destroy(o)
  PROVE  IInv'
<1> USE DEF IInv
<1>1. /\ Free(o) /\ obj' = [obj EXCEPT ![o] = Nothing] /\ made' = made /\ blank' = blank \ {o}
      /\ statement' = [w \in Rows |-> IF w = o THEN {} ELSE statement[w]]
  BY DEF Destroy
<1>2. obj'[o] = Nothing /\ \A p \in Objects \ {o} : obj'[p] = obj[p]
  BY <1>1 DEF TypeOK
<1>3. TypeOK'
  <2>1. obj' \in [Objects -> Cells]
    BY <1>1, CellsWritten DEF TypeOK
  <2>2. statement' \in [Rows -> SUBSET (0..MaxStatements)]
    BY <1>1 DEF TypeOK
  <2> QED BY <1>1, <2>1, <2>2, FreeTypes DEF TypeOK
<1>4. Owned'
  <2>1. ~Owns(o)'
    BY <1>2 DEF Owns, Nothing
  <2> QED BY <1>1, <1>2, <2>1, OwnerGoes
<1>5. FailureHasCode'
  BY <1>1, <1>2 DEF FailureHasCode, Nothing
<1>6. RowsTrue'
  <2> SUFFICES ASSUME NEW w \in Rows, obj'[w].holds = "value"
               PROVE  /\ obj'[w].block \in Blocks
                      /\ heap'[obj'[w].block] # "unused"
                      /\ heap'[obj'[w].block] = "live" =>
                            \A i \in statement'[w] : codes'[obj'[w].block][i] = "ok"
    BY DEF RowsTrue
  <2>1. w # o /\ w \in Objects
    BY <1>2 DEF Nothing, Objects
  <2>2. obj'[w] = obj[w] /\ statement'[w] = statement[w]
    BY <1>1, <1>2, <2>1
  <2> QED BY <1>1, <2>2, FreeTypes DEF RowsTrue
<1> QED BY <1>3, <1>4, <1>5, <1>6

-----------------------------------------------------------------------------
\* Rows and failures that are handed out.

\* A new object that is an error: made by error::local() with a code that is a
\* failure, by default, or by an invalid statement.
LEMMA ErrorStep ==
  ASSUME IInv, NEW w \in Objects, obj[w] = Nothing, NEW c \in Codes, NEW b \in Blocks,
         NEW S \in SUBSET (0..MaxStatements), statement' = [statement EXCEPT ![w] = S],
         UNCHANGED <<codes, wrong>>, blank' = IF c = "ok" THEN blank \cup {w} ELSE blank,
         \/ Local(w, c, b)
         \/ UNCHANGED <<heap, made>> /\ obj' = [obj EXCEPT ![w] = Failure(c, "none", Null)]
  PROVE  IInv'
<1> USE DEF IInv, Objects
<1>1. ~Owns(w)
  BY DEF Nothing, Owns
<1>2. CASE Allocate(b, "local") /\ obj' = [obj EXCEPT ![w] = Failure(c, "local", b)]
  <2>1. TypeOK'
    <3>1. obj' \in [Objects -> Cells]
      BY <1>2, CellsWritten DEF TypeOK
    <3> QED BY <1>2, <3>1 DEF Allocate, TypeOK
  <2>2. obj'[w] = Failure(c, "local", b) /\ \A p \in Objects \ {w} : obj'[p] = obj[p]
    BY <1>2 DEF TypeOK
  <2>3. Owned'
    <3>1. Owns(w)' /\ obj'[w].block = b /\ Destructor(obj'[w]) = "local"
      BY <2>2, OutcomeAssumption DEF Owns, Failure, Destructor
    <3>2. Unused(b) /\ heap' = [heap EXCEPT ![b] = "live"] /\ made' = [made EXCEPT ![b] = "local"]
      BY <1>2 DEF Allocate
    <3> QED BY <1>1, <2>1, <2>2, <3>1, <3>2, OwnsNew DEF TypeOK
  <2>4. FailureHasCode'
    <3>1. Failure(c, "local", b).holds = "error" /\ Failure(c, "local", b).code = c
      BY DEF Failure
    <3> QED BY <1>2, <3>1, NewCode
  <2>5. RowsTrue'
    BY <1>2, <2>2 DEF Allocate, Unused, RowsTrue, TypeOK, Failure
  <2> QED BY <2>1, <2>3, <2>4, <2>5
<1>3. CASE UNCHANGED <<heap, made>> /\ obj' = [obj EXCEPT ![w] = Failure(c, "none", Null)]
  <2>1. TypeOK'
    <3>1. obj' \in [Objects -> Cells]
      BY <1>3, CellsWritten DEF TypeOK
    <3> QED BY <1>3, <3>1 DEF TypeOK
  <2>2. obj'[w] = Failure(c, "none", Null) /\ \A p \in Objects \ {w} : obj'[p] = obj[p]
    BY <1>3 DEF TypeOK
  <2>3. Owned'
    <3>1. ~Owns(w)'
      BY <2>2 DEF Owns, Failure
    <3> QED BY <1>1, <1>3, <2>2, <3>1, OwnsNothing
  <2>4. FailureHasCode'
    <3>1. Failure(c, "none", Null).holds = "error" /\ Failure(c, "none", Null).code = c
      BY DEF Failure
    <3> QED BY <1>3, <3>1, NewCode
  <2>5. RowsTrue'
    BY <1>3, <2>2 DEF RowsTrue, TypeOK, Failure
  <2> QED BY <2>1, <2>3, <2>4, <2>5
<1> QED BY <1>2, <1>3 DEF Local

\* A new object of Rows that borrows the rows of statements that succeeded.
LEMMA RowsStep ==
  ASSUME IInv, NEW w \in Rows, obj[w] = Nothing, NEW q \in Queries, obj[q].holds = "value",
         obj[q].block # Null,
         NEW S \in SUBSET (0..MaxStatements), statement' = [statement EXCEPT ![w] = S],
         \A i \in S : Batch(q)[i] = "ok",
         UNCHANGED <<heap, made, codes, wrong, blank>>,
         obj' = [obj EXCEPT ![w] = Value(obj[q].block)]
  PROVE  IInv'
<1> USE DEF IInv, Objects
<1>1. obj[q].block \in Blocks /\ Owns(q)
  BY OutcomeAssumption DEF TypeOK, Cells, Owns
<1>2. TypeOK'
  <2>1. obj' \in [Objects -> Cells]
    BY <1>1, CellsWritten DEF TypeOK
  <2> QED BY <2>1 DEF TypeOK
<1>3. obj'[w] = Value(obj[q].block) /\ \A p \in Objects \ {w} : obj'[p] = obj[p]
  BY DEF TypeOK
<1>4. Owned'
  <2>1. ~Owns(w)' /\ ~Owns(w)
    BY <1>3 DEF Owns, Value, Nothing
  <2> QED BY <1>3, <2>1, OwnsNothing
<1>5. FailureHasCode'
  <2>1. Value(obj[q].block).holds # "error"
    BY DEF Value
  <2> QED BY <2>1, NewCode
<1>6. RowsTrue'
  <2>1. heap[obj[q].block] = "live" /\ Batch(q) = codes[obj[q].block]
    BY <1>1 DEF Owned, OwnedIsLive, Batch
  <2> QED BY <1>1, <1>3, <2>1 DEF RowsTrue, TypeOK, Value
<1> QED BY <1>2, <1>4, <1>5, <1>6

\* checked() of statement i, which stands for the statements in S.
LEMMA CheckedStep ==
  ASSUME IInv, NEW w \in Rows, obj[w] = Nothing, NEW q \in Queries, obj[q].holds = "value",
         NEW i \in DOMAIN Batch(q), NEW b \in Blocks, Checked(q, i, w, b),
         statement' = [statement EXCEPT ![w] = {i}],
         UNCHANGED <<codes, wrong, blank>>
  PROVE  IInv'
<1>1. Batch(q) \in Seq(Codes) /\ i \in 0..MaxStatements
  BY BatchOfQuery, BatchIsSequence, OutcomeAssumption DEF IInv
<1>2. obj[q].block # Null
  BY DEF Batch
<1>3. {i} \in SUBSET (0..MaxStatements) /\ Batch(q)[i] \in Codes
  BY <1>1
<1>4. CASE Batch(q)[i] = "ok"
  <2>1. /\ obj' = [obj EXCEPT ![w] = Value(obj[q].block)]
        /\ UNCHANGED <<heap, made>>
    BY <1>4 DEF Checked
  <2>2. \A k \in {i} : Batch(q)[k] = "ok"
    BY <1>4
  <2> QED BY <1>2, <1>3, <2>1, <2>2, RowsStep
<1>5. CASE Batch(q)[i] # "ok"
  <2>1. Local(w, Batch(q)[i], b) /\ w \in Objects
    BY <1>5 DEF Checked, Objects
  <2> QED BY <1>3, <1>5, <2>1, ErrorStep
<1> QED BY <1>4, <1>5

\* The three ways to ask a query for its rows.
LEMMA QueryStep ==
  ASSUME IInv, NEW q \in Queries, NEW w \in Rows, NEW b \in Blocks,
         \/ \E i \in 1..MaxStatements : Statement(q, i, w, b)
         \/ Report(q, w, b)
         \/ Single(q, w, b)
  PROVE  IInv'
<1>1. ASSUME NEW i \in 1..MaxStatements, Statement(q, i, w, b)
      PROVE  IInv'
  BY <1>1, CheckedStep DEF Statement
<1>2. CASE Report(q, w, b)
  <2>1. CASE FirstError(q) = 0
    <3>1. {0} \in SUBSET (0..MaxStatements) /\ "ok" \in Codes /\ w \in Objects
      BY OutcomeAssumption DEF Codes, Objects
    <3>2. /\ obj[w] = Nothing /\ obj' = [obj EXCEPT ![w] = Failure("ok", "none", Null)]
          /\ blank' = blank \cup {w} /\ UNCHANGED <<heap, made, codes, wrong>>
          /\ statement' = [statement EXCEPT ![w] = {0}]
      BY <1>2, <2>1 DEF Report
    <3> QED BY <3>1, <3>2, ErrorStep
  <2>2. CASE FirstError(q) # 0
    <3>1. FirstError(q) \in DOMAIN Batch(q)
      BY <2>2, FirstErrorFails DEF IInv
    <3> QED BY <1>2, <2>2, <3>1, CheckedStep DEF Report
  <2> QED BY <2>1, <2>2
<1>3. CASE Single(q, w, b)
  <2>1. Batch(q) \in Seq(Codes) /\ Len(Batch(q)) \in 0..MaxStatements
        /\ DOMAIN Batch(q) = 1..Len(Batch(q))
    BY BatchOfQuery, BatchIsSequence DEF IInv
  <2>2. CASE Len(Batch(q)) # 1
    <3>1. DOMAIN Batch(q) \in SUBSET (0..MaxStatements)
      BY <2>1, OutcomeAssumption
    <3>2. "error" \in Codes /\ w \in Objects
      BY CodesOfFailures DEF Objects
    <3>3. /\ Local(w, "error", b) /\ obj[w] = Nothing /\ UNCHANGED <<codes, wrong, blank>>
          /\ statement' = [statement EXCEPT ![w] = DOMAIN Batch(q)]
      BY <1>3, <2>2 DEF Single
    <3> QED BY <3>1, <3>2, <3>3, ErrorStep
  <2>3. CASE Len(Batch(q)) = 1
    <3>1. 1 \in DOMAIN Batch(q) /\ DOMAIN Batch(q) = {1}
      BY <2>1, <2>3
    <3> QED BY <1>3, <2>3, <3>1, CheckedStep DEF Single
  <2> QED BY <2>2, <2>3
<1> QED BY <1>1, <1>2, <1>3

\* The default constructors.
LEMMA DefaultStep ==
  ASSUME IInv, NEW o \in Objects, Default(o)
  PROVE  IInv'
<1> USE DEF IInv
<1>1. CASE o \in Errors
  <2>1. obj' = [obj EXCEPT ![o] = Failure("ok", "none", Null)] /\ blank' = blank \cup {o}
    BY <1>1 DEF Default
  <2>2. obj' \in [Objects -> Cells] /\ blank' \subseteq Objects
    BY <2>1, CellsWritten, CodesOfFailures DEF TypeOK
  <2>3. obj'[o] = Failure("ok", "none", Null) /\ \A p \in Objects \ {o} : obj'[p] = obj[p]
    BY <2>1 DEF TypeOK
  <2>4. TypeOK'
    BY <2>2 DEF Default, TypeOK
  <2>5. ~Owns(o) /\ ~Owns(o)'
    BY <2>3 DEF Default, Owns, Nothing, Failure
  <2>6. Owned'
    BY <2>3, <2>5, OwnsNothing DEF Default
  <2>7. FailureHasCode'
    <3>1. Failure("ok", "none", Null).holds = "error" /\ Failure("ok", "none", Null).code = "ok"
      BY DEF Failure
    <3> QED BY <2>1, <3>1, NewCode DEF Default
  <2>8. RowsTrue'
    BY <2>3 DEF Default, RowsTrue, Failure, Objects
  <2> QED BY <2>4, <2>6, <2>7, <2>8
<1>2. CASE o \notin Errors
  <2>1. o \in Queries /\ obj' = [obj EXCEPT ![o] = Value(Null)] /\ blank' = blank
    BY <1>2 DEF Default
  <2>2. obj' \in [Objects -> Cells]
    BY <2>1, CellsWritten DEF TypeOK
  <2>3. obj'[o] = Value(Null) /\ \A p \in Objects \ {o} : obj'[p] = obj[p]
    BY <2>1 DEF TypeOK
  <2>4. TypeOK'
    BY <2>1, <2>2 DEF Default, TypeOK
  <2>5. ~Owns(o) /\ ~Owns(o)'
    BY <2>3 DEF Default, Owns, Nothing, Value
  <2>6. Owned'
    BY <2>3, <2>5, OwnsNothing DEF Default
  <2>7. FailureHasCode'
    <3>1. Value(Null).holds # "error"
      BY DEF Value
    <3> QED BY <2>1, <3>1, NewCode DEF Default
  <2>8. RowsTrue'
    <3>1. \A w \in Rows : w # o /\ w \in Objects
      BY <2>1, OutcomeAssumption DEF Objects
    <3> QED BY <2>3, <3>1 DEF Default, RowsTrue
  <2> QED BY <2>4, <2>6, <2>7, <2>8
<1> QED BY <1>1, <1>2

-----------------------------------------------------------------------------
\* The theorems.

LEMMA Invariant == Spec => []IInv
<1>1. Init => IInv
  <2> SUFFICES ASSUME Init PROVE IInv
    OBVIOUS
  <2>1. TypeOK
    BY EmptyBatch, CellsWritten DEF Init, TypeOK
  <2>2. Owned
    BY DEF Init, Owned, OwnedIsLive, OwnedOnce, LiveIsOwned, FreedRightly, Owns, Nothing
  <2>3. FailureHasCode /\ RowsTrue
    BY DEF Init, FailureHasCode, RowsTrue, Nothing, Objects
  <2> QED BY <2>1, <2>2, <2>3 DEF IInv
<1>2. IInv /\ [Next]_vars => IInv'
  <2> SUFFICES ASSUME IInv, [Next]_vars PROVE IInv'
    OBVIOUS
  <2>1. CASE Calls
    BY <2>1, CallFailsStep, CallReturnsStep DEF Calls
  <2>2. CASE \E s, d \in Objects : Move(s, d)
    BY <2>2, MoveStep
  <2>3. CASE \E o \in Objects : Default(o) \/ Destroy(o)
    BY <2>3, DefaultStep, DestroyStep
  <2>4. CASE \E q \in Queries, w \in Rows, b \in Blocks :
                 \/ \E i \in 1..MaxStatements : Statement(q, i, w, b)
                 \/ Report(q, w, b)
                 \/ Single(q, w, b)
    BY <2>4, QueryStep
  <2>5. CASE UNCHANGED vars
    BY <2>5 DEF vars, IInv, TypeOK, Owned, OwnedIsLive, OwnedOnce, LiveIsOwned, FreedRightly,
       Owns, Destructor, FailureHasCode, RowsTrue
  <2> QED BY <2>1, <2>2, <2>3, <2>4, <2>5 DEF Next
<1> QED BY <1>1, <1>2, PTL DEF Spec

\* Every variable keeps its type.
THEOREM OutcomeTypeCorrect == Spec => []TypeOK
<1>1. IInv => TypeOK
  BY DEF IInv
<1> QED BY <1>1, Invariant, PTL

\* However errors and results are moved, assigned over one another, taken apart
\* and destroyed, no message and no array is freed twice, and each goes to the
\* allocator it came from.
THEOREM MemoryIsFreedRightly == Spec => []FreedRightly
<1>1. IInv => FreedRightly
  BY DEF IInv, Owned
<1> QED BY <1>1, Invariant, PTL

\* Every block that is allocated has one owner, every other none: nothing leaks
\* and nothing is read after it was freed.
THEOREM BlocksHaveOneOwner == Spec => []OneOwner
<1>1. IInv => OneOwner
  BY OwnedGivesOneOwner DEF IInv
<1> QED BY <1>1, Invariant, PTL

\* A result without a value has the code of a failure, moved-from or not, unless
\* its error was default-constructed or that of an invalid statement.
THEOREM FailuresKeepCodes == Spec => []FailureHasCode
<1>1. IInv => FailureHasCode
  BY DEF IInv
<1> QED BY <1>1, Invariant, PTL

\* Rows come from statements that succeeded, for as long as there are rows.
THEOREM FailuresAreNotRows == Spec => []RowsAreOfASuccess
<1>1. IInv => RowsAreOfASuccess
  <2> SUFFICES ASSUME IInv, NEW w \in Rows, NEW q \in Queries, obj[w].holds = "value",
                      obj[q].holds = "value", obj[q].block = obj[w].block,
                      NEW i \in statement[w]
               PROVE  Batch(q)[i] = "ok"
    BY DEF RowsAreOfASuccess
  <2>1. obj[q].block \in Blocks /\ obj[q].block # Null
    BY OutcomeAssumption DEF IInv, RowsTrue
  <2>2. Owns(q) /\ q \in Objects
    BY <2>1, OutcomeAssumption DEF Owns, Objects
  <2>3. heap[obj[q].block] = "live"
    BY <2>2 DEF IInv, Owned, OwnedIsLive
  <2> QED BY <2>1, <2>3 DEF IInv, RowsTrue, Batch
<1> QED BY <1>1, Invariant, PTL
=============================================================================
