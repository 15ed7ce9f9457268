---------------------------- MODULE BuildersProofs ----------------------------
(****************************************************************************)
(* The safety properties of Builders for any number of blocks, variables    *)
(* and writes.                                                              *)
(****************************************************************************)
EXTENDS Builders, TLAPS

\* The heap and the variables match, one to one.
Owned ==
    /\ heap \subseteq Blocks
    /\ held \in [Owners -> Blocks \cup {Null}]
    /\ \A x \in Owners : held[x] # Null => held[x] \in heap
    /\ \A x, y \in Owners : held[x] = held[y] /\ held[x] # Null => x = y
    /\ \A b \in heap : \E x \in Owners : held[x] = b

\* A bound with a value is going to free it.
BoundsAgree ==
    /\ tag \in [Bounds -> {"unbounded", "included", "excluded"}]
    /\ armed \in [Bounds -> BOOLEAN]
    /\ \A x \in Bounds : held[x] # Null => armed[x] /\ tag[x] # "unbounded"

\* The block a builder has contains what was written into the builder.
Accounted(c) ==
    /\ held[c] # Null => size[held[c]] = asked[c]
    /\ c \in Arrays /\ held[c] = Null => asked[c] = 0

SizesAgree ==
    /\ size \in [Blocks -> Nat]
    /\ asked \in [Builders -> Nat]
    /\ \A c \in Builders : Accounted(c)

IInv == Owned /\ BoundsAgree /\ SizesAgree /\ stray = FALSE

-----------------------------------------------------------------------------
\* What the operators of Builders come to.

\* A call that is given only live blocks leaves the history clean.
LEMMA GivenLive ==
  ASSUME stray = FALSE, NEW S, NEW h, Given(S, h), S \subseteq h \cup {Null}
  PROVE  stray' = FALSE
BY DEF Given

\* Sizes are numbers.
LEMMA SizeTypes ==
  ASSUME BuildersAssumption, size \in [Blocks -> Nat], NEW b \in Blocks \cup {Null},
         NEW n \in Nat
  PROVE  SizeOf(b) \in Nat /\ Sized(b, n) \in [Blocks -> Nat]
BY DEF BuildersAssumption, SizeOf, Sized

\* A new heap with given contents.
LEMMA HeapTypes ==
  ASSUME NEW h, NEW s \in [Blocks -> Nat], HeapIs(h, s)
  PROVE  /\ heap' = h
         /\ size' \in [Blocks -> Nat]
         /\ \A b \in Blocks : b \in h => size'[b] = s[b]
BY DEF HeapIs

\* x gets a block of its own, or none, and what it had goes.
LEMMA GiveTo ==
  ASSUME BuildersAssumption, Owned, NEW x \in Owners, NEW b \in Answers(heap),
         held' = [held EXCEPT ![x] = b], heap' = With(b) \ {held[x]}
  PROVE  Owned'
<1> USE DEF BuildersAssumption, Answers, Free, With
<1>1. heap' \subseteq Blocks /\ held' \in [Owners -> Blocks \cup {Null}]
  BY DEF Owned
<1>2. ASSUME NEW y \in Owners, held'[y] # Null
      PROVE  held'[y] \in heap'
  BY <1>2 DEF Owned
<1>3. ASSUME NEW y \in Owners, NEW z \in Owners, held'[y] = held'[z], held'[y] # Null
      PROVE  y = z
  BY <1>3 DEF Owned
<1>4. ASSUME NEW c \in heap'
      PROVE  \E y \in Owners : held'[y] = c
  <2>1. CASE c = b
    BY <2>1 DEF Owned
  <2>2. CASE c # b
    <3>1. c \in heap /\ c # held[x]
      BY <2>2
    <3>2. PICK y \in Owners : held[y] = c
      BY <3>1 DEF Owned
    <3>3. held'[y] = c
      BY <3>1, <3>2 DEF Owned
    <3> QED BY <3>3
  <2> QED BY <2>1, <2>2
<1> QED
  BY <1>1, <1>2, <1>3, <1>4 DEF Owned

\* y takes over what x had, and what y had goes.
LEMMA PassOn ==
  ASSUME BuildersAssumption, Owned, NEW x \in Owners, NEW y \in Owners, x # y,
         held' = [held EXCEPT ![y] = held[x], ![x] = Null], heap' = heap \ {held[y]}
  PROVE  Owned'
<1> USE DEF BuildersAssumption
<1>1. heap' \subseteq Blocks /\ held' \in [Owners -> Blocks \cup {Null}]
  BY DEF Owned
<1>2. ASSUME NEW z \in Owners, held'[z] # Null
      PROVE  held'[z] \in heap'
  BY <1>2 DEF Owned
<1>3. ASSUME NEW u \in Owners, NEW z \in Owners, held'[u] = held'[z], held'[u] # Null
      PROVE  u = z
  BY <1>3 DEF Owned
<1>4. ASSUME NEW c \in heap'
      PROVE  \E z \in Owners : held'[z] = c
  <2>1. PICK z \in Owners : held[z] = c
    BY DEF Owned
  <2>2. CASE z = x
    <3>1. held'[y] = c
      BY <2>1, <2>2 DEF Owned
    <3> QED BY <3>1
  <2>3. CASE z # x
    <3>1. held'[z] = c
      BY <2>1, <2>3 DEF Owned
    <3> QED BY <3>1
  <2> QED BY <2>2, <2>3
<1> QED
  BY <1>1, <1>2, <1>3, <1>4 DEF Owned

\* What a bound frees is what it has.
LEMMA ReleasesHeld ==
  ASSUME BuildersAssumption, Owned, BoundsAgree, NEW x \in Bounds
  PROVE  /\ heap \ Releases(x) = heap \ {held[x]}
         /\ Releases(x) \subseteq heap \cup {Null}
<1>1. x \in Owners
  BY DEF Owners
<1>2. Null \notin heap
  BY DEF Owned, BuildersAssumption
<1>3. CASE held[x] = Null
  BY <1>2, <1>3 DEF Releases
<1>4. CASE held[x] # Null
  BY <1>1, <1>4 DEF Releases, BoundsAgree, Owned
<1> QED
  BY <1>3, <1>4

\* A call that does not touch bounds leaves them right.
LEMMA BoundsKept ==
  ASSUME BoundsAgree, UNCHANGED bounds, \A x \in Bounds : held'[x] = held[x]
  PROVE  BoundsAgree'
BY DEF BoundsAgree, bounds

\* No variable has two types.
LEMMA OneType ==
  ASSUME BuildersAssumption
  PROVE  /\ \A x \in Builders : x \in Owners /\ x \notin Bounds /\ x \notin Values /\ x \notin Keys
         /\ \A x \in Values \cup Keys : x \in Owners /\ x \notin Bounds /\ x \notin Builders
         /\ \A x \in Bounds : x \in Owners /\ x \notin Builders /\ x \notin Values /\ x \notin Keys
         /\ \A x \in Objects : x \in Builders /\ x \notin Arrays
         /\ \A x \in Arrays : x \in Builders /\ x \notin Objects
BY DEF BuildersAssumption, Owners, Builders

\* A builder whose block stays as it is remains accounted for.
LEMMA Bystander ==
  ASSUME SizesAgree, NEW c \in Builders, held'[c] = held[c], asked'[c] = asked[c],
         held[c] # Null => size'[held[c]] = size[held[c]]
  PROVE  Accounted(c)'
BY DEF SizesAgree, Accounted

\* The sizes after x got a block with n writes in it.
LEMMA GiveSizes ==
  ASSUME BuildersAssumption, Owned, SizesAgree, NEW x \in Owners, NEW b \in Answers(heap),
         NEW n \in Nat,
         held' = [held EXCEPT ![x] = b], HeapIs(With(b) \ {held[x]}, Sized(b, n)),
         asked' \in [Builders -> Nat], \A c \in Builders \ {x} : asked'[c] = asked[c],
         x \in Builders /\ b # Null => asked'[x] = n,
         x \in Arrays /\ b = Null => asked'[x] = 0
  PROVE  SizesAgree'
<1>1. b \in Blocks \cup {Null} /\ b \notin heap /\ Null \notin heap /\ size \in [Blocks -> Nat]
  BY DEF BuildersAssumption, Answers, Free, Owned, SizesAgree
<1>2. Sized(b, n) \in [Blocks -> Nat]
  BY <1>1, SizeTypes
<1>3. /\ size' \in [Blocks -> Nat]
      /\ \A d \in Blocks : d \in With(b) \ {held[x]} => size'[d] = Sized(b, n)[d]
  BY <1>2, HeapTypes
<1>4. ASSUME NEW c \in Builders, c # x
      PROVE  Accounted(c)'
  <2>1. c \in Owners /\ held'[c] = held[c] /\ asked'[c] = asked[c]
    BY <1>4 DEF Owners, Builders, Owned
  <2>2. ASSUME held[c] # Null
        PROVE  size'[held[c]] = size[held[c]]
    <3>1. held[c] \in heap /\ held[c] # held[x] /\ held[c] # b /\ held[c] \in Blocks
      BY <1>1, <1>4, <2>1, <2>2 DEF Owned
    <3>2. size'[held[c]] = Sized(b, n)[held[c]]
      BY <1>3, <3>1 DEF With
    <3> QED
      BY <1>1, <3>1, <3>2 DEF Sized
  <2> QED
    BY <2>1, <2>2, Bystander
<1>5. ASSUME x \in Builders
      PROVE  Accounted(x)'
  <2>1. held'[x] = b
    BY DEF Owned
  <2>2. CASE b = Null
    BY <2>1, <2>2 DEF Accounted
  <2>3. CASE b # Null
    <3>1. b \in With(b) \ {held[x]} /\ b \in Blocks
      BY <1>1, <2>3 DEF With, Owned
    <3>2. size'[b] = n
      BY <1>1, <1>3, <2>3, <3>1 DEF Sized
    <3> QED
      BY <1>5, <2>1, <2>3, <3>2 DEF Accounted
  <2> QED BY <2>2, <2>3
<1> QED
  BY <1>3, <1>4, <1>5 DEF SizesAgree

\* The sizes after blocks no builder has went.
LEMMA PlainSizes ==
  ASSUME BuildersAssumption, Owned, SizesAgree, NEW h, HeapIs(h, size), UNCHANGED asked,
         \A c \in Builders : held'[c] = held[c] /\ (held[c] # Null => held[c] \in h)
  PROVE  SizesAgree'
<1>1. /\ size' \in [Blocks -> Nat]
      /\ \A d \in Blocks : d \in h => size'[d] = size[d]
  BY HeapTypes DEF SizesAgree
<1>2. ASSUME NEW c \in Builders
      PROVE  Accounted(c)'
  <2>1. c \in Owners /\ (held[c] # Null => held[c] \in Blocks)
    BY DEF Owners, Builders, Owned
  <2> QED
    BY <1>1, <2>1, Bystander
<1> QED
  BY <1>1, <1>2 DEF SizesAgree

-----------------------------------------------------------------------------
\* Every call preserves the invariant.

LEMMA InvInit == ASSUME BuildersAssumption, Init PROVE IInv
<1> USE DEF Init, BuildersAssumption
<1>1. Owned
  BY DEF Owned
<1>2. BoundsAgree
  BY DEF BoundsAgree, Owners
<1>3. SizesAgree
  BY DEF SizesAgree, Accounted, Builders, Owners
<1> QED
  BY <1>1, <1>2, <1>3 DEF IInv

LEMMA MoveStep ==
  ASSUME BuildersAssumption, IInv, NEW x \in Owners, NEW y \in Owners, Move(x, y)
  PROVE  IInv'
<1> USE DEF IInv
<1>1. /\ x # y /\ SameType(x, y)
      /\ held' = [held EXCEPT ![y] = held[x], ![x] = Null]
      /\ asked' = [c \in Builders |-> IF c = y THEN asked[x] ELSE
                                      IF c = x THEN 0 ELSE asked[c]]
      /\ Given({held[y]}, heap)
      /\ HeapIs(heap \ {held[y]}, size)
      /\ UNCHANGED bounds
  BY DEF Move
<1>2. /\ x \notin Bounds /\ y \notin Bounds
      /\ x \in Builders <=> y \in Builders
      /\ x \in Arrays <=> y \in Arrays
  BY <1>1, OneType DEF SameType, Builders
<1>3. /\ size' \in [Blocks -> Nat]
      /\ \A d \in Blocks : d \in heap \ {held[y]} => size'[d] = size[d]
  BY <1>1, HeapTypes DEF SizesAgree
<1>4. Owned'
  BY <1>1, PassOn DEF HeapIs
<1>5. BoundsAgree'
  <2>1. \A z \in Bounds : held'[z] = held[z]
    BY <1>1, <1>2 DEF Owned, Owners
  <2> QED BY <1>1, <2>1, BoundsKept
<1>6. asked' \in [Builders -> Nat]
  BY <1>1, <1>2 DEF SizesAgree
<1>7. ASSUME NEW c \in Builders
      PROVE  Accounted(c)'
  <2>1. c \in Owners
    BY DEF Owners, Builders
  <2>2. CASE c = x
    BY <1>1, <2>1, <2>2 DEF Accounted, Owned
  <2>3. CASE c = y
    <3>1. held'[c] = held[x] /\ asked'[c] = asked[x]
      BY <1>1, <2>1, <2>3 DEF Owned
    <3>2. held[x] # Null => /\ held[x] \in heap \ {held[y]} /\ held[x] \in Blocks
                           /\ size'[held[x]] = size[held[x]]
      BY <1>1, <1>3 DEF Owned
    <3>3. Accounted(x)
      BY <1>2, <2>3 DEF SizesAgree
    <3> QED
      BY <1>2, <2>3, <3>1, <3>2, <3>3 DEF Accounted
  <2>4. CASE c # x /\ c # y
    <3>1. held'[c] = held[c] /\ asked'[c] = asked[c]
      BY <1>1, <2>1, <2>4 DEF Owned
    <3>2. held[c] # Null => size'[held[c]] = size[held[c]]
      BY <1>1, <1>3, <2>1, <2>4 DEF Owned
    <3> QED
      BY <3>1, <3>2, Bystander
  <2> QED BY <2>2, <2>3, <2>4
<1>8. stray' = FALSE
  <2>1. {held[y]} \subseteq heap \cup {Null}
    BY DEF Owned
  <2> QED BY <1>1, <2>1, GivenLive
<1> QED
  BY <1>3, <1>4, <1>5, <1>6, <1>7, <1>8 DEF SizesAgree

\* Any call that gives one variable, no bound, a block and reads only live ones.
LEMMA GiveStep ==
  ASSUME BuildersAssumption, IInv, NEW x \in Owners, x \notin Bounds,
         NEW b \in Answers(heap), NEW n \in Nat,
         held' = [held EXCEPT ![x] = b], HeapIs(With(b) \ {held[x]}, Sized(b, n)),
         asked' \in [Builders -> Nat], \A c \in Builders \ {x} : asked'[c] = asked[c],
         x \in Builders /\ b # Null => asked'[x] = n,
         x \in Arrays /\ b = Null => asked'[x] = 0,
         UNCHANGED bounds, stray' = FALSE
  PROVE  IInv'
<1>1. Owned'
  BY GiveTo DEF IInv, HeapIs
<1>2. SizesAgree'
  BY GiveSizes DEF IInv
<1>3. BoundsAgree'
  <2>1. \A y \in Bounds : held'[y] = held[y]
    BY DEF IInv, Owned, Owners
  <2> QED BY <2>1, BoundsKept DEF IInv
<1> QED
  BY <1>1, <1>2, <1>3 DEF IInv

\* What a variable has is live, or nothing.
LEMMA HeldLive ==
  ASSUME Owned, NEW x \in Owners
  PROVE  held[x] \in heap \cup {Null}
BY DEF Owned

LEMMA DestroyStep ==
  ASSUME BuildersAssumption, IInv, NEW x \in Owners, Destroy(x)
  PROVE  IInv'
<1>1. /\ x \notin Bounds
      /\ held' = [held EXCEPT ![x] = Null]
      /\ asked' = [c \in Builders |-> IF c = x THEN 0 ELSE asked[c]]
      /\ Given({held[x]}, heap)
      /\ HeapIs(heap \ {held[x]}, size)
      /\ UNCHANGED bounds
  BY DEF Destroy
<1>2. HeapIs(With(Null) \ {held[x]}, Sized(Null, 0)) /\ Null \in Answers(heap)
  <2>1. With(Null) = heap /\ Sized(Null, 0) = size
    BY DEF With, Sized
  <2> QED BY <1>1, <2>1 DEF Answers
<1>3. asked' \in [Builders -> Nat] /\ \A c \in Builders \ {x} : asked'[c] = asked[c]
  BY <1>1 DEF IInv, SizesAgree
<1>4. x \in Arrays => asked'[x] = 0
  BY <1>1 DEF Builders
<1>5. stray' = FALSE
  <2>1. {held[x]} \subseteq heap \cup {Null}
    BY HeldLive DEF IInv
  <2> QED BY <1>1, <2>1, GivenLive DEF IInv
<1> QED
  BY <1>1, <1>2, <1>3, <1>4, <1>5, GiveStep

LEMMA MakeStep ==
  ASSUME BuildersAssumption, IInv, NEW v \in Values,
         NEW src \in {Null} \cup {held[x] : x \in Builders}, NEW b \in Answers(heap),
         Make(v, src, b)
  PROVE  IInv'
<1>1. v \in Owners /\ v \notin Bounds /\ v \notin Builders /\ Arrays \subseteq Builders
  BY OneType
<1>2. src \in heap \cup {Null}
  BY HeldLive, OneType DEF IInv
<1>3. SizeOf(src) \in Nat
  BY <1>2, SizeTypes DEF IInv, Owned, SizesAgree
<1>4. stray' = FALSE
  <2>1. {src, held[v]} \subseteq heap \cup {Null}
    BY <1>1, <1>2, HeldLive DEF IInv
  <2> QED BY <2>1, GivenLive DEF IInv, Make
<1>5. asked' \in [Builders -> Nat] /\ \A c \in Builders : asked'[c] = asked[c]
  BY DEF Make, IInv, SizesAgree
<1> QED
  BY <1>1, <1>3, <1>4, <1>5, GiveStep DEF Make

LEMMA NewObjectStep ==
  ASSUME BuildersAssumption, IInv, NEW o \in Objects, NEW b \in Free(heap), NewObject(o, b)
  PROVE  IInv'
<1>1. o \in Owners /\ o \notin Bounds /\ o \in Builders /\ o \notin Arrays
  BY OneType
<1>2. b \in Answers(heap)
  BY DEF Answers
<1>3. stray' = FALSE
  <2>1. {held[o]} \subseteq heap \cup {Null}
    BY <1>1, HeldLive DEF IInv
  <2> QED BY <2>1, GivenLive DEF IInv, NewObject
<1>4. /\ asked' \in [Builders -> Nat] /\ asked'[o] = 0
      /\ \A c \in Builders \ {o} : asked'[c] = asked[c]
  BY <1>1 DEF NewObject, IInv, SizesAgree
<1> QED
  BY <1>1, <1>2, <1>3, <1>4, GiveStep DEF NewObject

\* A write into an object that is given only live blocks.
LEMMA InsertStep ==
  ASSUME BuildersAssumption, IInv, NEW o \in Objects, NEW reads, NEW h,
         heap \subseteq h, reads \subseteq h \cup {Null}, Insert(o, reads, h),
         UNCHANGED <<held, bounds>>
  PROVE  IInv'
<1>1. o \in Owners /\ o \in Builders /\ o \notin Arrays
  BY OneType
<1>2. held[o] \in heap \cup {Null} /\ held[o] \in Blocks \cup {Null} /\ Null \notin heap
  BY <1>1, HeldLive DEF IInv, Owned, BuildersAssumption
<1>3. stray' = FALSE
  <2>1. reads \cup {held[o]} \subseteq h \cup {Null}
    BY <1>2
  <2> QED BY <2>1, GivenLive DEF IInv, Insert
<1>4. heap' = heap /\ Owned' /\ BoundsAgree'
  BY DEF IInv, Insert, HeapIs, Owned, BoundsAgree, bounds
<1>5. SizeOf(held[o]) + 1 \in Nat /\ Sized(held[o], SizeOf(held[o]) + 1) \in [Blocks -> Nat]
  <2>1. SizeOf(held[o]) \in Nat
    BY <1>2, SizeTypes DEF IInv, SizesAgree
  <2>2. SizeOf(held[o]) + 1 \in Nat
    BY <2>1
  <2> QED BY <1>2, <2>2, SizeTypes DEF IInv, SizesAgree
<1>6. /\ size' \in [Blocks -> Nat]
      /\ \A d \in Blocks : d \in heap => size'[d] = Sized(held[o], SizeOf(held[o]) + 1)[d]
  BY <1>5, HeapTypes DEF Insert
<1>7. /\ asked' \in [Builders -> Nat] /\ asked'[o] = asked[o] + 1
      /\ \A c \in Builders \ {o} : asked'[c] = asked[c]
  BY <1>1 DEF Insert, IInv, SizesAgree
<1>8. ASSUME NEW c \in Builders
      PROVE  Accounted(c)'
  <2>1. c \in Owners
    BY OneType
  <2>2. CASE c = o
    <3>1. CASE held[o] = Null
      BY <1>1, <2>2, <3>1 DEF Accounted
    <3>2. CASE held[o] # Null
      <4>1. size'[held[o]] = size[held[o]] + 1
        BY <1>2, <1>6, <3>2 DEF Sized, SizeOf, IInv, SizesAgree
      <4>2. size[held[o]] = asked[o]
        BY <1>1, <3>2 DEF IInv, SizesAgree, Accounted
      <4> QED BY <1>1, <1>7, <2>2, <3>2, <4>1, <4>2 DEF Accounted
    <3> QED BY <3>1, <3>2
  <2>3. CASE c # o
    <3>1. ASSUME held[c] # Null
          PROVE  size'[held[c]] = size[held[c]]
      <4>1. held[c] \in heap /\ held[c] \in Blocks /\ held[c] # held[o]
        BY <1>1, <2>1, <2>3, <3>1 DEF IInv, Owned
      <4> QED BY <1>2, <1>6, <4>1 DEF Sized, IInv, SizesAgree
    <3> QED BY <1>7, <2>3, <3>1, Bystander DEF IInv
  <2> QED BY <2>2, <2>3
<1> QED
  BY <1>3, <1>4, <1>6, <1>7, <1>8 DEF IInv, SizesAgree

\* What a call may borrow is live.
LEMMA ReadableLive ==
  ASSUME BuildersAssumption, Owned, NEW x \in Readable
  PROVE  x \in heap \cup {Null}
BY HeldLive, OneType DEF Readable

LEMMA SetValueStep ==
  ASSUME BuildersAssumption, IInv, NEW o \in Objects, NEW x \in Readable, SetValue(o, x)
  PROVE  IInv'
<1>1. {x} \subseteq heap \cup {Null}
  BY ReadableLive DEF IInv
<1> QED
  BY <1>1, InsertStep DEF SetValue

LEMMA SetMadeStep ==
  ASSUME BuildersAssumption, IInv, NEW o \in Objects,
         NEW list \in {Null} \cup {held[a] : a \in Arrays}, NEW box \in Answers(heap),
         SetMade(o, list, box)
  PROVE  IInv'
<1>1. list \in heap \cup {Null}
  BY HeldLive, OneType DEF IInv
<1>2. {box, list} \subseteq With(box) \cup {Null} /\ heap \subseteq With(box)
  BY <1>1 DEF With
<1>3. CASE box # Null
  BY <1>2, <1>3, InsertStep DEF SetMade
<1>4. CASE box = Null
  <2>1. Given({list}, heap) /\ UNCHANGED <<heap, size, held, asked, bounds>>
    BY <1>4 DEF SetMade
  <2>2. stray' = FALSE
    BY <1>1, <2>1, GivenLive DEF IInv
  <2> QED
    BY <2>1, <2>2 DEF IInv, Owned, BoundsAgree, bounds, SizesAgree, Accounted
<1> QED
  BY <1>3, <1>4

LEMMA SetNestedStep ==
  ASSUME BuildersAssumption, IInv, NEW o \in Objects, NEW p \in Objects, SetNested(o, p)
  PROVE  IInv'
<1> DEFINE target == IF o = p THEN Null ELSE held[o]
<1>1. PICK made \in BOOLEAN :
        /\ asked' = [[asked EXCEPT ![p] = 0] EXCEPT ![o] = IF made THEN @ + 1 ELSE @]
        /\ HeapIs(heap \ {held[p]}, IF made THEN Sized(target, SizeOf(target) + 1) ELSE size)
  BY DEF SetNested
<1>2. /\ held' = [held EXCEPT ![p] = Null]
      /\ Given({held[p], target}, heap)
      /\ UNCHANGED bounds
  BY DEF SetNested
<1>3. /\ o \in Owners /\ o \in Builders /\ o \notin Arrays
      /\ p \in Owners /\ p \in Builders /\ p \notin Arrays /\ p \notin Bounds
  BY OneType
<1>4. /\ target \in heap \cup {Null} /\ target \in Blocks \cup {Null} /\ Null \notin heap
      /\ held[p] \in heap \cup {Null}
  BY <1>3, HeldLive DEF IInv, Owned, BuildersAssumption
<1> HIDE DEF target
<1>5. stray' = FALSE
  <2>1. {held[p], target} \subseteq heap \cup {Null}
    BY <1>4
  <2> QED BY <1>2, <2>1, GivenLive DEF IInv
<1>6. Owned'
  <2>1. Null \in Answers(heap) /\ With(Null) = heap
    BY DEF Answers, With
  <2> QED BY <1>1, <1>2, <1>3, <2>1, GiveTo DEF IInv, HeapIs
<1>7. BoundsAgree'
  <2>1. \A z \in Bounds : held'[z] = held[z]
    BY <1>2, <1>3 DEF IInv, Owned, Owners
  <2> QED BY <1>2, <2>1, BoundsKept DEF IInv
<1> DEFINE s == IF made THEN Sized(target, SizeOf(target) + 1) ELSE size
<1>8. s \in [Blocks -> Nat]
  <2>1. SizeOf(target) \in Nat
    BY <1>4, SizeTypes DEF IInv, SizesAgree
  <2>2. SizeOf(target) + 1 \in Nat
    BY <2>1
  <2> QED BY <1>4, <2>2, SizeTypes DEF IInv, SizesAgree
<1>9. /\ size' \in [Blocks -> Nat]
      /\ \A d \in Blocks : d \in heap \ {held[p]} => size'[d] = s[d]
  BY <1>1, <1>8, HeapTypes
<1>10. /\ asked' \in [Builders -> Nat]
       /\ o # p => asked'[p] = 0 /\ asked'[o] = IF made THEN asked[o] + 1 ELSE asked[o]
       /\ \A c \in Builders \ {o, p} : asked'[c] = asked[c]
  BY <1>1, <1>3 DEF IInv, SizesAgree
<1>11. ASSUME NEW c \in Builders
       PROVE  Accounted(c)'
  <2>1. c \in Owners
    BY OneType
  <2>2. CASE c = p
    BY <1>2, <1>3, <2>2 DEF Accounted, IInv, Owned
  <2>3. ASSUME c # p, held[c] # Null
        PROVE  held[c] \in heap \ {held[p]} /\ held[c] \in Blocks /\ size'[held[c]] = s[held[c]]
    BY <1>3, <1>9, <2>1, <2>3 DEF IInv, Owned
  <2>4. CASE c = o /\ o # p
    <3>1. held'[c] = held[o]
      BY <1>2, <1>3, <2>4 DEF IInv, Owned
    <3>2. CASE held[o] = Null
      BY <1>3, <2>4, <3>1, <3>2 DEF Accounted
    <3>3. CASE held[o] # Null
      <4>1. size[held[o]] = asked[o]
        BY <1>3, <3>3 DEF IInv, SizesAgree, Accounted
      <4>2. s[held[o]] = IF made THEN asked[o] + 1 ELSE asked[o]
        BY <1>4, <2>4, <3>3, <4>1 DEF target, Sized, SizeOf, IInv, SizesAgree
      <4> QED BY <1>3, <1>10, <2>3, <2>4, <3>1, <3>3, <4>2 DEF Accounted
    <3> QED BY <3>2, <3>3
  <2>5. CASE c # o /\ c # p
    <3>1. held'[c] = held[c] /\ asked'[c] = asked[c]
      BY <1>2, <1>3, <1>10, <2>1, <2>5 DEF IInv, Owned
    <3>2. ASSUME held[c] # Null
          PROVE  size'[held[c]] = size[held[c]]
      <4>1. held[c] # target
        BY <1>3, <2>1, <2>5, <3>2 DEF target, IInv, Owned
      <4>2. s[held[c]] = size[held[c]]
        BY <1>4, <2>3, <2>5, <3>2, <4>1 DEF Sized, IInv, SizesAgree
      <4> QED BY <2>3, <2>5, <3>2, <4>2
    <3> QED BY <3>1, <3>2, Bystander DEF IInv
  <2> QED BY <2>2, <2>4, <2>5
<1> QED
  BY <1>5, <1>6, <1>7, <1>9, <1>10, <1>11 DEF IInv, SizesAgree

LEMMA CopyObjectStep ==
  ASSUME BuildersAssumption, IInv, NEW o \in Objects, NEW p \in Objects,
         NEW keys \in Free(heap), NEW b \in Free(heap), CopyObject(o, p, keys, b)
  PROVE  IInv'
<1>1. /\ o \in Owners /\ o \in Builders /\ o \notin Arrays /\ o \notin Bounds
      /\ p \in Owners /\ p \in Builders
  BY OneType
<1>2. /\ held[o] \in heap \cup {Null} /\ held[p] \in heap \cup {Null}
      /\ held[p] \in Blocks \cup {Null}
  BY <1>1, HeldLive DEF IInv, Owned
<1>3. {held[p], held[o], keys} \subseteq With(keys) \cup {Null}
  BY <1>2 DEF With
<1>4. stray' = FALSE
  <2>1. {held[p], keys} \subseteq With(keys) \cup {Null}
    BY <1>3
  <2> QED BY <1>3, <2>1, GivenLive DEF IInv, CopyObject
<1>5. UNCHANGED bounds
  BY DEF CopyObject
<1>6. CASE UNCHANGED <<heap, size, held, asked>>
  BY <1>4, <1>5, <1>6 DEF IInv, Owned, BoundsAgree, bounds, SizesAgree, Accounted
<1>7. CASE /\ held' = [held EXCEPT ![o] = b]
           /\ asked' = [asked EXCEPT ![o] = IF held[p] = Null THEN 0 ELSE asked[p]]
           /\ HeapIs(With(b) \ {held[o]}, Sized(b, SizeOf(held[p])))
  <2>1. SizeOf(held[p]) \in Nat
    BY <1>2, SizeTypes DEF IInv, SizesAgree
  <2>2. SizeOf(held[p]) = IF held[p] = Null THEN 0 ELSE asked[p]
    BY <1>1 DEF SizeOf, IInv, SizesAgree, Accounted
  <2>3. /\ asked' \in [Builders -> Nat] /\ asked'[o] = SizeOf(held[p])
        /\ \A c \in Builders \ {o} : asked'[c] = asked[c]
    BY <1>1, <1>7, <2>1, <2>2 DEF IInv, SizesAgree
  <2>4. b \in Answers(heap)
    BY DEF Answers
  <2> QED
    BY <1>1, <1>4, <1>5, <1>7, <2>1, <2>3, <2>4, GiveStep
<1> QED
  BY <1>6, <1>7 DEF CopyObject

LEMMA KeysOfStep ==
  ASSUME BuildersAssumption, IInv, NEW k \in Keys, NEW o \in Objects, NEW b \in Free(heap),
         KeysOf(k, o, b)
  PROVE  IInv'
<1>1. /\ k \in Owners /\ k \notin Bounds /\ k \notin Builders /\ Arrays \subseteq Builders
      /\ o \in Owners
  BY OneType
<1>2. held[o] \in heap /\ held[o] \in Blocks /\ size[held[o]] \in Nat
  BY <1>1 DEF KeysOf, IInv, Owned, SizesAgree
<1>3. stray' = FALSE
  <2>1. {held[o]} \subseteq heap \cup {Null}
    BY <1>2
  <2> QED BY <2>1, GivenLive DEF IInv, KeysOf
<1>4. HeapIs(With(b) \ {held[k]}, Sized(b, size[held[o]]))
  <2>1. With(b) \ {held[k]} = With(b)
    BY DEF KeysOf, With, IInv, Owned, BuildersAssumption
  <2> QED BY <2>1 DEF KeysOf
<1>5. b \in Answers(heap)
  BY DEF Answers
<1>6. asked' \in [Builders -> Nat] /\ \A c \in Builders : asked'[c] = asked[c]
  BY DEF KeysOf, IInv, SizesAgree
<1> QED
  BY <1>1, <1>2, <1>3, <1>4, <1>5, <1>6, GiveStep DEF KeysOf

\* A push that is given only live blocks.
LEMMA PushStep ==
  ASSUME BuildersAssumption, IInv, NEW a \in Arrays, NEW reads, NEW h,
         heap \subseteq h, reads \subseteq h \cup {Null}, Push(a, reads, h), UNCHANGED bounds
  PROVE  IInv'
<1>1. a \in Owners /\ a \in Builders /\ a \notin Bounds
  BY OneType
<1>2. held[a] \in heap \cup {Null} /\ held[a] \in Blocks \cup {Null}
  BY <1>1, HeldLive DEF IInv, Owned
<1>3. stray' = FALSE
  <2>1. reads \cup {held[a]} \subseteq h \cup {Null}
    BY <1>2
  <2> QED BY <2>1, GivenLive DEF IInv, Push
<1>4. CASE UNCHANGED <<heap, size, held, asked>>
  BY <1>3, <1>4 DEF IInv, Owned, BoundsAgree, bounds, SizesAgree, Accounted
<1>5. ASSUME NEW next \in Free(h),
             held' = [held EXCEPT ![a] = next],
             HeapIs(With(next) \ {held[a]}, Sized(next, SizeOf(held[a]) + 1)),
             asked' = [asked EXCEPT ![a] = @ + 1]
      PROVE  IInv'
  <2>1. SizeOf(held[a]) = asked[a] /\ asked[a] \in Nat
    BY <1>1 DEF SizeOf, IInv, SizesAgree, Accounted
  <2>2. SizeOf(held[a]) + 1 \in Nat
    BY <2>1
  <2>3. /\ asked' \in [Builders -> Nat] /\ asked'[a] = SizeOf(held[a]) + 1
        /\ \A c \in Builders \ {a} : asked'[c] = asked[c]
    BY <1>1, <1>5, <2>1 DEF IInv, SizesAgree
  <2>4. next \in Answers(heap) /\ next # Null
    BY DEF Answers, Free, BuildersAssumption
  <2> QED
    BY <1>1, <1>3, <1>5, <2>2, <2>3, <2>4, GiveStep
<1> QED
  BY <1>4, <1>5 DEF Push

LEMMA PushValueStep ==
  ASSUME BuildersAssumption, IInv, NEW a \in Arrays, NEW x \in Readable, PushValue(a, x)
  PROVE  IInv'
<1>1. {x} \subseteq heap \cup {Null}
  BY ReadableLive DEF IInv
<1> QED
  BY <1>1, PushStep DEF PushValue

LEMMA PushMadeStep ==
  ASSUME BuildersAssumption, IInv, NEW a \in Arrays,
         NEW list \in {Null} \cup {held[x] : x \in Arrays}, NEW box \in Answers(heap),
         PushMade(a, list, box)
  PROVE  IInv'
<1>1. list \in heap \cup {Null}
  BY HeldLive, OneType DEF IInv
<1>2. {box, list} \subseteq With(box) \cup {Null} /\ heap \subseteq With(box)
  BY <1>1 DEF With
<1>3. CASE box # Null
  BY <1>2, <1>3, PushStep DEF PushMade
<1>4. CASE box = Null
  <2>1. Given({list}, heap) /\ UNCHANGED <<heap, size, held, asked, bounds>>
    BY <1>4 DEF PushMade
  <2>2. stray' = FALSE
    BY <1>1, <2>1, GivenLive DEF IInv
  <2> QED
    BY <2>1, <2>2 DEF IInv, Owned, BoundsAgree, bounds, SizesAgree, Accounted
<1> QED
  BY <1>3, <1>4

LEMMA CopyArrayStep ==
  ASSUME BuildersAssumption, IInv, NEW a \in Arrays, NEW x \in Arrays,
         NEW c \in Answers(heap), CopyArray(a, x, c)
  PROVE  IInv'
<1>1. a \in Owners /\ a \in Builders /\ a \notin Bounds /\ x \in Owners /\ x \in Builders
  BY OneType
<1>2. SizeOf(held[x]) = asked[x] /\ asked[x] \in Nat
  BY <1>1 DEF SizeOf, IInv, SizesAgree, Accounted
<1>3. stray' = FALSE
  <2>1. {held[x], held[a]} \subseteq heap \cup {Null}
    BY <1>1, HeldLive DEF IInv
  <2> QED BY <2>1, GivenLive DEF IInv, CopyArray
<1>4. /\ asked' \in [Builders -> Nat] /\ asked'[a] = SizeOf(held[x])
      /\ \A d \in Builders \ {a} : asked'[d] = asked[d]
  BY <1>1, <1>2 DEF CopyArray, IInv, SizesAgree
<1> QED
  BY <1>1, <1>2, <1>3, <1>4, GiveStep DEF CopyArray

\* The block of a value or a bound goes without builders noticing.
LEMMA ValuesStep ==
  ASSUME BuildersAssumption, IInv, NEW v \in Values \cup Bounds,
         HeapIs(heap \ {held[v]}, size), UNCHANGED asked,
         \A c \in Builders : held'[c] = held[c]
  PROVE  SizesAgree'
<1>1. ASSUME NEW c \in Builders, held[c] # Null
      PROVE  held[c] \in heap \ {held[v]}
  <2>1. v \in Owners /\ c \in Owners /\ v # c
    BY OneType
  <2> QED BY <1>1, <2>1 DEF IInv, Owned
<1> QED
  BY <1>1, PlainSizes DEF IInv

LEMMA BindStep ==
  ASSUME BuildersAssumption, IInv, NEW x \in Bounds, NEW v \in Values,
         NEW t \in {"included", "excluded"}, Bind(x, v, t)
  PROVE  IInv'
<1>1. /\ x \in Owners /\ x \notin Builders /\ v \in Owners /\ v \notin Builders
      /\ v \notin Bounds /\ x # v
  BY OneType
<1>2. heap \ Releases(x) = heap \ {held[x]} /\ Releases(x) \subseteq heap \cup {Null}
  BY ReleasesHeld DEF IInv
<1>3. /\ held' = [held EXCEPT ![x] = held[v], ![v] = Null]
      /\ HeapIs(heap \ {held[x]}, size)
  BY <1>2 DEF Bind
<1>4. Owned'
  BY <1>1, <1>3, PassOn DEF IInv, HeapIs
<1>5. BoundsAgree'
  <2>1. \A z \in Bounds \ {x} : held'[z] = held[z]
    BY <1>1, <1>3 DEF IInv, Owned, Owners
  <2> QED BY <2>1 DEF Bind, IInv, BoundsAgree
<1>6. SizesAgree'
  <2>1. \A c \in Builders : held'[c] = held[c]
    BY <1>1, <1>3, OneType DEF IInv, Owned
  <2>2. HeapIs(heap \ {held[x]}, size) /\ UNCHANGED asked
    BY <1>3 DEF Bind
  <2>3. x \in Values \cup Bounds
    OBVIOUS
  <2> QED BY <2>1, <2>2, <2>3, ValuesStep
<1>7. stray' = FALSE
  BY <1>2, GivenLive DEF IInv, Bind
<1> QED
  BY <1>4, <1>5, <1>6, <1>7 DEF IInv

LEMMA MoveBoundStep ==
  ASSUME BuildersAssumption, IInv, NEW x \in Bounds, NEW y \in Bounds, MoveBound(x, y)
  PROVE  IInv'
<1>1. x \in Owners /\ x \notin Builders /\ y \in Owners /\ y \notin Builders /\ x # y
  BY OneType DEF MoveBound
<1>2. heap \ Releases(y) = heap \ {held[y]} /\ Releases(y) \subseteq heap \cup {Null}
  BY ReleasesHeld DEF IInv
<1>3. /\ held' = [held EXCEPT ![y] = held[x], ![x] = Null]
      /\ HeapIs(heap \ {held[y]}, size)
  BY <1>2 DEF MoveBound
<1>4. Owned'
  BY <1>1, <1>3, PassOn DEF IInv, HeapIs
<1>5. BoundsAgree'
  <2>1. \A z \in Bounds \ {x, y} : held'[z] = held[z]
    BY <1>1, <1>3 DEF IInv, Owned, Owners
  <2>2. held'[y] = held[x] /\ held'[x] = Null
    BY <1>1, <1>3 DEF IInv, Owned
  <2> QED BY <1>1, <2>1, <2>2 DEF MoveBound, IInv, BoundsAgree
<1>6. SizesAgree'
  <2>1. \A c \in Builders : held'[c] = held[c]
    BY <1>1, <1>3, OneType DEF IInv, Owned
  <2>2. HeapIs(heap \ {held[y]}, size) /\ UNCHANGED asked
    BY <1>3 DEF MoveBound
  <2>3. y \in Values \cup Bounds
    OBVIOUS
  <2> QED BY <2>1, <2>2, <2>3, ValuesStep
<1>7. stray' = FALSE
  BY <1>2, GivenLive DEF IInv, MoveBound
<1> QED
  BY <1>4, <1>5, <1>6, <1>7 DEF IInv

LEMMA DropBoundStep ==
  ASSUME BuildersAssumption, IInv, NEW x \in Bounds, DropBound(x)
  PROVE  IInv'
<1>1. x \in Owners /\ x \notin Builders
  BY OneType
<1>2. heap \ Releases(x) = heap \ {held[x]} /\ Releases(x) \subseteq heap \cup {Null}
  BY ReleasesHeld DEF IInv
<1>3. held' = [held EXCEPT ![x] = Null] /\ HeapIs(heap \ {held[x]}, size)
  BY <1>2 DEF DropBound
<1>4. Owned'
  <2>1. Null \in Answers(heap) /\ With(Null) = heap
    BY DEF Answers, With
  <2> QED BY <1>1, <1>3, <2>1, GiveTo DEF IInv, HeapIs
<1>5. BoundsAgree'
  <2>1. held'[x] = Null /\ \A z \in Bounds \ {x} : held'[z] = held[z]
    BY <1>1, <1>3 DEF IInv, Owned, Owners
  <2> QED BY <2>1 DEF DropBound, IInv, BoundsAgree
<1>6. SizesAgree'
  <2>1. \A c \in Builders : held'[c] = held[c]
    BY <1>1, <1>3, OneType DEF IInv, Owned
  <2>2. HeapIs(heap \ {held[x]}, size) /\ UNCHANGED asked
    BY <1>3 DEF DropBound
  <2>3. x \in Values \cup Bounds
    OBVIOUS
  <2> QED BY <2>1, <2>2, <2>3, ValuesStep
<1>7. stray' = FALSE
  BY <1>2, GivenLive DEF IInv, DropBound
<1> QED
  BY <1>4, <1>5, <1>6, <1>7 DEF IInv

\* Three variables change at once: the value gets the range, and both bounds
\* give up what they had.
LEMMA RangeOwned ==
  ASSUME BuildersAssumption, Owned, NEW v \in Values, NEW x \in Bounds, NEW y \in Bounds,
         NEW b \in Free(heap), Range(v, x, y, b)
  PROVE  Owned'
<1>1. v \in Owners /\ x \in Owners /\ y \in Owners /\ v # x /\ v # y
  BY OneType
<1>2. /\ held' = [held EXCEPT ![v] = b, ![x] = Null, ![y] = Null]
      /\ heap' = (heap \cup {b}) \ {held[x], held[y], held[v]}
      /\ b \in Blocks /\ b \notin heap /\ b # Null
  BY DEF Range, HeapIs, With, Free, BuildersAssumption
<1>3. /\ held'[v] = b /\ held'[x] = Null /\ held'[y] = Null
      /\ \A z \in Owners \ {v, x, y} : held'[z] = held[z]
  BY <1>1, <1>2 DEF Owned
<1>4. heap' \subseteq Blocks /\ held' \in [Owners -> Blocks \cup {Null}]
  BY <1>1, <1>2 DEF Owned
<1>5. ASSUME NEW z \in Owners, held'[z] # Null
      PROVE  held'[z] \in heap'
  <2>1. CASE z = v
    BY <1>1, <1>2, <1>3, <2>1 DEF Owned
  <2>2. CASE z # v
    <3>1. z \notin {v, x, y} /\ held'[z] = held[z]
      BY <1>3, <1>5, <2>2
    <3> QED BY <1>1, <1>2, <1>5, <3>1 DEF Owned
  <2> QED BY <2>1, <2>2
<1>6. ASSUME NEW u \in Owners, NEW z \in Owners, held'[u] = held'[z], held'[u] # Null
      PROVE  u = z
  <2>1. u \notin {x, y} /\ z \notin {x, y}
    BY <1>3, <1>6
  <2> QED BY <1>1, <1>2, <1>3, <1>6, <2>1 DEF Owned
<1>7. ASSUME NEW c \in heap'
      PROVE  \E z \in Owners : held'[z] = c
  <2>1. CASE c = b
    BY <1>1, <1>3, <2>1
  <2>2. CASE c # b
    <3>1. c \in heap /\ c # held[x] /\ c # held[y] /\ c # held[v]
      BY <1>2, <2>2
    <3>2. PICK z \in Owners : held[z] = c
      BY <3>1 DEF Owned
    <3> QED BY <1>3, <3>1, <3>2
  <2> QED BY <2>1, <2>2
<1> QED
  BY <1>4, <1>5, <1>6, <1>7 DEF Owned

LEMMA RangeStep ==
  ASSUME BuildersAssumption, IInv, NEW v \in Values, NEW x \in Bounds, NEW y \in Bounds,
         NEW b \in Free(heap), Range(v, x, y, b)
  PROVE  IInv'
<1>1. /\ v \in Owners /\ v \notin Builders /\ v \notin Bounds
      /\ x \in Owners /\ x \notin Builders /\ y \in Owners /\ y \notin Builders
  BY OneType
<1>2. b \in Blocks /\ b \notin heap
  BY DEF Free
<1>3. Owned'
  BY RangeOwned DEF IInv
<1>4. BoundsAgree'
  <2>1. \A z \in Bounds : held'[z] = IF z \in {x, y} THEN Null ELSE held[z]
    BY <1>1 DEF Range, IInv, Owned, Owners
  <2> QED BY <2>1 DEF Range, IInv, BoundsAgree
<1>5. SizesAgree'
  <2>1. Sized(b, 0) \in [Blocks -> Nat] /\ size \in [Blocks -> Nat]
    BY <1>2, SizeTypes DEF IInv, SizesAgree
  <2>2. /\ size' \in [Blocks -> Nat]
        /\ \A d \in Blocks : d \in With(b) \ {held[x], held[y], held[v]} =>
                             size'[d] = Sized(b, 0)[d]
    BY <2>1, HeapTypes DEF Range
  <2>3. ASSUME NEW c \in Builders
        PROVE  Accounted(c)'
    <3>1. c \in Owners /\ c # v /\ c # x /\ c # y
      BY OneType
    <3>2. held'[c] = held[c] /\ asked'[c] = asked[c]
      BY <1>1, <3>1 DEF Range, IInv, Owned
    <3>3. ASSUME held[c] # Null
          PROVE  size'[held[c]] = size[held[c]]
      <4>1. /\ held[c] \in heap /\ held[c] \in Blocks /\ held[c] # b
            /\ held[c] \notin {held[x], held[y], held[v]}
        BY <1>1, <1>2, <3>1, <3>3 DEF IInv, Owned
      <4>2. size'[held[c]] = Sized(b, 0)[held[c]]
        BY <2>2, <4>1 DEF With
      <4> QED BY <2>1, <4>1, <4>2 DEF Sized
    <3> QED BY <3>2, <3>3, Bystander DEF IInv
  <2>4. asked' \in [Builders -> Nat]
    BY DEF Range, IInv, SizesAgree
  <2> QED BY <2>2, <2>3, <2>4 DEF SizesAgree
<1>6. stray' = FALSE
  <2>1. {held[x], held[y], held[v]} \subseteq heap \cup {Null}
    BY <1>1, HeldLive DEF IInv
  <2> QED BY <2>1, GivenLive DEF IInv, Range
<1> QED
  BY <1>3, <1>4, <1>5, <1>6 DEF IInv

-----------------------------------------------------------------------------
LEMMA InvStep ==
  ASSUME BuildersAssumption, IInv, [Next]_vars
  PROVE  IInv'
<1>1. CASE OwnerNext
  BY <1>1, MoveStep, DestroyStep, MakeStep DEF OwnerNext
<1>2. CASE ObjectNext
  <2>1. CASE \E o \in Objects, b \in Free(heap) : NewObject(o, b)
    BY <2>1, NewObjectStep
  <2>2. CASE \E o \in Objects, x \in Readable : SetValue(o, x)
    BY <2>2, SetValueStep
  <2>3. CASE \E o \in Objects, list \in {Null} \cup {held[a] : a \in Arrays},
               box \in Answers(heap) : SetMade(o, list, box)
    BY <2>3, SetMadeStep
  <2>4. CASE \E o, p \in Objects : SetNested(o, p)
    BY <2>4, SetNestedStep
  <2>5. CASE \E o, p \in Objects, keys \in Free(heap) : \E b \in Free(heap) \ {keys} :
               CopyObject(o, p, keys, b)
    BY <2>5, CopyObjectStep
  <2>6. CASE \E k \in Keys, o \in Objects, b \in Free(heap) : KeysOf(k, o, b)
    BY <2>6, KeysOfStep
  <2> QED BY <1>2, <2>1, <2>2, <2>3, <2>4, <2>5, <2>6 DEF ObjectNext
<1>3. CASE ArrayNext
  <2>1. CASE \E a \in Arrays, x \in Readable : PushValue(a, x)
    BY <2>1, PushValueStep
  <2>2. CASE \E a \in Arrays, list \in {Null} \cup {held[x] : x \in Arrays},
               box \in Answers(heap) : PushMade(a, list, box)
    BY <2>2, PushMadeStep
  <2>3. CASE \E a, x \in Arrays, c \in Answers(heap) : CopyArray(a, x, c)
    BY <2>3, CopyArrayStep
  <2> QED BY <1>3, <2>1, <2>2, <2>3 DEF ArrayNext
<1>4. CASE BoundNext
  BY <1>4, BindStep, MoveBoundStep, DropBoundStep, RangeStep DEF BoundNext
<1>5. CASE UNCHANGED vars
  BY <1>5 DEF vars, IInv, Owned, BoundsAgree, SizesAgree, Accounted
<1> QED
  BY <1>1, <1>2, <1>3, <1>4, <1>5 DEF Next

\* The inductive invariant.
LEMMA Invariant == Spec => []IInv
<1>1. Init => IInv
  BY BuildersAssumption, InvInit
<1>2. IInv /\ [Next]_vars => IInv'
  BY BuildersAssumption, InvStep
<1> QED
  BY <1>1, <1>2, PTL DEF Spec

\* Every variable keeps its type (object.hpp, array.hpp, make.hpp).
THEOREM BuildersTypeCorrect == Spec => []TypeOK
<1>1. IInv => TypeOK
  BY DEF IInv, Owned, BoundsAgree, SizesAgree, TypeOK
<1> QED
  BY Invariant, <1>1, PTL

\* Through moves, releases, nested builders, bounds and ranges, any number of
\* them, nothing is freed twice (detail/owned.hpp, make.hpp, object.hpp).
THEOREM BlocksHaveOneOwner == Spec => []SoleOwner
<1>1. IInv => SoleOwner
  BY DEF IInv, Owned, SoleOwner
<1> QED
  BY Invariant, <1>1, PTL

\* Every block that is allocated has a variable that will free it, a bound that
\* was never used and an empty list of keys included (make.hpp, object.hpp).
THEOREM BlocksAreFreed == Spec => []NothingLeaks
<1>1. IInv => NothingLeaks
  <2>1. ASSUME IInv, NEW b \in heap
        PROVE  \E x \in Owners : held[x] = b /\ Responsible(x)
    <3>1. PICK x \in Owners : held[x] = b
      BY <2>1 DEF IInv, Owned
    <3>2. b # Null
      BY <2>1, BuildersAssumption DEF IInv, Owned
    <3>3. Responsible(x)
      BY <2>1, <3>1, <3>2 DEF IInv, BoundsAgree, Responsible
    <3> QED BY <3>1, <3>3
  <2> QED BY <2>1 DEF NothingLeaks
<1> QED
  BY Invariant, <1>1, PTL

\* No call of the C library is given a block that is gone (array.hpp:113-120).
THEOREM CallsAreGivenLiveBlocks == Spec => []OnlyLiveBlocksAreGiven
<1>1. IInv => OnlyLiveBlocksAreGiven
  BY DEF IInv, OnlyLiveBlocksAreGiven
<1> QED
  BY Invariant, <1>1, PTL

\* A builder holds what was written into it, wherever it went (object.hpp,
\* array.hpp).
THEOREM BuildersKeepWrites == Spec => []NothingWrittenIsLost
<1>1. IInv => NothingWrittenIsLost
  BY BuildersAssumption, OneType
     DEF IInv, SizesAgree, Accounted, SizeOf, NothingWrittenIsLost
<1> QED
  BY Invariant, <1>1, PTL
=============================================================================
