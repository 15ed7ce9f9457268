------------------------------- MODULE Builders -------------------------------
(****************************************************************************)
(* The objects that build and hold data for the C library (object.hpp,      *)
(* array.hpp, make.hpp, detail/owned.hpp): object_builder, array_builder,   *)
(* owned_value, bound and object_keys, over the blocks the C library        *)
(* allocates for them.                                                      *)
(*                                                                          *)
(* A C++ variable of any of these types owns at most one block, or none     *)
(* when it is default constructed, moved from, released or destroyed.  What *)
(* a block contains comes down to its size, the writes that went into it.   *)
(* A borrowed view -- value, array_view, object_view -- is a pointer into a  *)
(* block somebody owns, taken for the call it is an argument of: the client *)
(* keeps none for later, as the comments of value.hpp and array.hpp ask.    *)
(*                                                                          *)
(* One step is one call of the client.  The order of what happens within it *)
(* (what the C library reads, what is freed) shows in the heap against      *)
(* which each C call is judged.                                             *)
(****************************************************************************)
EXTENDS Naturals

CONSTANTS
    Blocks,    \* blocks the C library can allocate at one time
    Objects,   \* variables of type object_builder or owned_object
    Arrays,    \* variables of type array_builder or owned_array
    Values,    \* variables of type owned_value
    Bounds,    \* variables of type make::bound
    Keys,      \* variables of type object_keys
    Null,      \* the null pointer
    MaxSize    \* bound on the writes into one block

Owners == Objects \cup Arrays \cup Values \cup Bounds \cup Keys
Builders == Objects \cup Arrays

ASSUME BuildersAssumption ==
    /\ Null \notin Blocks
    /\ MaxSize \in Nat
    /\ Objects \cap (Arrays \cup Values \cup Bounds \cup Keys) = {}
    /\ Arrays \cap (Values \cup Bounds \cup Keys) = {}
    /\ Values \cap (Bounds \cup Keys) = {}
    /\ Bounds \cap Keys = {}

VARIABLES
    heap,    \* C: the blocks that are allocated
    size,    \* C: what each block contains
    held,    \* the pointer in each variable
    tag,     \* the tag of each bound
    armed,   \* armed_ of each bound: it has still to free its value
    asked,   \* history: what the client wrote into each builder
    stray    \* history: a C call was given a block that was not there

vars == <<heap, size, held, tag, armed, asked, stray>>
bounds == <<tag, armed>>

Init ==
    /\ heap = {}
    /\ size = [b \in Blocks |-> 0]
    /\ held = [x \in Owners |-> Null]
    /\ tag = [x \in Bounds |-> "unbounded"]
    /\ armed = [x \in Bounds |-> FALSE]
    /\ asked = [x \in Builders |-> 0]
    /\ stray = FALSE

-----------------------------------------------------------------------------
\* The C library hands out any block that is free; or none, when it refuses.
Free(h) == Blocks \ h
Answers(h) == Free(h) \cup {Null}

\* A C call reads or frees the blocks S when the heap is h.
Given(S, h) == stray' = (stray \/ ~(S \subseteq h \cup {Null}))

SizeOf(b) == IF b = Null THEN 0 ELSE size[b]
Sized(b, n) == IF b = Null THEN size ELSE [size EXCEPT ![b] = n]
With(b) == heap \cup ({b} \ {Null})

\* The heap becomes h, and its blocks contain what s says.
HeapIs(h, s) ==
    /\ heap' = h
    /\ size' = [b \in Blocks |-> IF b \in h THEN s[b] ELSE 0]

-----------------------------------------------------------------------------
\* owned<> and owned_span<>, and the builders that consist of one.

SameType(x, y) == \E T \in {Objects, Arrays, Values, Keys} : x \in T /\ y \in T

\* y = std::move(x): the move constructor when y is empty, else y's block goes.
\* Also release() into a variable, and adopting what was released.
Move(x, y) ==
    /\ x # y /\ SameType(x, y)
    /\ held' = [held EXCEPT ![y] = held[x], ![x] = Null]
    /\ asked' = [c \in Builders |-> IF c = y THEN asked[x] ELSE
                                    IF c = x THEN 0 ELSE asked[c]]
    /\ Given({held[y]}, heap)
    /\ HeapIs(heap \ {held[y]}, size)
    /\ UNCHANGED bounds

\* The destructor, reset(), or release() into a temporary.
Destroy(x) ==
    /\ x \notin Bounds
    /\ held[x] # Null
    /\ held' = [held EXCEPT ![x] = Null]
    /\ asked' = [c \in Builders |-> IF c = x THEN 0 ELSE asked[c]]
    /\ Given({held[x]}, heap)
    /\ HeapIs(heap \ {held[x]}, size)
    /\ UNCHANGED bounds

\* v = make::...(): a new value b, copied from what a builder holds when src is
\* not Null, or none when the C library refuses its arguments.
Make(v, src, b) ==
    /\ held' = [held EXCEPT ![v] = b]
    /\ HeapIs(With(b) \ {held[v]}, Sized(b, SizeOf(src)))
    /\ Given({src, held[v]}, heap)
    /\ UNCHANGED <<bounds, asked>>

-----------------------------------------------------------------------------
\* object_builder

\* o = object_builder(): the constructor makes an empty object.
NewObject(o, b) ==
    /\ held' = [held EXCEPT ![o] = b]
    /\ HeapIs(With(b) \ {held[o]}, Sized(b, 0))
    /\ asked' = [asked EXCEPT ![o] = 0]
    /\ Given({held[o]}, heap)
    /\ UNCHANGED bounds

\* set() of something valid.  The C library clones it into the object; a builder
\* without an object ignores it.
Insert(o, reads, h) ==
    /\ asked[o] < MaxSize
    /\ asked' = [asked EXCEPT ![o] = @ + 1]
    /\ HeapIs(heap, Sized(held[o], SizeOf(held[o]) + 1))
    /\ Given(reads \cup {held[o]}, h)

\* set(key, value) and set(key, const owned_value&), of what x points to
SetValue(o, x) ==
    /\ x # Null
    /\ Insert(o, {x}, heap)
    /\ UNCHANGED <<held, bounds>>

\* insert_owned(): the value is boxed for the call, from a scalar or from list.
\* A value the C library did not make is not inserted.
SetMade(o, list, box) ==
    /\ \/ box # Null /\ Insert(o, {box, list}, With(box))
       \/ box = Null /\ Given({list}, heap) /\ UNCHANGED <<heap, size, asked>>
    /\ UNCHANGED <<held, bounds>>

\* Mutant of SetNested: the parameter is a reference and is not consumed, but
\* freed all the same.
SetNestedKeeps(o, p) ==
    /\ asked[o] < MaxSize
    /\ held[o] # Null /\ o # p /\ held[p] # Null
    /\ asked' = [asked EXCEPT ![o] = @ + 1]
    /\ Given({held[p], held[o]}, heap)
    /\ HeapIs(heap \ {held[p]}, Sized(held[o], SizeOf(held[o]) + 1))
    /\ UNCHANGED <<held, bounds>>

\* set(key, std::move(p)): the parameter takes p's object before anything else
\* happens, and frees it at the end.  It is not inserted when the C library
\* made no value of it.
SetNested(o, p) ==
    LET target == IF o = p THEN Null ELSE held[o] IN
    /\ asked[o] < MaxSize
    /\ \E made \in BOOLEAN :
       /\ asked' = [[asked EXCEPT ![p] = 0] EXCEPT ![o] = IF made THEN @ + 1 ELSE @]
       /\ HeapIs(heap \ {held[p]}, IF made THEN Sized(target, SizeOf(target) + 1) ELSE size)
    /\ held' = [held EXCEPT ![p] = Null]
    /\ Given({held[p], target}, heap)
    /\ UNCHANGED bounds

\* Mutant of CopyObject: the keys are freed before the object is made of them.
CopyObjectFreesKeys(o, p, keys, b) ==
    /\ held' = [held EXCEPT ![o] = b]
    /\ asked' = [asked EXCEPT ![o] = asked[p]]
    /\ Given({held[p], held[o], keys}, heap)
    /\ HeapIs(With(b) \ {held[o]}, Sized(b, SizeOf(held[p])))
    /\ UNCHANGED bounds

\* o = object_builder(p.view()), from_view(): the C library allocates the list
\* of keys, which goes when the copy is made -- or when a vector cannot grow and
\* throws.  Nothing to read makes an empty object.
CopyObject(o, p, keys, b) ==
    /\ \/ /\ held' = [held EXCEPT ![o] = b]
          /\ asked' = [asked EXCEPT ![o] = IF held[p] = Null THEN 0 ELSE asked[p]]
          /\ Given({held[p], held[o], keys}, With(keys))
          /\ HeapIs(With(b) \ {held[o]}, Sized(b, SizeOf(held[p])))
       \/ /\ held[p] # Null
          /\ Given({held[p], keys}, With(keys))
          /\ UNCHANGED <<heap, size, held, asked>>
    /\ UNCHANGED bounds

\* Mutant of KeysOf: the list is kept only if there is something in it.
KeysOfNonEmpty(k, o, b) ==
    /\ held[k] = Null
    /\ held[o] # Null
    /\ held' = IF size[held[o]] > 0 THEN [held EXCEPT ![k] = b] ELSE held
    /\ HeapIs(With(b), Sized(b, size[held[o]]))
    /\ Given({held[o]}, heap)
    /\ UNCHANGED <<bounds, asked>>

\* object_keys(obj): the list the C library allocated is kept, empty or not.
KeysOf(k, o, b) ==
    /\ held[k] = Null
    /\ held[o] # Null
    /\ held' = [held EXCEPT ![k] = b]
    /\ HeapIs(With(b), Sized(b, size[held[o]]))
    /\ Given({held[o]}, heap)
    /\ UNCHANGED <<bounds, asked>>

-----------------------------------------------------------------------------
\* array_builder

\* Mutant of Push: the array goes before the longer copy of it is made.
PushResetsFirst(a, reads, h) ==
    /\ asked[a] < MaxSize
    /\ \E next \in Free(h) :
       /\ held' = [held EXCEPT ![a] = next]
       /\ asked' = [asked EXCEPT ![a] = @ + 1]
       /\ Given(reads \cup {held[a]}, h \ {held[a]})
       /\ HeapIs(With(next) \ {held[a]}, Sized(next, SizeOf(held[a]) + 1))

\* Mutant of Push: what the C library returned is taken even if it is null.
PushTakesNull(a, reads, h) ==
    /\ asked[a] < MaxSize
    /\ \E next \in Answers(h) :
       /\ held' = [held EXCEPT ![a] = next]
       /\ asked' = [asked EXCEPT ![a] = IF next = Null THEN @ ELSE @ + 1]
       /\ Given(reads \cup {held[a]}, h)
       /\ HeapIs(With(next) \ {held[a]}, Sized(next, SizeOf(held[a]) + 1))

\* push() of something valid: the C library makes a longer copy of the array,
\* and only then is the old one freed.  When it makes none the element is
\* dropped and the array stays.
Push(a, reads, h) ==
    /\ asked[a] < MaxSize
    /\ Given(reads \cup {held[a]}, h)
    /\ \/ \E next \in Free(h) :
          /\ held' = [held EXCEPT ![a] = next]
          /\ HeapIs(With(next) \ {held[a]}, Sized(next, SizeOf(held[a]) + 1))
          /\ asked' = [asked EXCEPT ![a] = @ + 1]
       \/ UNCHANGED <<heap, size, held, asked>>

\* push(value) and push(const owned_value&), of what x points to, which may be an
\* element of the very array.
PushValue(a, x) ==
    /\ x # Null
    /\ Push(a, {x}, heap)
    /\ UNCHANGED bounds

\* push_owned(): the value is boxed for the call, from a scalar or from list.
\* A value the C library did not make is not pushed.
PushMade(a, list, box) ==
    /\ \/ box # Null /\ Push(a, {box, list}, With(box))
       \/ box = Null /\ Given({list}, heap) /\ UNCHANGED <<heap, size, held, asked>>
    /\ UNCHANGED bounds

\* a = array_builder(x.view()), or array_from(): one copy c of all elements.  Of
\* nothing, the C library may make an empty array or none.
CopyArray(a, x, c) ==
    /\ c = Null => SizeOf(held[x]) = 0
    /\ held' = [held EXCEPT ![a] = c]
    /\ HeapIs(With(c) \ {held[a]}, Sized(c, SizeOf(held[x])))
    /\ asked' = [asked EXCEPT ![a] = asked[x]]
    /\ Given({held[x], held[a]}, heap)
    /\ UNCHANGED bounds

-----------------------------------------------------------------------------
\* make::bound and make::range

\* What release() frees: the value behind the arm the tag names.
Releases(x) == IF armed[x] /\ tag[x] # "unbounded" THEN {held[x]} ELSE {}

\* Mutant of Bind: the union is filled in, the tag is not.
BindUninitialised(x, v, t) ==
    /\ held' = [held EXCEPT ![x] = held[v], ![v] = Null]
    /\ tag' = [tag EXCEPT ![x] = "uninitialised"]
    /\ armed' = [armed EXCEPT ![x] = TRUE]
    /\ Given(Releases(x), heap)
    /\ HeapIs(heap \ Releases(x), size)
    /\ UNCHANGED asked

\* x = included(std::move(v)), or excluded(): the bound takes the value over.
Bind(x, v, t) ==
    /\ held' = [held EXCEPT ![x] = held[v], ![v] = Null]
    /\ tag' = [tag EXCEPT ![x] = t]
    /\ armed' = [armed EXCEPT ![x] = TRUE]
    /\ Given(Releases(x), heap)
    /\ HeapIs(heap \ Releases(x), size)
    /\ UNCHANGED asked

\* Mutant of MoveBound: the source stays as it was.
MoveBoundKeeps(x, y) ==
    /\ x # y
    /\ held' = [held EXCEPT ![y] = held[x]]
    /\ tag' = [tag EXCEPT ![y] = tag[x]]
    /\ armed' = [armed EXCEPT ![y] = armed[x]]
    /\ Given(Releases(y), heap)
    /\ HeapIs(heap \ Releases(y), size)
    /\ UNCHANGED asked

\* y = std::move(x): y's value goes, x is left unbounded.
MoveBound(x, y) ==
    /\ x # y
    /\ held' = [held EXCEPT ![y] = held[x], ![x] = Null]
    /\ tag' = [tag EXCEPT ![y] = tag[x], ![x] = "unbounded"]
    /\ armed' = [armed EXCEPT ![y] = armed[x], ![x] = FALSE]
    /\ Given(Releases(y), heap)
    /\ HeapIs(heap \ Releases(y), size)
    /\ UNCHANGED asked

\* The destructor of a bound that was never used, or x = unbounded().
DropBound(x) ==
    /\ armed[x]
    /\ held' = [held EXCEPT ![x] = Null]
    /\ tag' = [tag EXCEPT ![x] = "unbounded"]
    /\ armed' = [armed EXCEPT ![x] = FALSE]
    /\ Given(Releases(x), heap)
    /\ HeapIs(heap \ Releases(x), size)
    /\ UNCHANGED asked

\* v = range(std::move(x), std::move(y)): take() disarms both parameters, and
\* the C library reclaims their values.
Range(v, x, y, b) ==
    /\ held' = [held EXCEPT ![v] = b, ![x] = Null, ![y] = Null]
    /\ HeapIs(With(b) \ {held[x], held[y], held[v]}, Sized(b, 0))
    /\ tag' = [tag EXCEPT ![x] = "unbounded", ![y] = "unbounded"]
    /\ armed' = [armed EXCEPT ![x] = FALSE, ![y] = FALSE]
    /\ Given({held[x], held[y], held[v]}, heap)
    /\ UNCHANGED asked

-----------------------------------------------------------------------------
\* What a call may borrow: a value, or what a builder holds, down to its elements.
Readable == {held[x] : x \in Values \cup Builders}

OwnerNext ==
    \/ \E x, y \in Owners : Move(x, y)
    \/ \E x \in Owners : Destroy(x)
    \/ \E v \in Values, src \in {Null} \cup {held[x] : x \in Builders}, b \in Answers(heap) :
           Make(v, src, b)

ObjectNext ==
    \/ \E o \in Objects, b \in Free(heap) : NewObject(o, b)
    \/ \E o \in Objects, x \in Readable : SetValue(o, x)
    \/ \E o \in Objects, list \in {Null} \cup {held[a] : a \in Arrays}, box \in Answers(heap) :
           SetMade(o, list, box)
    \/ \E o, p \in Objects : SetNested(o, p)
    \/ \E o, p \in Objects, keys \in Free(heap) : \E b \in Free(heap) \ {keys} :
           CopyObject(o, p, keys, b)
    \/ \E k \in Keys, o \in Objects, b \in Free(heap) : KeysOf(k, o, b)

ArrayNext ==
    \/ \E a \in Arrays, x \in Readable : PushValue(a, x)
    \/ \E a \in Arrays, list \in {Null} \cup {held[x] : x \in Arrays}, box \in Answers(heap) :
           PushMade(a, list, box)
    \/ \E a, x \in Arrays, c \in Answers(heap) : CopyArray(a, x, c)

BoundNext ==
    \/ \E x \in Bounds, v \in Values, t \in {"included", "excluded"} : Bind(x, v, t)
    \/ \E x, y \in Bounds : MoveBound(x, y)
    \/ \E x \in Bounds : DropBound(x)
    \/ \E v \in Values, x, y \in Bounds, b \in Free(heap) : Range(v, x, y, b)

Next == OwnerNext \/ ObjectNext \/ ArrayNext \/ BoundNext

Spec == Init /\ [][Next]_vars

-----------------------------------------------------------------------------
\* The type of every variable.
TypeOK ==
    /\ heap \subseteq Blocks
    /\ size \in [Blocks -> Nat]
    /\ held \in [Owners -> Blocks \cup {Null}]
    /\ tag \in [Bounds -> {"unbounded", "included", "excluded"}]
    /\ armed \in [Bounds -> BOOLEAN]
    /\ asked \in [Builders -> Nat]
    /\ stray \in BOOLEAN

\* Every block a variable points to is allocated, and no other variable points
\* to it: through moves, releases, adoptions, nested builders, bounds and ranges
\* nothing is freed twice (make.hpp:326-331, object.hpp:182-188).
SoleOwner ==
    \A x \in Owners : held[x] # Null =>
        /\ held[x] \in heap
        /\ \A y \in Owners \ {x} : held[y] # held[x]

\* The variable will free the block it points to.
Responsible(x) == x \in Bounds => armed[x] /\ tag[x] # "unbounded"

\* Every block that is allocated has a variable that will free it: bounds that
\* were never used, empty lists of keys, pushes the C library refused and copies
\* that threw included (make.hpp:330-331, object.hpp:331-335).
NothingLeaks ==
    \A b \in heap : \E x \in Owners : held[x] = b /\ Responsible(x)

\* No C call reads or frees a block that is not there: an array may grow by one
\* of its own elements, an object may be moved into itself, and the list of keys
\* outlives the copy made from it (array.hpp:113-120, object.hpp:231-245).
OnlyLiveBlocksAreGiven == ~stray

\* A builder that holds something holds just what the client wrote into it,
\* wherever it was moved or copied meanwhile; an array builder without an array
\* has been written nothing to (object.hpp, array.hpp).
NothingWrittenIsLost ==
    /\ \A o \in Objects : held[o] # Null => size[held[o]] = asked[o]
    /\ \A a \in Arrays : SizeOf(held[a]) = asked[a]
=============================================================================
