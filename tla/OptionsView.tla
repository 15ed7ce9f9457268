------------------------------ MODULE OptionsView ------------------------------
(****************************************************************************)
(* The C view of the options a connect passes on (options.hpp:205-272,      *)
(* connection.hpp:257-268, rpc.hpp:394-401): where the strings it points to *)
(* are stored, and how long they are there.                                 *)
(*                                                                          *)
(* The view holds the C struct together with what the struct points to: the *)
(* two directories, which are strings of the view, and one list of pointers *)
(* per target set.  A short std::string keeps its characters in itself, so  *)
(* they are where the view is; a long one keeps them in a block of the      *)
(* heap, and so does a list.  The compiler builds the view that to_c()      *)
(* returns either in the frame of connect() or in the frame of to_c(), from *)
(* which it is then moved: a block of the heap is handed over, characters   *)
(* in a string are copied, and the pointers of the C struct are copied as   *)
(* they are.                                                                *)
(*                                                                          *)
(* The lists point to names that are strings of the options object, which   *)
(* is the caller's and does not change during a connect: a list stands for  *)
(* its names.                                                               *)
(****************************************************************************)
CONSTANTS
    Directories,  \* session_dir and temporary_directory
    TargetSets,   \* the target sets of the capabilities
    Short, Long,  \* texts that fit into a std::string itself, and that do not
    Names,        \* what a target set may name
    Null,         \* the null pointer
    Gone          \* what is found where nothing is stored any more

Fields == Directories \cup TargetSets
Texts == Short \cup Long \cup Names

\* Where characters are: in a string of a view in one of two frames, or in a
\* block of the heap, one for each field.
Frames == {"to_c", "connect"}
Places == (Frames \X Directories) \cup ({"heap"} \X Fields)

ASSUME OptionsViewAssumption ==
    /\ Directories \cap TargetSets = {}
    /\ Short \cap Long = {}
    /\ Null \notin Places
    /\ Gone \notin Texts

VARIABLES
    elided,  \* the build constructs what to_c() returns in the frame of connect()
    wanted,  \* what the options object says of each field: one text, or names
    at,      \* how far the connect is: "idle", "entered", "filled", "returned", "opened"
    mem,     \* what is stored in each place
    ptr,     \* where each field of the C struct points
    seen     \* what the C library read

viewVars == <<elided, wanted, at, mem, ptr, seen>>

Empty == [f \in Fields |-> {}]

ViewInit ==
    /\ elided \in BOOLEAN
    /\ wanted = Empty
    /\ at = "idle"
    /\ mem = [p \in Places |-> {Gone}]
    /\ ptr = [f \in Fields |-> Null]
    /\ seen = Empty

-----------------------------------------------------------------------------
\* The client sets up its options between two connects: a directory...
SetDirectory(d, text) ==
    /\ at = "idle"
    /\ wanted' = [wanted EXCEPT ![d] = text]
    /\ UNCHANGED <<elided, at, mem, ptr, seen>>

\* ...a target set as a whole, without names unless it is an only()...
SetTargets(t, names) ==
    /\ at = "idle"
    /\ wanted' = [wanted EXCEPT ![t] = names]
    /\ UNCHANGED <<elided, at, mem, ptr, seen>>

\* ...or one more name, target_set::add().
AddTarget(t, name) ==
    /\ at = "idle"
    /\ wanted' = [wanted EXCEPT ![t] = @ \cup {name}]
    /\ UNCHANGED <<elided, at, mem, ptr, seen>>

-----------------------------------------------------------------------------
\* The frame that to_c() builds its view in.
Frame == IF elided THEN "connect" ELSE "to_c"

\* Where to_c() stores what a field says.
Home(f) ==
    IF f \in Directories /\ wanted[f] \subseteq Short THEN <<Frame, f>> ELSE <<"heap", f>>

\* to_c() begins: a view with two empty strings and no lists.
EnterToC ==
    /\ at = "idle" /\ at' = "entered"
    /\ mem' = [p \in Places |-> IF p[1] = Frame THEN {} ELSE mem[p]]
    /\ UNCHANGED <<elided, wanted, ptr, seen>>

\* It copies the directories and makes the lists, and points the C struct at
\* them; nothing to say is a null pointer.
FillView ==
    /\ at = "entered" /\ at' = "filled"
    /\ mem' = [p \in Places |->
                  IF p = Home(p[2]) /\ wanted[p[2]] # {} THEN wanted[p[2]] ELSE mem[p]]
    /\ ptr' = [f \in Fields |-> IF wanted[f] = {} THEN Null ELSE Home(f)]
    /\ UNCHANGED <<elided, wanted, seen>>

\* Mutant of ReturnView: the view is a temporary of the statement that calls
\* to_c(), and only its C struct is kept.
ReturnTemporary ==
    /\ at = "filled" /\ at' = "returned"
    /\ mem' = [p \in Places |-> {Gone}]
    /\ UNCHANGED <<elided, wanted, ptr, seen>>

\* It returns.  A view in its own frame is moved into the frame of connect().
ReturnView ==
    /\ at = "filled" /\ at' = "returned"
    /\ mem' = IF elided THEN mem ELSE
              [p \in Places |-> CASE p[1] = "connect" -> mem[<<"to_c", p[2]>>]
                                  [] p[1] = "to_c" -> {Gone}
                                  [] p[1] = "heap" -> mem[p]]
    /\ UNCHANGED <<elided, wanted, ptr, seen>>

\* sr_connect_with_options() or sr_surreal_rpc_new() reads what it was given,
\* whether or not it can connect.
OpenEngine ==
    /\ at = "returned" /\ at' = "opened"
    /\ seen' = [f \in Fields |-> IF ptr[f] = Null THEN {} ELSE mem[ptr[f]]]
    /\ UNCHANGED <<elided, wanted, mem, ptr>>

\* connect() ends, and the view with it; or a copy in to_c() found no memory.
LeaveConnect ==
    /\ at \in {"entered", "opened"} /\ at' = "idle"
    /\ mem' = [p \in Places |-> {Gone}]
    /\ ptr' = [f \in Fields |-> Null]
    /\ seen' = Empty
    /\ UNCHANGED <<elided, wanted>>

ViewNext ==
    \/ \E d \in Directories, text \in {{}} \cup {{x} : x \in Short \cup Long} :
           SetDirectory(d, text)
    \/ \E t \in TargetSets, names \in SUBSET Names : SetTargets(t, names)
    \/ \E t \in TargetSets, name \in Names : AddTarget(t, name)
    \/ EnterToC \/ FillView \/ ReturnView \/ OpenEngine \/ LeaveConnect

ViewSpec == ViewInit /\ [][ViewNext]_viewVars

-----------------------------------------------------------------------------
\* The type of every variable.
ViewTypeOK ==
    /\ elided \in BOOLEAN
    /\ wanted \in [Fields -> SUBSET Texts]
    /\ at \in {"idle", "entered", "filled", "returned", "opened"}
    /\ mem \in [Places -> SUBSET (Texts \cup {Gone})]
    /\ ptr \in [Fields -> Places \cup {Null}]
    /\ seen \in [Fields -> SUBSET (Texts \cup {Gone})]

\* The C library reads what the options say, in every field and on every connect,
\* except for one thing: a directory whose text is short, in a build that moves
\* the view.  Long texts and lists survive the move, the view survives the call,
\* and nothing is left of an earlier connect (options.hpp:205-209, 214-271;
\* connection.hpp:259-262).
OnlyCopiedShortStringsAreLost ==
    at = "opened" =>
        \A f \in Fields :
            \/ seen[f] = wanted[f]
            \/ ~elided /\ f \in Directories /\ wanted[f] # {} /\ wanted[f] \subseteq Short

\* What the C library reads is what the options say: "Stable backing for every
\* `const char*` handed to C" (options.hpp:208).
OptionsAreBacked == at = "opened" => seen = wanted
=============================================================================
