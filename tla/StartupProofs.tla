----------------------------- MODULE StartupProofs -----------------------------
(****************************************************************************)
(* The safety properties of Startup for any number of threads, calls and    *)
(* pool sizes, and of OptionsView for any directories, target sets, texts   *)
(* and connects.                                                            *)
(****************************************************************************)
EXTENDS Startup, OptionsView, TLAPS

-----------------------------------------------------------------------------
\* runtime_init() against connect().

\* The flag is up before the pool is built and from the first connect on, so a
\* thread found applying with the flag up has had a connect begin under it.
FlagLeads ==
    /\ pool # Unbuilt => started
    /\ \A t \in Threads : pc[t] = "marked" => started
    /\ started => \A t \in Threads : pc[t] = "applying" => t \in overlap

IInv ==
    /\ TypeOK
    /\ FlagLeads
    /\ LateIsRefused
    /\ IgnoredOnlyInARace

\* The invariant holds of a new process.
LEMMA InvInit == Init => IInv
<1> SUFFICES ASSUME Init PROVE IInv
  OBVIOUS
<1> USE StartupAssumption DEF Init, Unbuilt, Answers
<1>1. TypeOK
  <2>1. calls \in [Threads -> 0..MaxCalls]
    <3>1. 0 \in 0..MaxCalls
      OBVIOUS
    <3> QED BY <3>1
  <2>2. /\ pc \in [Threads -> {"idle", "applying", "marked"}]
        /\ size \in [Threads -> Sizes \cup {0}]
        /\ answer \in [Threads -> Answers]
    OBVIOUS
  <2>3. started \in BOOLEAN
    OBVIOUS
  <2>4. /\ setting \in Sizes \cup {0} /\ pool \in Sizes \cup {0, Unbuilt}
        /\ late \subseteq Threads /\ overlap \subseteq Threads /\ ignored \subseteq Threads
    OBVIOUS
  <2> HIDE DEF Init
  <2> QED BY <2>1, <2>2, <2>3, <2>4 DEF TypeOK
<1>2. FlagLeads
  BY DEF FlagLeads
<1>3. LateIsRefused /\ IgnoredOnlyInARace
  BY DEF LateIsRefused, IgnoredOnlyInARace
<1> QED
  BY <1>1, <1>2, <1>3 DEF IInv

\* A thread counts its calls up to the bound.
LEMMA BeginTypes ==
  ASSUME TypeOK, NEW t \in Threads, Begin(t)
  PROVE  calls' \in [Threads -> 0..MaxCalls]
<1>1. calls \in [Threads -> 0..MaxCalls] /\ calls[t] < MaxCalls
  BY DEF TypeOK, Begin
<1>2. calls[t] + 1 \in 0..MaxCalls
  BY <1>1, StartupAssumption
<1> QED
  BY <1>1, <1>2 DEF Begin

\* Every step preserves it.
LEMMA InvStep == IInv /\ [Next]_vars => IInv'
<1> SUFFICES ASSUME IInv, [Next]_vars PROVE IInv'
  OBVIOUS
<1> USE DEF IInv
<1>1. ASSUME NEW t \in Threads, NEW n \in Sizes \cup {0}, InitTest(t, n) PROVE IInv'
  <2>1. TypeOK'
    <3>1. calls' \in [Threads -> 0..MaxCalls]
      BY <1>1, BeginTypes DEF InitTest, Ask
    <3>2. size' \in [Threads -> Sizes \cup {0}]
      BY <1>1 DEF InitTest, Ask, TypeOK
    <3>3. pc' \in [Threads -> {"idle", "applying", "marked"}]
      BY <1>1 DEF InitTest, TypeOK
    <3>4. answer' \in [Threads -> Answers]
      BY <1>1 DEF InitTest, TypeOK, Answers
    <3>5. late' \subseteq Threads /\ overlap' \subseteq Threads /\ ignored' \subseteq Threads
      BY <1>1 DEF InitTest, Ask, TypeOK
    <3> QED BY <1>1, <3>1, <3>2, <3>3, <3>4, <3>5 DEF InitTest, TypeOK
  <2>2. FlagLeads'
    BY <1>1 DEF InitTest, Ask, Begin, FlagLeads, TypeOK
  <2>3. LateIsRefused'
    BY <1>1 DEF InitTest, Ask, Begin, FlagLeads, LateIsRefused, TypeOK
  <2>4. IgnoredOnlyInARace'
    BY <1>1 DEF InitTest, Ask, IgnoredOnlyInARace
  <2> QED BY <2>1, <2>2, <2>3, <2>4
<1>2. ASSUME NEW t \in Threads, NEW rc \in {-1, 0, 1}, InitApply(t, rc) PROVE IInv'
  <2>1. Verdict(rc) \in {"applied", "nothing", "failed"}
    BY DEF Verdict
  <2>2. TypeOK'
    <3>1. setting' \in Sizes \cup {0}
      BY <1>2 DEF InitApply, TypeOK
    <3>2. answer' \in [Threads -> Answers]
      BY <1>2, <2>1 DEF InitApply, TypeOK, Answers
    <3>3. pc' \in [Threads -> {"idle", "applying", "marked"}] /\ ignored' \subseteq Threads
      BY <1>2 DEF InitApply, TypeOK
    <3> QED BY <1>2, <3>1, <3>2, <3>3 DEF InitApply, TypeOK
  <2>3. FlagLeads'
    BY <1>2 DEF InitApply, FlagLeads, TypeOK
  <2>4. LateIsRefused'
    BY <1>2 DEF InitApply, LateIsRefused, TypeOK
  <2>5. IgnoredOnlyInARace'
    BY <1>2 DEF InitApply, FlagLeads, IgnoredOnlyInARace
  <2> QED BY <2>2, <2>3, <2>4, <2>5
<1>3. ASSUME NEW t \in Threads, ConnectMark(t) PROVE IInv'
  <2>1. TypeOK'
    <3>1. calls' \in [Threads -> 0..MaxCalls]
      BY <1>3, BeginTypes DEF ConnectMark, Enter
    <3>2. pc' \in [Threads -> {"idle", "applying", "marked"}]
      BY <1>3 DEF ConnectMark, Enter, TypeOK
    <3>3. started' \in BOOLEAN /\ overlap' \subseteq Threads
      BY <1>3 DEF ConnectMark, Enter, TypeOK
    <3> QED BY <1>3, <3>1, <3>2, <3>3 DEF ConnectMark, Enter, TypeOK
  <2>2. FlagLeads'
    BY <1>3 DEF ConnectMark, Enter, Begin, FlagLeads, TypeOK
  <2>3. LateIsRefused'
    BY <1>3 DEF ConnectMark, Enter, LateIsRefused, TypeOK
  <2>4. IgnoredOnlyInARace'
    BY <1>3 DEF ConnectMark, Enter, IgnoredOnlyInARace
  <2> QED BY <2>1, <2>2, <2>3, <2>4
<1>4. ASSUME NEW t \in Threads, ConnectOpen(t) PROVE IInv'
  <2>1. TypeOK'
    BY <1>4 DEF ConnectOpen, TypeOK
  <2>2. FlagLeads'
    BY <1>4 DEF ConnectOpen, FlagLeads, TypeOK
  <2>3. LateIsRefused'
    BY <1>4 DEF ConnectOpen, LateIsRefused, TypeOK
  <2>4. IgnoredOnlyInARace'
    BY <1>4 DEF ConnectOpen, IgnoredOnlyInARace
  <2> QED BY <2>1, <2>2, <2>3, <2>4
<1>5. CASE UNCHANGED vars
  BY <1>5 DEF vars, TypeOK, FlagLeads, LateIsRefused, IgnoredOnlyInARace
<1> QED
  BY <1>1, <1>2, <1>3, <1>4, <1>5 DEF Next

\* The inductive invariant of the process.
LEMMA Invariant == Spec => []IInv
  BY InvInit, InvStep, PTL DEF Spec

\* The types are kept (options.hpp).
THEOREM StartupTypeCorrect == Spec => []TypeOK
<1>1. IInv => TypeOK
  BY DEF IInv
<1> QED
  BY Invariant, <1>1, PTL

\* Once the pool is built every runtime_init that begins is refused, on however
\* many threads the process connects and initialises.
THEOREM NeverTooLateSilently == Spec => []LateIsRefused
<1>1. IInv => LateIsRefused
  BY DEF IInv
<1> QED
  BY Invariant, <1>1, PTL

\* Settings that were reported as applied and had no effect ran into a connect
\* that began between the look at the flag and the call.
THEOREM SilenceIsARace == Spec => []IgnoredOnlyInARace
<1>1. IInv => IgnoredOnlyInARace
  BY DEF IInv
<1> QED
  BY Invariant, <1>1, PTL

-----------------------------------------------------------------------------
\* The C view of the options.

\* The place of a field's text is lost when the view moves out of the frame of
\* to_c(): a short directory, in a build that does not build in place.
Stranded(f) == ~elided /\ f \in Directories /\ wanted[f] # {} /\ wanted[f] \subseteq Short

\* From the moment the view is filled, the C struct points to the places to_c()
\* chose, and what is stored there is what the options say, until the view moves
\* and strands some of it.  What was read before is as good as what can be read.
ViewInv ==
    /\ ViewTypeOK
    /\ at \in {"filled", "returned", "opened"} =>
          ptr = [f \in Fields |-> IF wanted[f] = {} THEN Null ELSE Home(f)]
    /\ at \in {"filled", "returned"} =>
          \A f \in Fields :
              wanted[f] # {} /\ (Stranded(f) => at = "filled") => mem[Home(f)] = wanted[f]
    /\ OnlyCopiedShortStringsAreLost

\* A field has one place, and one that is not stranded is not in to_c()'s frame.
LEMMA HomeIsPlace ==
  ASSUME ViewTypeOK, NEW f \in Fields
  PROVE  /\ Home(f) \in Places /\ Home(f)[2] = f
         /\ wanted[f] # {} /\ ~Stranded(f) => elided \/ Home(f) = <<"heap", f>>
<1>1. elided \in BOOLEAN
  BY DEF ViewTypeOK
<1>2. CASE f \in Directories /\ wanted[f] \subseteq Short
  <2>1. Home(f) = <<Frame, f>> /\ Frame \in Frames
    BY <1>1, <1>2 DEF Home, Frame, Frames
  <2>2. wanted[f] # {} /\ ~Stranded(f) => elided
    BY <1>2 DEF Stranded
  <2> QED BY <1>2, <2>1, <2>2 DEF Places
<1>3. CASE ~(f \in Directories /\ wanted[f] \subseteq Short)
  <2>1. Home(f) = <<"heap", f>>
    BY <1>3 DEF Home
  <2> QED BY <2>1 DEF Places
<1> QED BY <1>2, <1>3

\* A place is in the heap or in one of the frames.
LEMMA PlaceIs ==
  ASSUME NEW p \in Places
  PROVE  /\ p[1] \in {"to_c", "connect", "heap"} /\ p[2] \in Fields
         /\ p[1] \in Frames => p[2] \in Directories /\ <<"to_c", p[2]>> \in Places
BY DEF Places, Frames, Fields

\* A view that was not there yet satisfies the invariant.
LEMMA ViewInvInit == ViewInit => ViewInv
BY DEF ViewInit, ViewInv, ViewTypeOK, Empty, OnlyCopiedShortStringsAreLost

\* A step of the client, before a connect.
LEMMA ClientStep ==
  ASSUME ViewInv, at = "idle", wanted' \in [Fields -> SUBSET Texts],
         UNCHANGED <<elided, at, mem, ptr, seen>>
  PROVE  ViewInv'
BY DEF ViewInv, ViewTypeOK, OnlyCopiedShortStringsAreLost

\* Every step preserves it.
LEMMA ViewInvStep == ViewInv /\ [ViewNext]_viewVars => ViewInv'
<1> SUFFICES ASSUME ViewInv, [ViewNext]_viewVars PROVE ViewInv'
  OBVIOUS
<1>1. CASE \E d \in Directories, text \in {{}} \cup {{x} : x \in Short \cup Long} :
               SetDirectory(d, text)
  <2>1. PICK d \in Directories, text \in {{}} \cup {{x} : x \in Short \cup Long} :
               SetDirectory(d, text)
    BY <1>1
  <2>2. text \in SUBSET Texts
    BY DEF Texts
  <2>3. wanted' \in [Fields -> SUBSET Texts]
    BY <2>1, <2>2 DEF SetDirectory, ViewInv, ViewTypeOK
  <2> QED BY <2>1, <2>3, ClientStep DEF SetDirectory
<1>2. CASE \E t \in TargetSets, names \in SUBSET Names : SetTargets(t, names)
  <2>1. wanted' \in [Fields -> SUBSET Texts]
    BY <1>2 DEF SetTargets, ViewInv, ViewTypeOK, Texts
  <2> QED BY <1>2, <2>1, ClientStep DEF SetTargets
<1>3. CASE \E t \in TargetSets, name \in Names : AddTarget(t, name)
  <2>1. PICK t \in TargetSets, name \in Names : AddTarget(t, name)
    BY <1>3
  <2>2. wanted[t] \cup {name} \in SUBSET Texts
    BY DEF ViewInv, ViewTypeOK, Texts, Fields
  <2>3. wanted' \in [Fields -> SUBSET Texts]
    BY <2>1, <2>2 DEF AddTarget, ViewInv, ViewTypeOK
  <2> QED BY <2>1, <2>3, ClientStep DEF AddTarget
<1>4. CASE EnterToC
  <2>1. mem' \in [Places -> SUBSET (Texts \cup {Gone})]
    BY <1>4 DEF EnterToC, ViewInv, ViewTypeOK
  <2> QED BY <1>4, <2>1 DEF EnterToC, ViewInv, ViewTypeOK, OnlyCopiedShortStringsAreLost
<1>5. CASE FillView
  <2>1. UNCHANGED <<elided, wanted, seen>> /\ at' = "filled"
    BY <1>5 DEF FillView
  <2>2. \A f \in Fields : Home(f)' = Home(f) /\ Home(f) \in Places /\ Home(f)[2] = f
    BY <2>1, HomeIsPlace DEF ViewInv, Home, Frame
  <2>3. ptr' = [f \in Fields |-> IF wanted[f] = {} THEN Null ELSE Home(f)]
    BY <1>5 DEF FillView
  <2>4. mem' = [p \in Places |->
                   IF p = Home(p[2]) /\ wanted[p[2]] # {} THEN wanted[p[2]] ELSE mem[p]]
    BY <1>5 DEF FillView
  <2>5. \A p \in Places : mem'[p] \in SUBSET (Texts \cup {Gone})
    <3> SUFFICES ASSUME NEW p \in Places PROVE mem'[p] \in SUBSET (Texts \cup {Gone})
      OBVIOUS
    <3>1. wanted[p[2]] \in SUBSET Texts /\ mem[p] \in SUBSET (Texts \cup {Gone})
      BY PlaceIs DEF ViewInv, ViewTypeOK
    <3> QED BY <2>4, <3>1
  <2>6. ViewTypeOK'
    <3>1. mem' \in [Places -> SUBSET (Texts \cup {Gone})]
      BY <2>4, <2>5
    <3>2. ptr' \in [Fields -> Places \cup {Null}]
      BY <2>2, <2>3
    <3> QED BY <2>1, <3>1, <3>2 DEF ViewInv, ViewTypeOK
  <2>7. \A f \in Fields : wanted[f] # {} => mem'[Home(f)] = wanted[f]
    BY <2>2, <2>4
  <2>8. ptr' = [f \in Fields |-> IF wanted'[f] = {} THEN Null ELSE Home(f)']
    BY <2>1, <2>2, <2>3
  <2> QED BY <2>1, <2>2, <2>6, <2>7, <2>8 DEF ViewInv, OnlyCopiedShortStringsAreLost
<1>6. CASE ReturnView
  <2>1. UNCHANGED <<elided, wanted, ptr, seen>> /\ at = "filled" /\ at' = "returned"
    BY <1>6 DEF ReturnView
  <2>2. \A f \in Fields : Home(f)' = Home(f) /\ (Stranded(f)' <=> Stranded(f))
    BY <2>1 DEF Home, Frame, Stranded
  <2>3. CASE elided
    <3>1. mem' = mem
      BY <1>6, <2>3 DEF ReturnView
    <3>2. \A f \in Fields : ~Stranded(f)
      BY <2>3 DEF Stranded
    <3> QED BY <2>1, <2>2, <3>1, <3>2 DEF ViewInv, ViewTypeOK, OnlyCopiedShortStringsAreLost
  <2>4. CASE ~elided
    <3>1. mem' = [p \in Places |-> CASE p[1] = "connect" -> mem[<<"to_c", p[2]>>]
                                      [] p[1] = "to_c" -> {Gone}
                                      [] p[1] = "heap" -> mem[p]]
      BY <1>6, <2>4 DEF ReturnView
    <3>2. ASSUME NEW p \in Places
          PROVE  /\ mem'[p] \in SUBSET (Texts \cup {Gone})
                 /\ p[1] = "heap" => mem'[p] = mem[p]
      <4>1. CASE p[1] = "connect"
        <5>1. <<"to_c", p[2]>> \in Places
          BY <4>1, PlaceIs DEF Frames
        <5> QED BY <3>1, <4>1, <5>1 DEF ViewInv, ViewTypeOK
      <4>2. CASE p[1] = "to_c"
        BY <3>1, <4>2
      <4>3. CASE p[1] = "heap"
        BY <3>1, <4>3 DEF ViewInv, ViewTypeOK
      <4> QED BY <4>1, <4>2, <4>3, PlaceIs
    <3>3. ViewTypeOK'
      <4>1. mem' \in [Places -> SUBSET (Texts \cup {Gone})]
        BY <3>1, <3>2
      <4> QED BY <2>1, <4>1 DEF ViewInv, ViewTypeOK
    <3>4. ASSUME NEW f \in Fields, wanted[f] # {}, ~Stranded(f)
          PROVE  mem'[Home(f)] = wanted[f]
      <4>1. Home(f) \in Places /\ Home(f)[1] = "heap"
        BY <2>4, <3>4, HomeIsPlace DEF ViewInv
      <4>2. mem[Home(f)] = wanted[f]
        BY <2>1, <3>4 DEF ViewInv
      <4> QED BY <3>2, <4>1, <4>2
    <3> QED BY <2>1, <2>2, <3>3, <3>4 DEF ViewInv, OnlyCopiedShortStringsAreLost
  <2> QED BY <2>3, <2>4 DEF ViewInv, ViewTypeOK
<1>7. CASE OpenEngine
  <2>1. UNCHANGED <<elided, wanted, mem, ptr>> /\ at = "returned" /\ at' = "opened"
    BY <1>7 DEF OpenEngine
  <2>2. seen' = [f \in Fields |-> IF ptr[f] = Null THEN {} ELSE mem[ptr[f]]]
    BY <1>7 DEF OpenEngine
  <2>3. ptr = [f \in Fields |-> IF wanted[f] = {} THEN Null ELSE Home(f)]
    BY <2>1 DEF ViewInv
  <2>4. seen' \in [Fields -> SUBSET (Texts \cup {Gone})]
    <3>1. \A f \in Fields : ptr[f] # Null => mem[ptr[f]] \in SUBSET (Texts \cup {Gone})
      BY DEF ViewInv, ViewTypeOK
    <3> QED BY <2>2, <3>1
  <2>5. ASSUME NEW f \in Fields, ~Stranded(f)
        PROVE  seen'[f] = wanted[f]
    <3>1. CASE wanted[f] = {}
      BY <2>2, <2>3, <3>1
    <3>2. CASE wanted[f] # {}
      <4>1. ptr[f] = Home(f) /\ Home(f) # Null
        BY <2>3, <3>2, HomeIsPlace, OptionsViewAssumption DEF ViewInv
      <4>2. mem[Home(f)] = wanted[f]
        BY <2>1, <2>5, <3>2 DEF ViewInv
      <4> QED BY <2>2, <4>1, <4>2
    <3> QED BY <3>1, <3>2
  <2>6. OnlyCopiedShortStringsAreLost'
    BY <2>1, <2>5 DEF OnlyCopiedShortStringsAreLost, Stranded
  <2>7. ptr' = [f \in Fields |-> IF wanted'[f] = {} THEN Null ELSE Home(f)']
    BY <2>1, <2>3 DEF Home, Frame
  <2> QED BY <2>1, <2>4, <2>6, <2>7 DEF ViewInv, ViewTypeOK
<1>8. CASE LeaveConnect
  BY <1>8 DEF LeaveConnect, Empty, ViewInv, ViewTypeOK, OnlyCopiedShortStringsAreLost
<1>9. CASE UNCHANGED viewVars
  BY <1>9 DEF viewVars, ViewInv, ViewTypeOK, Home, Frame, Stranded,
     OnlyCopiedShortStringsAreLost
<1> QED
  BY <1>1, <1>2, <1>3, <1>4, <1>5, <1>6, <1>7, <1>8, <1>9 DEF ViewNext

\* Whatever the options say and however often they are used, the C library reads
\* them as they are, but for a short directory of a view that was moved.
THEOREM ViewsAreReadAsWanted == ViewSpec => []OnlyCopiedShortStringsAreLost
<1>1. ViewInv => OnlyCopiedShortStringsAreLost
  BY DEF ViewInv
<1> QED
  BY ViewInvInit, ViewInvStep, <1>1, PTL DEF ViewSpec
=============================================================================
