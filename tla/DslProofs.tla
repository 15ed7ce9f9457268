------------------------------- MODULE DslProofs -------------------------------
(****************************************************************************)
(* The safety properties of Dsl for any number of calls and any depth of    *)
(* nesting; that the statement follows the grammar is in DslGrammarProofs.  *)
(****************************************************************************)
EXTENDS Dsl, Integers, SequenceTheorems, FunctionTheorems, FiniteSetTheorems, TLAPS

-----------------------------------------------------------------------------
\* Counting tokens.

\* Which of the first n tokens of s are in K, and how many.
Found(s, K, n) == {k \in 1..n : s[k] \in K}
Counted(s, K, n) == Cardinality(Found(s, K, n))
HowMany(s, K) == Counted(s, K, Len(s))

\* A count is a number.
LEMMA CountedType ==
  ASSUME NEW s, NEW K, NEW n \in Int
  PROVE  /\ IsFiniteSet(Found(s, K, n))
         /\ Counted(s, K, n) \in Nat
<1>1. IsFiniteSet(1..n)
  BY FS_Interval
<1>2. IsFiniteSet(Found(s, K, n))
  <2>1. Found(s, K, n) \subseteq 1..n
    BY DEF Found
  <2> QED BY <1>1, <2>1, FS_Subset
<1> QED BY <1>2, FS_CardinalityType DEF Counted

\* A count looks at nothing but which tokens are in K.
LEMMA CountedSame ==
  ASSUME NEW s, NEW t, NEW K, NEW n \in Int,
         \A k \in 1..n : s[k] \in K <=> t[k] \in K
  PROVE  Counted(s, K, n) = Counted(t, K, n)
<1>1. Found(s, K, n) = Found(t, K, n)
  BY DEF Found
<1> QED BY <1>1 DEF Counted

\* Nothing is counted in no tokens.
LEMMA CountedNone ==
  ASSUME NEW s, NEW K
  PROVE  Counted(s, K, 0) = 0
<1>1. Found(s, K, 0) = {}
  BY DEF Found
<1> QED BY <1>1, FS_EmptySet DEF Counted

\* One token more.
LEMMA CountedStep ==
  ASSUME NEW s, NEW K, NEW n \in Nat
  PROVE  Counted(s, K, n + 1) = Counted(s, K, n) + (IF s[n + 1] \in K THEN 1 ELSE 0)
<1> DEFINE before == Found(s, K, n)
           after == Found(s, K, n + 1)
<1>1. IsFiniteSet(before) /\ Cardinality(before) \in Nat
  BY CountedType DEF Counted
<1> USE DEF Found
<1>2. n + 1 \notin before /\ n + 1 \in 1..(n + 1) /\ 1..(n + 1) = (1..n) \cup {n + 1}
  OBVIOUS
<1>3. CASE s[n + 1] \in K
  <2>1. after = before \cup {n + 1}
    BY <1>2, <1>3
  <2>2. Cardinality(before \cup {n + 1}) = Cardinality(before) + 1
    BY <1>1, <1>2, FS_AddElement
  <2> QED BY <1>3, <2>1, <2>2 DEF Counted
<1>4. CASE s[n + 1] \notin K
  <2>1. after = before
    BY <1>2, <1>4
  <2> QED BY <1>1, <1>4, <2>1 DEF Counted
<1> QED BY <1>3, <1>4

\* Counting in a text that was appended to: up to where it was.
LEMMA CountedBefore ==
  ASSUME NEW s \in Seq(Tokens), NEW t \in Seq(Tokens), NEW K, NEW n \in 0..Len(s)
  PROVE  Counted(s \o t, K, n) = Counted(s, K, n)
<1>0. Len(s) \in Nat /\ Len(t) \in Nat
  BY LenProperties
<1>1. \A i \in 1 .. Len(s) + Len(t) :
         (s \o t)[i] = IF i <= Len(s) THEN s[i] ELSE t[i - Len(s)]
  BY ConcatProperties
<1>2. \A k \in 1..n : (s \o t)[k] = s[k]
  BY <1>0, <1>1
<1>3. Found(s \o t, K, n) = Found(s, K, n)
  BY <1>2 DEF Found
<1> QED BY <1>3 DEF Counted

\* And beyond.
LEMMA CountedConcat ==
  ASSUME NEW s \in Seq(Tokens), NEW t \in Seq(Tokens), NEW K
  PROVE  /\ \A n \in 0..Len(t) :
               Counted(s \o t, K, Len(s) + n) = HowMany(s, K) + Counted(t, K, n)
         /\ HowMany(s \o t, K) = HowMany(s, K) + HowMany(t, K)
<1>0. Len(s) \in Nat /\ Len(t) \in Nat
  BY LenProperties
<1>1. /\ Len(s \o t) = Len(s) + Len(t)
      /\ \A i \in 1 .. Len(s) + Len(t) :
            (s \o t)[i] = IF i <= Len(s) THEN s[i] ELSE t[i - Len(s)]
  BY ConcatProperties
<1>3. ASSUME NEW n \in 0..Len(t)
      PROVE  Counted(s \o t, K, Len(s) + n) = HowMany(s, K) + Counted(t, K, n)
  <2> DEFINE A == Found(s, K, Len(s))
             B == Found(t, K, n)
             C == {k \in (Len(s) + 1)..(Len(s) + n) : t[k - Len(s)] \in K}
             f == [k \in B |-> k + Len(s)]
  <2>1. IsFiniteSet(A) /\ IsFiniteSet(B)
    BY <1>0, CountedType
  <2> USE DEF Found
  <2>2. f \in Bijection(B, C)
    <3>1. f \in [B -> C]
      BY <1>0
    <3>2. \A a, b \in B : f[a] = f[b] => a = b
      BY <1>0
    <3>3. \A c \in C : \E b \in B : f[b] = c
      <4>1. ASSUME NEW c \in C PROVE \E b \in B : f[b] = c
        <5>1. c - Len(s) \in B
          BY <1>0
        <5> QED BY <1>0, <5>1
      <4> QED BY <4>1
    <3> QED BY <3>1, <3>2, <3>3, Fun_IsBij
  <2>3. IsFiniteSet(C) /\ Cardinality(C) = Cardinality(B)
    <3>1. ExistsBijection(B, C)
      BY <2>2 DEF ExistsBijection
    <3> QED BY <2>1, <3>1, FS_Bijection
  <2>4. Found(s \o t, K, Len(s) + n) = A \cup C
    <3>1. ASSUME NEW k \in 1..Len(s) PROVE (s \o t)[k] = s[k]
      BY <1>0, <1>1
    <3>2. ASSUME NEW k \in (Len(s) + 1)..(Len(s) + n) PROVE (s \o t)[k] = t[k - Len(s)]
      BY <1>0, <1>1
    <3>3. 1..(Len(s) + n) = (1..Len(s)) \cup ((Len(s) + 1)..(Len(s) + n))
      BY <1>0
    <3> QED BY <3>1, <3>2, <3>3
  <2>5. A \cap C = {}
    BY <1>0
  <2> HIDE DEF Found, A, B, C
  <2>6. Cardinality(A \cup C) = Cardinality(A) + Cardinality(C)
    <3>1. Cardinality(A \cap C) = 0
      BY <2>5, FS_EmptySet
    <3>2. Cardinality(A) \in Nat /\ Cardinality(C) \in Nat
      BY <2>1, <2>3, FS_CardinalityType
    <3>3. Cardinality(A \cup C) = Cardinality(A) + Cardinality(C) - Cardinality(A \cap C)
      <4>1. IsFiniteSet(A) /\ IsFiniteSet(C)
        BY <2>1, <2>3
      <4> QED BY <4>1, FS_Union, Zenon
    <3> QED BY <3>1, <3>2, <3>3
  <2> QED BY <2>3, <2>4, <2>6 DEF Counted, HowMany, A, B
<1>4. HowMany(s \o t, K) = HowMany(s, K) + HowMany(t, K)
  BY <1>0, <1>1, <1>3 DEF HowMany
<1> QED BY <1>3, <1>4

\* In particular the places of values in text put together add up.
LEMMA BoundConcat ==
  ASSUME NEW s \in Seq(Tokens), NEW t \in Seq(Tokens)
  PROVE  HowMany(s \o t, Binding) = HowMany(s, Binding) + HowMany(t, Binding)
  BY CountedConcat

-----------------------------------------------------------------------------
\* Parentheses.

Nest(s, n) == Counted(s, {"("}, n) - Counted(s, {")"}, n)

\* Text that closes what it opens, and nothing else.
Closed(s) ==
    /\ \A n \in 0..Len(s) : Nest(s, n) >= 0
    /\ Nest(s, Len(s)) = 0

\* Text without any of K.
Without(s, K) == \A k \in 1..Len(s) : s[k] \notin K

\* Nothing is counted where there is nothing to count.
LEMMA WithoutCounts ==
  ASSUME NEW s, NEW K, Len(s) \in Nat, Without(s, K), NEW n \in 0..Len(s)
  PROVE  Counted(s, K, n) = 0
<1>1. Found(s, K, n) = {}
  BY DEF Found, Without
<1> QED BY <1>1, FS_EmptySet DEF Counted

\* Text without parentheses is closed.
LEMMA FlatIsClosed ==
  ASSUME NEW s \in Seq(Tokens), Without(s, {"(", ")"})
  PROVE  Closed(s)
<1>1. Len(s) \in Nat
  BY LenProperties
<1>2. Without(s, {"("}) /\ Without(s, {")"})
  BY DEF Without
<1>3. \A n \in 0..Len(s) : Counted(s, {"("}, n) = 0 /\ Counted(s, {")"}, n) = 0
  BY <1>1, <1>2, WithoutCounts
<1> QED BY <1>1, <1>3 DEF Closed, Nest

\* What was written before keeps its nesting, and what is appended adds its own.
LEMMA NestConcat ==
  ASSUME NEW s \in Seq(Tokens), NEW t \in Seq(Tokens)
  PROVE  /\ \A n \in 0..Len(s) : Nest(s \o t, n) = Nest(s, n)
         /\ \A n \in 0..Len(t) : Nest(s \o t, Len(s) + n) = Nest(s, Len(s)) + Nest(t, n)
<1>0. Len(s) \in Nat /\ Len(t) \in Nat
  BY LenProperties
<1>1. ASSUME NEW n \in 0..Len(s) PROVE Nest(s \o t, n) = Nest(s, n)
  <2>1. ASSUME NEW K PROVE Counted(s \o t, K, n) = Counted(s, K, n)
    BY CountedBefore
  <2> QED BY <2>1 DEF Nest
<1>2. ASSUME NEW n \in 0..Len(t)
      PROVE  Nest(s \o t, Len(s) + n) = Nest(s, Len(s)) + Nest(t, n)
  <2> DEFINE a == Counted(s, {"("}, Len(s))
             b == Counted(s, {")"}, Len(s))
             c == Counted(t, {"("}, n)
             d == Counted(t, {")"}, n)
  <2>1. a \in Nat /\ b \in Nat /\ c \in Nat /\ d \in Nat
    BY <1>0, CountedType
  <2>2. Counted(s \o t, {"("}, Len(s) + n) = a + c
    BY CountedConcat DEF HowMany
  <2>3. Counted(s \o t, {")"}, Len(s) + n) = b + d
    BY CountedConcat DEF HowMany
  <2> HIDE DEF a, b, c, d
  <2>4. (a + c) - (b + d) = (a - b) + (c - d)
    BY <2>1
  <2> QED BY <2>2, <2>3, <2>4 DEF Nest, a, b, c, d
<1> QED BY <1>1, <1>2

\* Nesting is a number.
LEMMA NestType ==
  ASSUME NEW s, NEW n \in Int
  PROVE  Nest(s, n) \in Int
<1>1. Counted(s, {"("}, n) \in Nat /\ Counted(s, {")"}, n) \in Nat
  BY CountedType
<1> QED BY <1>1 DEF Nest

\* Closed text may be appended to any text that never closes too much.
LEMMA NestAfter ==
  ASSUME NEW s \in Seq(Tokens), NEW t \in Seq(Tokens), Closed(t),
         \A n \in 0..Len(s) : Nest(s, n) >= 0
  PROVE  /\ \A n \in 0..Len(s \o t) : Nest(s \o t, n) >= 0
         /\ Nest(s \o t, Len(s \o t)) = Nest(s, Len(s))
<1>0. Len(s) \in Nat /\ Len(t) \in Nat /\ Len(s \o t) = Len(s) + Len(t)
  BY LenProperties, ConcatProperties
<1>1. ASSUME NEW n \in 0..Len(s \o t) PROVE Nest(s \o t, n) >= 0
  <2>1. CASE n <= Len(s)
    BY <1>0, <2>1, NestConcat
  <2>2. CASE n > Len(s)
    <3>1. n - Len(s) \in 0..Len(t) /\ n = Len(s) + (n - Len(s))
      BY <1>0, <2>2
    <3>2. Nest(s \o t, Len(s) + (n - Len(s))) = Nest(s, Len(s)) + Nest(t, n - Len(s))
      BY <3>1, NestConcat
    <3>3. Nest(s, Len(s)) \in Int /\ Nest(t, n - Len(s)) \in Int
      BY <1>0, <3>1, NestType
    <3>4. Nest(s, Len(s)) >= 0 /\ Nest(t, n - Len(s)) >= 0
      BY <1>0, <3>1 DEF Closed
    <3> QED BY <3>1, <3>2, <3>3, <3>4
  <2> QED BY <1>0, <2>1, <2>2
<1>2. Nest(s \o t, Len(s) + Len(t)) = Nest(s, Len(s)) + Nest(t, Len(t))
  BY <1>0, NestConcat
<1> QED BY <1>0, <1>1, <1>2, NestType DEF Closed

\* Closed text put together is closed.
LEMMA ClosedConcat ==
  ASSUME NEW s \in Seq(Tokens), NEW t \in Seq(Tokens), Closed(s), Closed(t)
  PROVE  Closed(s \o t)
  BY NestAfter DEF Closed

-----------------------------------------------------------------------------
\* What the actions write.

\* Text is put together in any order.
LEMMA TextAssociates ==
  ASSUME NEW s \in Seq(Tokens), NEW t \in Seq(Tokens), NEW u \in Seq(Tokens)
  PROVE  (s \o t) \o u = s \o (t \o u)
  BY ConcatAssociative

\* The tokens an action may append outside a group.
Plain == Tokens \ {"(", ")"}

\* Text without parentheses is closed.
LEMMA PlainText ==
  ASSUME NEW t \in Seq(Plain)
  PROVE  t \in Seq(Tokens) /\ Closed(t)
<1>1. t \in Seq(Tokens)
  BY SeqMonotonic DEF Plain
<1>2. Without(t, {"(", ")"})
  BY ElementOfSeq DEF Without, Plain
<1> QED BY <1>1, <1>2, FlatIsClosed

\* Text without values.
Valueless == Plain \ Binding

\* And text without values has none.
LEMMA ValuelessText ==
  ASSUME NEW t \in Seq(Valueless)
  PROVE  t \in Seq(Tokens) /\ Closed(t) /\ HowMany(t, Binding) = 0
<1>1. t \in Seq(Plain)
  BY SeqMonotonic DEF Valueless
<1>2. Without(t, Binding)
  BY ElementOfSeq DEF Without, Valueless
<1>3. Len(t) \in Nat
  BY LenProperties
<1> QED BY <1>1, <1>2, <1>3, PlainText, WithoutCounts DEF HowMany

\* Text of one token.
LEMMA OneToken ==
  ASSUME NEW x \in Tokens, NEW K
  PROVE  /\ <<x>> \in Seq(Tokens) /\ Len(<<x>>) = 1
         /\ HowMany(<<x>>, K) = IF x \in K THEN 1 ELSE 0
         /\ x \notin {"(", ")"} => Closed(<<x>>)
<1>1. <<x>> \in Seq(Tokens) /\ Len(<<x>>) = 1 /\ <<x>>[1] = x
  OBVIOUS
<1>2. HowMany(<<x>>, K) = IF x \in K THEN 1 ELSE 0
  <2>1. Counted(<<x>>, K, 0) = 0
    BY CountedNone
  <2>2. Counted(<<x>>, K, 0 + 1) = Counted(<<x>>, K, 0) + (IF <<x>>[0 + 1] \in K THEN 1 ELSE 0)
    BY CountedStep
  <2> QED BY <1>1, <2>1, <2>2 DEF HowMany
<1>3. x \notin {"(", ")"} => Closed(<<x>>)
  <2>1. x \notin {"(", ")"} => Without(<<x>>, {"(", ")"})
    BY <1>1 DEF Without
  <2> QED BY <1>1, <2>1, FlatIsClosed
<1> QED BY <1>1, <1>2, <1>3

\* finish_fields() binds nothing.
LEMMA FromText ==
  FromClause \in Seq(Tokens) /\ Closed(FromClause) /\ HowMany(FromClause, Binding) = 0
<1>1. "FROM" \in Valueless /\ "*" \in Valueless
  BY DEF Valueless, Plain, Tokens, Binding
<1>2. FromClause \in Seq(Valueless)
  BY <1>1 DEF FromClause
<1> QED BY <1>2, ValuelessText

\* join() binds nothing.
LEMMA JoinText ==
  ASSUME guards \in Seq(Guard), NEW i \in 1..Len(guards)
  PROVE  Join(i) \in Seq(Tokens) /\ Closed(Join(i)) /\ HowMany(Join(i), Binding) = 0
<1>1. guards[i].joiner \in Valueless
  <2>1. guards[i] \in Guard
    BY ElementOfSeq
  <2>2. guards[i].joiner \in Joiners
    BY <2>1 DEF Guard
  <2> QED BY <2>2 DEF Joiners, Valueless, Plain, Tokens, Binding
<1>2. Join(i) \in Seq(Valueless)
  BY <1>1 DEF Join
<1> QED BY <1>2, ValuelessText

\* Text put together of two.
LEMMA TextConcat ==
  ASSUME NEW s \in Seq(Tokens), NEW t \in Seq(Tokens), Closed(s), Closed(t)
  PROVE  /\ s \o t \in Seq(Tokens) /\ Closed(s \o t)
         /\ HowMany(s \o t, Binding) = HowMany(s, Binding) + HowMany(t, Binding)
  BY ConcatProperties, ClosedConcat, CountedConcat

\* An expression closes its parentheses.
LEMMA ExpressionText ==
  ASSUME NEW e \in Expressions
  PROVE  e \in Seq(Tokens) /\ Closed(e) /\ BoundBy(e) = HowMany(e, Binding)
<1>0. BoundBy(e) = HowMany(e, Binding)
  BY DEF BoundBy, HowMany, Counted, Found
<1>1. ASSUME NEW c \in Conditions, e = <<c>>
      PROVE  e \in Seq(Tokens) /\ Closed(e)
  <2>1. c \in Tokens /\ c \notin {"(", ")"}
    BY DEF Tokens, Conditions
  <2> QED BY <1>1, <2>1, OneToken
<1>2. ASSUME NEW j \in Joiners, e = <<"(", "cond", j, "raw", ")">>
      PROVE  e \in Seq(Tokens) /\ Closed(e)
  <2>1. e \in Seq(Tokens)
    <3>1. j \in Tokens /\ {"(", "cond", "raw", ")"} \subseteq Tokens
      BY DEF Tokens, Conditions
    <3> QED BY <1>2, <3>1
  <2>2. /\ Len(e) = 5
        /\ e[1] = "(" /\ e[2] \notin {"(", ")"} /\ e[3] \notin {"(", ")"}
        /\ e[4] \notin {"(", ")"} /\ e[5] = ")"
    BY <1>2 DEF Joiners
  <2> DEFINE op(n) == Counted(e, {"("}, n)
             cl(n) == Counted(e, {")"}, n)
  <2>3. op(0) = 0 /\ cl(0) = 0
    BY CountedNone
  <2>4. \A n \in Nat : op(n + 1) = op(n) + (IF e[n + 1] \in {"("} THEN 1 ELSE 0)
    BY CountedStep
  <2>5. \A n \in Nat : cl(n + 1) = cl(n) + (IF e[n + 1] \in {")"} THEN 1 ELSE 0)
    BY CountedStep
  <2> HIDE DEF op, cl
  <2>6. op(1) = 1 /\ op(2) = 1 /\ op(3) = 1 /\ op(4) = 1 /\ op(5) = 1
    <3>1. op(0 + 1) = 1
      BY <2>2, <2>3, <2>4
    <3>2. op(1 + 1) = 1
      BY <2>2, <2>4, <3>1
    <3>3. op(2 + 1) = 1
      BY <2>2, <2>4, <3>2
    <3>4. op(3 + 1) = 1
      BY <2>2, <2>4, <3>3
    <3>5. op(4 + 1) = 1
      BY <2>2, <2>4, <3>4
    <3> QED BY <3>1, <3>2, <3>3, <3>4, <3>5
  <2>7. cl(1) = 0 /\ cl(2) = 0 /\ cl(3) = 0 /\ cl(4) = 0 /\ cl(5) = 1
    <3>1. cl(0 + 1) = 0
      BY <2>2, <2>3, <2>5
    <3>2. cl(1 + 1) = 0
      BY <2>2, <2>5, <3>1
    <3>3. cl(2 + 1) = 0
      BY <2>2, <2>5, <3>2
    <3>4. cl(3 + 1) = 0
      BY <2>2, <2>5, <3>3
    <3>5. cl(4 + 1) = 1
      BY <2>2, <2>5, <3>4
    <3> QED BY <3>1, <3>2, <3>3, <3>4, <3>5
  <2>8. \A n \in 0..5 : n \in {0, 1, 2, 3, 4, 5}
    OBVIOUS
  <2>9. \A n \in 0..5 : op(n) - cl(n) >= 0
    BY <2>3, <2>6, <2>7, <2>8
  <2> QED BY <2>1, <2>2, <2>6, <2>7, <2>9 DEF Closed, Nest, op, cl
<1> QED BY <1>0, <1>1, <1>2 DEF Expressions, Conditions

-----------------------------------------------------------------------------
\* What a step does to the text, the values and the guards: it adds closed text
\* with its values, opens a guard with a keyword or parenthesis, or closes one.

Opener(kind) == IF kind = "where" THEN "WHERE" ELSE "("

\* The guards of hs are those that are alive, but for what they remember of
\* their conditions.
Keeps(hs) ==
    /\ hs \in Seq(Guard) /\ Len(hs) = Len(guards)
    /\ \A i \in 1..Len(guards) :
          /\ hs[i].kind = guards[i].kind
          /\ hs[i].depth = guards[i].depth
          /\ hs[i].open = guards[i].open

Adds(t) ==
    /\ t \in Seq(Tokens) /\ Closed(t)
    /\ buf' = buf \o t
    /\ bound' = bound + HowMany(t, Binding)
    /\ Keeps(guards')

Opens(t, hs, g) ==
    /\ t \in Seq(Tokens) /\ Closed(t) /\ HowMany(t, Binding) = 0
    /\ buf' = (buf \o t) \o <<Opener(g.kind)>>
    /\ bound' = bound
    /\ Keeps(hs)
    /\ g \in Guard /\ g.open = Len(buf \o t) + 1 /\ g.depth = depth + 1
    /\ guards' = Append(hs, g) /\ Len(guards) < MaxNesting

\* A refused write adds nothing.
LEMMA AddsNothing ==
  ASSUME TypeOK, UNCHANGED <<buf, bound, guards>>
  PROVE  Adds(<<>>)
<1>1. <<>> \in Seq(Valueless)
  OBVIOUS
<1>2. buf \o <<>> = buf
  BY ConcatEmptySeq DEF TypeOK
<1>3. <<>> \in Seq(Tokens) /\ Closed(<<>>) /\ HowMany(<<>>, Binding) = 0
  BY <1>1, ValuelessText
<1>4. bound' = bound + 0
  BY DEF TypeOK
<1>5. Keeps(guards')
  BY DEF Keeps, TypeOK
<1> QED BY <1>2, <1>3, <1>4, <1>5 DEF Adds

\* A token after what finish_fields() or join() wrote.
LEMMA AddsToken ==
  ASSUME TypeOK, NEW t \in Seq(Tokens), Closed(t), HowMany(t, Binding) = 0,
         NEW x \in Plain, buf' = buf \o t \o <<x>>,
         bound' = IF x \in Binding THEN bound + 1 ELSE bound,
         Keeps(guards')
  PROVE  Adds(t \o <<x>>)
<1>1. /\ <<x>> \in Seq(Tokens) /\ Closed(<<x>>)
      /\ HowMany(<<x>>, Binding) = IF x \in Binding THEN 1 ELSE 0
  BY OneToken DEF Plain
<1>2. /\ t \o <<x>> \in Seq(Tokens) /\ Closed(t \o <<x>>)
      /\ HowMany(t \o <<x>>, Binding) = 0 + HowMany(<<x>>, Binding)
  BY <1>1, TextConcat
<1>3. buf' = buf \o (t \o <<x>>)
  <2>1. buf \in Seq(Tokens)
    BY DEF TypeOK
  <2>2. (buf \o t) \o <<x>> = buf \o (t \o <<x>>)
    BY <1>1, <2>1, TextAssociates
  <2> QED BY <2>2
<1>4. bound' = bound + HowMany(t \o <<x>>, Binding)
  BY <1>1, <1>2 DEF TypeOK
<1> QED BY <1>2, <1>3, <1>4 DEF Adds

\* Guards that are left alone are kept.
LEMMA SameGuards == TypeOK /\ UNCHANGED guards => Keeps(guards')
  BY DEF TypeOK, Keeps

\* A guard that has written a condition is still the same guard.
LEMMA JoinedKeeps ==
  ASSUME TypeOK, NEW i \in 1..Len(guards)
  PROVE  Keeps(Joined(i))
<1> DEFINE g == [guards[i] EXCEPT !.first = FALSE]
<1>1. guards[i] \in Guard
  BY ElementOfSeq DEF TypeOK
<1>2. g \in Guard /\ g.kind = guards[i].kind /\ g.depth = guards[i].depth /\ g.open = guards[i].open
  BY <1>1 DEF Guard
<1> HIDE DEF g
<1>3. /\ [guards EXCEPT ![i] = g] \in Seq(Guard)
      /\ Len([guards EXCEPT ![i] = g]) = Len(guards)
      /\ \A j \in 1..Len(guards) : [guards EXCEPT ![i] = g][j] = IF j = i THEN g ELSE guards[j]
  BY <1>2, ExceptSeq DEF TypeOK
<1>4. Keeps([guards EXCEPT ![i] = g])
  BY <1>2, <1>3 DEF Keeps
<1>5. Keeps(guards)
  BY DEF TypeOK, Keeps
<1>6. Joined(i) = IF CanWrite(guards[i].depth) THEN [guards EXCEPT ![i] = g] ELSE guards
  BY DEF Joined, g
<1> QED BY <1>4, <1>5, <1>6

\* field() adds.
LEMMA FieldAdds ==
  ASSUME TypeOK, NEW bad \in BOOLEAN, Field(bad)
  PROVE  \E t : Adds(t)
<1>1. CASE CanWrite(writer.depth)
  <2> DEFINE x == IF writer.anyField THEN ", field" ELSE "field"
  <2>1. x \in Plain /\ x \notin Binding
    BY DEF Plain, Tokens, Binding
  <2>2. buf' = Append(buf, x) /\ UNCHANGED <<bound, guards>>
    BY <1>1 DEF Field
  <2> HIDE DEF x
  <2>3. buf' = buf \o <<x>>
    BY <2>1, <2>2, AppendIsConcat DEF TypeOK, Plain
  <2>4. <<x>> \in Seq(Tokens) /\ Closed(<<x>>) /\ HowMany(<<x>>, Binding) = 0
    BY <2>1, OneToken DEF Plain
  <2>5. bound' = bound + 0
    BY <2>2 DEF TypeOK
  <2>6. Keeps(guards')
    BY <2>2, SameGuards
  <2>7. Adds(<<x>>)
    BY <2>3, <2>4, <2>5, <2>6 DEF Adds
  <2> QED BY <2>7
<1>2. CASE ~CanWrite(writer.depth)
  <2>1. UNCHANGED <<buf, bound, guards>>
    BY <1>2 DEF Field
  <2> QED BY <2>1, AddsNothing
<1> QED BY <1>1, <1>2

\* finish_fields() alone.
LEMMA FromAdds ==
  ASSUME TypeOK, buf' = buf \o FromClause, UNCHANGED <<bound, guards>>
  PROVE  Adds(FromClause)
<1>1. bound' = bound + 0
  BY DEF TypeOK
<1> QED BY <1>1, FromText, SameGuards DEF Adds

\* A clause adds.
LEMMA ClauseAdds ==
  ASSUME TypeOK, NEW c \in Clauses, NEW bad \in BOOLEAN, Clause(c, bad)
  PROVE  \E t : Adds(t)
<1>0. UNCHANGED guards
  BY DEF Clause
<1>1. CASE CanWriteClause
  <2> DEFINE x == ClauseText(c)
  <2>1. x \in Plain /\ (x \in Binding <=> c \in Binding)
    BY DEF ClauseText, Clauses, Binding, Plain, Tokens
  <2>2. /\ buf' = buf \o FromClause \o <<x>>
        /\ bound' = IF x \in Binding THEN bound + 1 ELSE bound
    BY <1>1, <2>1 DEF Clause
  <2> HIDE DEF x
  <2>3. Adds(FromClause \o <<x>>)
    BY <1>0, <2>1, <2>2, FromText, SameGuards, AddsToken
  <2> QED BY <2>3
<1>2. CASE ~CanWriteClause
  <2>1. buf' = buf \o FromClause /\ UNCHANGED bound
    BY <1>2 DEF Clause
  <2> QED BY <1>0, <2>1, FromAdds
<1> QED BY <1>1, <1>2

\* terminate() adds the projection, if there was none, and the semicolon.
LEMMA EndAdds ==
  ASSUME TypeOK, buf' = buf \o FromClause \o <<";">>, UNCHANGED <<bound, guards>>
  PROVE  \E t : Adds(t)
<1>1. ";" \in Plain /\ ";" \notin Binding
  BY DEF Plain, Tokens, Binding
<1>2. Adds(FromClause \o <<";">>)
  BY <1>1, FromText, SameGuards, AddsToken
<1> QED BY <1>2

\* A condition adds.
LEMMA ConditionAdds ==
  ASSUME TypeOK, NEW i \in 1..Len(guards), NEW c \in Conditions, NEW bad \in BOOLEAN,
         Condition(i, c, bad)
  PROVE  \E t : Adds(t)
<1>1. c \in Plain
  BY DEF Conditions, Plain, Tokens
<1>2. /\ buf' = buf \o Join(i) \o <<c>>
      /\ bound' = IF c \in Binding THEN bound + 1 ELSE bound
      /\ guards' = Joined(i)
  BY DEF Condition
<1>3. Keeps(guards')
  BY <1>2, JoinedKeeps
<1>4. Adds(Join(i) \o <<c>>)
  BY <1>1, <1>2, <1>3, JoinText, AddsToken DEF TypeOK
<1> QED BY <1>4

\* where() of the fluent surface adds.
LEMMA FluentWhereAdds ==
  ASSUME TypeOK, NEW e \in Expressions, NEW bad \in BOOLEAN, FluentWhere(e, bad)
  PROVE  \E t : Adds(t)
<1>0. UNCHANGED guards
  BY DEF FluentWhere
<1>1. CASE CanWriteClause
  <2> DEFINE w == IF whereDone THEN "AND" ELSE "WHERE"
             t == FromClause \o <<w>>
  <2>1. w \in Plain /\ w \notin Binding
    BY DEF Plain, Tokens, Joiners, Binding
  <2>2. buf' = ((buf \o FromClause) \o <<w>>) \o e /\ bound' = bound + BoundBy(e)
    BY <1>1 DEF FluentWhere
  <2> HIDE DEF w
  <2>3. <<w>> \in Seq(Tokens) /\ Closed(<<w>>) /\ HowMany(<<w>>, Binding) = 0
    BY <2>1, OneToken DEF Plain
  <2>4. t \in Seq(Tokens) /\ Closed(t) /\ HowMany(t, Binding) = 0 + 0
    BY <2>3, FromText, TextConcat
  <2>5. e \in Seq(Tokens) /\ Closed(e) /\ BoundBy(e) = HowMany(e, Binding)
    BY ExpressionText
  <2>6. (buf \o FromClause) \o <<w>> = buf \o t
    <3>1. buf \in Seq(Tokens) /\ FromClause \in Seq(Tokens)
      BY FromText DEF TypeOK
    <3> QED BY <2>3, <3>1, TextAssociates
  <2> HIDE DEF t
  <2>7. buf' = buf \o (t \o e)
    <3>1. buf' = (buf \o t) \o e
      BY <2>2, <2>6
    <3>2. buf \in Seq(Tokens) /\ t \in Seq(Tokens) /\ e \in Seq(Tokens)
      BY <2>4, <2>5 DEF TypeOK
    <3>3. (buf \o t) \o e = buf \o (t \o e)
      BY <3>2, TextAssociates
    <3> QED BY <3>1, <3>3
  <2>8. /\ t \o e \in Seq(Tokens) /\ Closed(t \o e)
        /\ HowMany(t \o e, Binding) = HowMany(t, Binding) + HowMany(e, Binding)
    BY <2>4, <2>5, TextConcat
  <2>9. HowMany(e, Binding) \in Nat
    <3>1. Len(e) \in Int
      BY <2>5, LenProperties
    <3> QED BY <3>1, CountedType DEF HowMany
  <2>10. bound' = bound + HowMany(t \o e, Binding)
    BY <2>2, <2>4, <2>5, <2>8, <2>9
  <2>11. Adds(t \o e)
    BY <1>0, <2>7, <2>8, <2>10, SameGuards DEF Adds
  <2> QED BY <2>11
<1>2. CASE ~CanWriteClause
  <2>1. buf' = buf \o FromClause /\ UNCHANGED bound
    BY <1>2 DEF FluentWhere
  <2> QED BY <1>0, <2>1, FromAdds
<1> QED BY <1>1, <1>2

\* A where_guard opens with its keyword.
LEMMA OpenWhereOpens ==
  ASSUME TypeOK, OpenWhere
  PROVE  \E t, hs, g : Opens(t, hs, g)
<1> DEFINE g == [kind |-> "where", joiner |-> "AND", depth |-> depth + 1, first |-> TRUE,
                 open |-> Len(buf \o FromClause) + 1]
<1>1. buf \o FromClause \in Seq(Tokens)
  BY FromText, ConcatProperties DEF TypeOK
<1>2. Len(buf \o FromClause) + 1 \in Nat /\ depth + 1 \in Nat
  BY <1>1, LenProperties DEF TypeOK
<1>3. g \in Guard
  BY <1>2 DEF Guard, Joiners
<1>4. /\ buf' = (buf \o FromClause) \o <<"WHERE">> /\ bound' = bound
      /\ guards' = Append(guards, g) /\ Len(guards) < MaxNesting
  BY DEF OpenWhere, Push
<1>5. Keeps(guards)
  BY DEF Keeps, TypeOK
<1>6. Opens(FromClause, guards, g)
  BY <1>3, <1>4, <1>5, FromText DEF Opens, Opener
<1> QED BY <1>6

\* A group_guard opens with its parenthesis.
LEMMA OpenGroupOpens ==
  ASSUME TypeOK, NEW i \in 1..Len(guards), NEW j \in Joiners, OpenGroup(i, j)
  PROVE  \E t, hs, g : Opens(t, hs, g)
<1> DEFINE g == [kind |-> "group", joiner |-> j, depth |-> depth + 1, first |-> TRUE,
                 open |-> Len(buf \o Join(i)) + 1]
<1>0. Join(i) \in Seq(Tokens) /\ Closed(Join(i)) /\ HowMany(Join(i), Binding) = 0
  BY JoinText DEF TypeOK
<1>1. buf \o Join(i) \in Seq(Tokens)
  BY <1>0, ConcatProperties DEF TypeOK
<1>2. Len(buf \o Join(i)) + 1 \in Nat /\ depth + 1 \in Nat
  BY <1>1, LenProperties DEF TypeOK
<1>3. g \in Guard
  BY <1>2 DEF Guard
<1>4. /\ buf' = (buf \o Join(i)) \o <<"(">> /\ bound' = bound
      /\ guards' = Append(Joined(i), g) /\ Len(guards) < MaxNesting
  BY DEF OpenGroup
<1>5. Keeps(Joined(i))
  BY JoinedKeeps
<1>6. Opens(Join(i), Joined(i), g)
  BY <1>0, <1>3, <1>4, <1>5 DEF Opens, Opener
<1> QED BY <1>6

\* Every step is of one of the kinds.
LEMMA StepKinds ==
  ASSUME TypeOK, [Next]_vars
  PROVE  (\E t : Adds(t)) \/ (\E t, hs, g : Opens(t, hs, g)) \/ CloseGuard
<1>0. DOMAIN guards = 1..Len(guards)
  BY LenProperties DEF TypeOK
<1>1. ASSUME NEW bad \in BOOLEAN, Field(bad) PROVE \E t : Adds(t)
  BY <1>1, FieldAdds
<1>2. ASSUME NEW c \in Clauses, NEW bad \in BOOLEAN, Clause(c, bad) PROVE \E t : Adds(t)
  BY <1>2, ClauseAdds
<1>3. ASSUME NEW i \in DOMAIN guards, NEW c \in Conditions, NEW bad \in BOOLEAN,
             Condition(i, c, bad)
      PROVE  \E t : Adds(t)
  BY <1>0, <1>3, ConditionAdds
<1>4. ASSUME NEW i \in DOMAIN guards, NEW j \in Joiners, OpenGroup(i, j)
      PROVE  \E t, hs, g : Opens(t, hs, g)
  BY <1>0, <1>4, OpenGroupOpens
<1>5. CASE CloseSelect
  BY <1>5, EndAdds DEF CloseSelect
<1>6. ASSUME NEW e \in Expressions, NEW bad \in BOOLEAN, FluentWhere(e, bad)
      PROVE  \E t : Adds(t)
  BY <1>6, FluentWhereAdds
<1>7. CASE Build
  <2>1. CASE surface = "fluent"
    BY <1>7, <2>1, EndAdds DEF Build
  <2>2. CASE surface # "fluent"
    BY <1>7, <2>2, AddsNothing DEF Build
  <2> QED BY <2>1, <2>2
<1>8. CASE UNCHANGED vars
  BY <1>8, AddsNothing DEF vars, arenaVars
<1> QED BY <1>1, <1>2, <1>3, <1>4, <1>5, <1>6, <1>7, <1>8, OpenWhereOpens DEF Next

-----------------------------------------------------------------------------
\* The text, the values and the guards agree.

\* Every guard that is alive remembers where its own opener is, and an outer
\* one was opened before an inner one.
Marks ==
    /\ \A i \in 1..Len(guards) :
          /\ guards[i].open \in 1..Len(buf)
          /\ buf[guards[i].open] = Opener(guards[i].kind)
    /\ \A i, j \in 1..Len(guards) : i < j => guards[i].open < guards[j].open

\* The groups among the guards gs.
Groups(gs) == Counted([i \in 1..Len(gs) |-> gs[i].kind], {"group"}, Len(gs))

\* The text has as many parentheses open as groups are alive, and never closed
\* one too many.
Nested ==
    /\ \A n \in 0..Len(buf) : Nest(buf, n) >= 0
    /\ Nest(buf, Len(buf)) = Groups(guards)

TextAgrees ==
    /\ buf \in Seq(Tokens) /\ guards \in Seq(Guard)
    /\ bound = HowMany(buf, Binding)
    /\ Marks /\ Nested

\* Guards that are kept are as many groups.
LEMMA KeepsGroups ==
  ASSUME guards \in Seq(Guard), NEW hs, Keeps(hs)
  PROVE  Groups(hs) = Groups(guards)
<1> DEFINE s == [i \in 1..Len(hs) |-> hs[i].kind]
           t == [i \in 1..Len(guards) |-> guards[i].kind]
<1>1. Len(hs) = Len(guards) /\ Len(guards) \in Nat
  BY LenProperties DEF Keeps
<1>2. \A k \in 1..Len(guards) : s[k] = t[k]
  BY <1>1 DEF Keeps
<1> HIDE DEF s, t
<1>3. Counted(s, {"group"}, Len(guards)) = Counted(t, {"group"}, Len(guards))
  BY <1>1, <1>2, CountedSame
<1> QED BY <1>1, <1>3 DEF Groups, s, t

\* The innermost guard counts for one group if it is one.
LEMMA PopGroups ==
  ASSUME NEW gs, NEW hs, Len(hs) \in Nat, Len(gs) = Len(hs) + 1,
         \A k \in 1..Len(hs) : gs[k] = hs[k]
  PROVE  Groups(gs) = Groups(hs) + (IF gs[Len(gs)].kind = "group" THEN 1 ELSE 0)
<1> DEFINE s == [i \in 1..Len(hs) |-> hs[i].kind]
           t == [i \in 1..Len(gs) |-> gs[i].kind]
           n == Len(hs)
<1>1. \A k \in 1..n : s[k] = t[k]
  OBVIOUS
<1>2. t[n + 1] = gs[Len(gs)].kind
  OBVIOUS
<1> HIDE DEF s, t
<1>3. Counted(s, {"group"}, n) = Counted(t, {"group"}, n)
  BY <1>1, CountedSame
<1>4. Counted(t, {"group"}, n + 1)
        = Counted(t, {"group"}, n) + (IF t[n + 1] \in {"group"} THEN 1 ELSE 0)
  BY CountedStep
<1> QED BY <1>2, <1>3, <1>4 DEF Groups, s, t

\* Groups are counted by a number.
LEMMA GroupsType ==
  ASSUME NEW gs, Len(gs) \in Nat
  PROVE  Groups(gs) \in Nat
  BY CountedType DEF Groups

\* What one token does to the nesting.
LEMMA NestOne ==
  ASSUME NEW x \in Tokens
  PROVE  Nest(<<x>>, 1) = IF x = "(" THEN 1 ELSE IF x = ")" THEN -1 ELSE 0
<1>1. Len(<<x>>) = 1
  OBVIOUS
<1>2. HowMany(<<x>>, {"("}) = IF x \in {"("} THEN 1 ELSE 0
  BY OneToken
<1>3. HowMany(<<x>>, {")"}) = IF x \in {")"} THEN 1 ELSE 0
  BY OneToken
<1>4. "(" # ")"
  OBVIOUS
<1> QED BY <1>1, <1>2, <1>3, <1>4 DEF Nest, HowMany

\* One token more, for the nesting at the end.
LEMMA NestAppend ==
  ASSUME NEW s \in Seq(Tokens), NEW x \in Tokens
  PROVE  /\ s \o <<x>> \in Seq(Tokens) /\ Len(s \o <<x>>) = Len(s) + 1
         /\ (s \o <<x>>)[Len(s) + 1] = x
         /\ \A n \in 0..Len(s) : Nest(s \o <<x>>, n) = Nest(s, n)
         /\ Nest(s \o <<x>>, Len(s) + 1)
               = Nest(s, Len(s)) + (IF x = "(" THEN 1 ELSE IF x = ")" THEN -1 ELSE 0)
<1>1. <<x>> \in Seq(Tokens) /\ Len(<<x>>) = 1 /\ <<x>>[1] = x /\ 1 \in 0..Len(<<x>>)
  OBVIOUS
<1>2. /\ s \o <<x>> \in Seq(Tokens) /\ Len(s \o <<x>>) = Len(s) + 1
      /\ \A i \in 1 .. Len(s) + 1 :
            (s \o <<x>>)[i] = IF i <= Len(s) THEN s[i] ELSE <<x>>[i - Len(s)]
  BY <1>1, ConcatProperties
<1>3. (s \o <<x>>)[Len(s) + 1] = x
  <2>1. Len(s) \in Nat
    BY LenProperties
  <2> QED BY <1>1, <1>2, <2>1
<1>4. \A n \in 0..Len(s) : Nest(s \o <<x>>, n) = Nest(s, n)
  BY <1>1, NestConcat
<1>5. Nest(s \o <<x>>, Len(s) + 1) = Nest(s, Len(s)) + Nest(<<x>>, 1)
  BY <1>1, NestConcat
<1> QED BY <1>2, <1>3, <1>4, <1>5, NestOne

\* Adding closed text keeps the agreement.
LEMMA AddsAgrees ==
  ASSUME TextAgrees, NEW t, Adds(t)
  PROVE  TextAgrees'
<1> USE DEF TextAgrees
<1>0. /\ t \in Seq(Tokens) /\ Closed(t) /\ buf' = buf \o t /\ Keeps(guards')
      /\ Len(buf) \in Nat /\ Len(t) \in Nat /\ Len(guards) \in Nat
  BY LenProperties DEF Adds
<1>1. /\ buf' \in Seq(Tokens) /\ Len(buf') = Len(buf) + Len(t)
      /\ \A i \in 1..Len(buf) : buf'[i] = buf[i]
  BY <1>0, ConcatProperties
<1>2. bound' = HowMany(buf', Binding)
  <2>1. HowMany(buf \o t, Binding) = HowMany(buf, Binding) + HowMany(t, Binding)
    BY <1>0, BoundConcat
  <2> QED BY <1>0, <2>1 DEF Adds
<1>3. Marks'
  <2>1. /\ Len(guards') = Len(guards)
        /\ \A i \in 1..Len(guards) :
              guards'[i].open = guards[i].open /\ guards'[i].kind = guards[i].kind
    BY <1>0 DEF Keeps
  <2>2. \A i \in 1..Len(guards) : guards[i].open \in 1..Len(buf')
    BY <1>0, <1>1 DEF Marks
  <2>3. \A i \in 1..Len(guards) : buf'[guards[i].open] = Opener(guards[i].kind)
    BY <1>1 DEF Marks
  <2>4. \A i, j \in 1..Len(guards) : i < j => guards[i].open < guards[j].open
    BY DEF Marks
  <2> QED BY <2>1, <2>2, <2>3, <2>4 DEF Marks
<1>4. Nested'
  <2>1. Groups(guards') = Groups(guards)
    BY <1>0, KeepsGroups
  <2>2. /\ \A n \in 0..Len(buf \o t) : Nest(buf \o t, n) >= 0
        /\ Nest(buf \o t, Len(buf \o t)) = Nest(buf, Len(buf))
    BY <1>0, NestAfter DEF Nested
  <2> QED BY <1>0, <2>1, <2>2 DEF Nested
<1> QED BY <1>0, <1>1, <1>2, <1>3, <1>4 DEF Keeps

\* Opening a guard keeps it.
LEMMA OpensAgrees ==
  ASSUME TextAgrees, NEW t, NEW hs, NEW g, Opens(t, hs, g)
  PROVE  TextAgrees'
<1> USE DEF TextAgrees
<1> DEFINE s == buf \o t
           x == Opener(g.kind)
<1>0. /\ t \in Seq(Tokens) /\ Closed(t) /\ HowMany(t, Binding) = 0
      /\ buf' = s \o <<x>> /\ bound' = bound /\ g \in Guard /\ g.open = Len(s) + 1
      /\ Keeps(hs) /\ guards' = Append(hs, g)
      /\ Len(buf) \in Nat /\ Len(t) \in Nat /\ Len(guards) \in Nat
  BY LenProperties DEF Opens
<1>1. x \in Tokens /\ x \notin Binding /\ x # ")" /\ (x = "(" <=> g.kind = "group")
  <2>1. g.kind \in {"where", "group"}
    BY <1>0 DEF Guard
  <2> QED BY <2>1 DEF Opener, Tokens, Binding
<1>2. /\ s \in Seq(Tokens) /\ Len(s) = Len(buf) + Len(t)
      /\ \A i \in 1..Len(buf) : s[i] = buf[i]
  BY <1>0, ConcatProperties
<1>3. /\ \A n \in 0..Len(s) : Nest(s, n) >= 0
      /\ Nest(s, Len(s)) = Groups(guards)
  BY <1>0, NestAfter DEF Nested
<1>4. HowMany(s, Binding) = HowMany(buf, Binding) + HowMany(t, Binding)
  <2>1. buf \in Seq(Tokens) /\ t \in Seq(Tokens)
    BY <1>0
  <2> QED BY <2>1, BoundConcat
<1> HIDE DEF s, x
<1>5. /\ buf' \in Seq(Tokens) /\ Len(buf') = Len(s) + 1 /\ buf'[Len(s) + 1] = x
      /\ \A n \in 0..Len(s) : Nest(buf', n) = Nest(s, n)
      /\ Nest(buf', Len(s) + 1)
            = Nest(s, Len(s)) + (IF x = "(" THEN 1 ELSE IF x = ")" THEN -1 ELSE 0)
  BY <1>0, <1>1, <1>2, NestAppend
<1>6. \A i \in 1..Len(buf) : buf'[i] = buf[i]
  <2>1. <<x>> \in Seq(Tokens) /\ Len(<<x>>) = 1
    BY <1>1
  <2>2. \A i \in 1 .. Len(s) + Len(<<x>>) :
           (s \o <<x>>)[i] = IF i <= Len(s) THEN s[i] ELSE <<x>>[i - Len(s)]
    BY <1>2, <2>1, ConcatProperties
  <2> QED BY <1>0, <1>2, <2>1, <2>2
<1>7. /\ guards' \in Seq(Guard) /\ Len(guards') = Len(guards) + 1
      /\ \A i \in 1..Len(guards) : guards'[i] = hs[i]
      /\ guards'[Len(guards) + 1] = g
  BY <1>0, AppendProperties DEF Keeps
<1>8. bound' = HowMany(buf', Binding)
  <2>1. <<x>> \in Seq(Tokens) /\ HowMany(<<x>>, Binding) = 0
    BY <1>1, OneToken
  <2>2. HowMany(s \o <<x>>, Binding) = HowMany(s, Binding) + HowMany(<<x>>, Binding)
    <3>1. s \in Seq(Tokens)
      BY <1>2
    <3> QED BY ONLY <2>1, <3>1, BoundConcat
  <2>3. HowMany(buf, Binding) \in Nat
    BY <1>0, CountedType DEF HowMany
  <2> QED BY <1>0, <1>4, <2>1, <2>2, <2>3
<1>9. Marks'
  <2>1. ASSUME NEW i \in 1..Len(guards')
        PROVE  guards'[i].open \in 1..Len(buf') /\ buf'[guards'[i].open] = Opener(guards'[i].kind)
    <3>1. CASE i \in 1..Len(guards)
      <4>1. guards'[i].open = guards[i].open /\ guards'[i].kind = guards[i].kind
        BY <1>0, <1>7, <3>1 DEF Keeps
      <4>2. guards[i].open \in 1..Len(buf) /\ buf[guards[i].open] = Opener(guards[i].kind)
        BY <3>1 DEF Marks
      <4>3. guards[i].open \in 1..Len(buf')
        BY <1>0, <1>2, <1>5, <4>2
      <4>4. buf'[guards[i].open] = buf[guards[i].open]
        BY <1>6, <4>2
      <4> QED BY <4>1, <4>2, <4>3, <4>4
    <3>2. CASE i = Len(guards) + 1
      BY <1>0, <1>2, <1>5, <1>7, <3>2 DEF x
    <3> QED BY <1>0, <1>7, <3>1, <3>2
  <2>2. ASSUME NEW i \in 1..Len(guards'), NEW j \in 1..Len(guards'), i < j
        PROVE  guards'[i].open < guards'[j].open
    <3>0. i \in 1..Len(guards)
      BY <1>0, <1>7, <2>2
    <3>1. CASE j \in 1..Len(guards)
      BY <1>0, <1>7, <2>2, <3>0, <3>1 DEF Marks, Keeps
    <3>2. CASE j = Len(guards) + 1
      <4>1. guards'[i].open \in 1..Len(buf)
        BY <1>0, <1>7, <3>0 DEF Marks, Keeps
      <4>2. guards'[j].open = Len(s) + 1
        BY <1>0, <1>7, <3>2
      <4> QED BY <1>0, <1>2, <4>1, <4>2
    <3> QED BY <1>0, <1>7, <3>1, <3>2
  <2> QED BY <2>1, <2>2 DEF Marks
<1>10. Nested'
  <2>1. Groups(hs) = Groups(guards)
    BY <1>0, KeepsGroups
  <2>2. Groups(guards') = Groups(hs) + (IF g.kind = "group" THEN 1 ELSE 0)
    <3>1. /\ Len(hs) \in Nat /\ Len(guards') = Len(hs) + 1 /\ guards'[Len(guards')] = g
          /\ \A k \in 1..Len(hs) : guards'[k] = hs[k]
      BY <1>0, <1>7 DEF Keeps
    <3> QED BY <3>1, PopGroups
  <2>3. Groups(guards) \in Nat
    BY <1>0, GroupsType
  <2>4. Nest(buf', Len(buf')) = Groups(guards')
    BY <1>1, <1>3, <1>5, <2>1, <2>2, <2>3
  <2>5. ASSUME NEW n \in 0..Len(buf') PROVE Nest(buf', n) >= 0
    <3>1. CASE n \in 0..Len(s)
      BY <1>3, <1>5, <3>1
    <3>2. CASE n = Len(s) + 1
      BY <1>1, <1>3, <1>5, <2>3, <3>2
    <3>3. Len(s) \in Nat
      BY <1>0, <1>2
    <3> QED BY <1>5, <3>1, <3>2, <3>3
  <2> QED BY <2>4, <2>5 DEF Nested
<1> QED BY <1>5, <1>7, <1>8, <1>9, <1>10

\* A sequence without its last element.
LEMMA FrontOf ==
  ASSUME NEW S, NEW s \in Seq(S), Len(s) \in Nat \ {0}
  PROVE  /\ SubSeq(s, 1, Len(s) - 1) \in Seq(S)
         /\ Len(SubSeq(s, 1, Len(s) - 1)) = Len(s) - 1
         /\ \A i \in 1..(Len(s) - 1) : SubSeq(s, 1, Len(s) - 1)[i] = s[i]
<1> DEFINE n == Len(s) - 1
           r == SubSeq(s, 1, n)
<1>0. n \in Nat /\ 1 \in Int /\ n \in Int /\ n - 1 + 1 = n
  OBVIOUS
<1>1. \A i \in 1..n : s[i] \in S
  BY ElementOfSeq
<1> HIDE DEF n
<1>2. /\ r \in Seq(S)
      /\ Len(r) = IF 1 <= n THEN n - 1 + 1 ELSE 0
      /\ \A i \in 1 .. n - 1 + 1 : r[i] = s[1 + i - 1]
  BY <1>0, <1>1, SubSeqProperties
<1> HIDE DEF r
<1>3. Len(r) = n
  BY <1>0, <1>2
<1>4. ASSUME NEW i \in 1..n PROVE r[i] = s[i]
  <2>1. 1 + i - 1 = i /\ i \in 1 .. n - 1 + 1
    BY <1>0
  <2>2. r[i] = s[1 + i - 1]
    BY <1>2, <2>1
  <2> QED BY <2>1, <2>2
<1> QED BY <1>2, <1>3, <1>4 DEF n, r

\* The text without its last token.
LEMMA Rewound ==
  ASSUME NEW s \in Seq(Tokens), Len(s) \in Nat \ {0}
  PROVE  LET r == SubSeq(s, 1, Len(s) - 1)
         IN  /\ r \in Seq(Tokens) /\ Len(r) = Len(s) - 1
             /\ \A i \in 1..(Len(s) - 1) : r[i] = s[i]
             /\ s[Len(s)] \in Tokens
             /\ s = r \o <<s[Len(s)]>>
<1> DEFINE r == SubSeq(s, 1, Len(s) - 1)
           x == s[Len(s)]
<1>2. x \in Tokens
  BY ElementOfSeq
<1>3. /\ r \in Seq(Tokens) /\ Len(r) = Len(s) - 1
      /\ \A i \in 1..(Len(s) - 1) : r[i] = s[i]
  BY FrontOf
<1> HIDE DEF r, x
<1>4. /\ r \o <<x>> \in Seq(Tokens) /\ Len(r \o <<x>>) = Len(s)
      /\ (r \o <<x>>)[Len(s)] = x
  BY <1>2, <1>3, NestAppend
<1>5. \A i \in 1..(Len(s) - 1) : (r \o <<x>>)[i] = r[i]
  <2>1. <<x>> \in Seq(Tokens) /\ Len(<<x>>) = 1
    BY <1>2
  <2>2. \A i \in 1 .. Len(r) + Len(<<x>>) :
           (r \o <<x>>)[i] = IF i <= Len(r) THEN r[i] ELSE <<x>>[i - Len(r)]
    BY <1>3, <2>1, ConcatProperties
  <2> QED BY <1>3, <2>1, <2>2
<1>6. \A i \in 1..Len(s) : s[i] = (r \o <<x>>)[i]
  BY <1>3, <1>4, <1>5 DEF x
<1>7. s = r \o <<x>>
  BY <1>4, <1>6, SeqEqual
<1> QED BY <1>2, <1>3, <1>7 DEF r, x

\* Closing one keeps it, whether its conditions stay or its opener goes.
LEMMA CloseAgrees ==
  ASSUME TextAgrees, CloseGuard
  PROVE  TextAgrees'
<1> DEFINE n == Len(guards)
           g == guards[n]
<1>0. /\ buf \in Seq(Tokens) /\ guards \in Seq(Guard) /\ bound = HowMany(buf, Binding)
      /\ guards # <<>> /\ buf' = Closing(g) /\ bound' = bound
      /\ guards' = SubSeq(guards, 1, n - 1)
  BY DEF CloseGuard, TextAgrees
<1>1. n \in Nat \ {0} /\ n \in 1..n /\ Len(buf) \in Nat
  BY <1>0, EmptySeq, LenProperties
<1>2. g \in Guard /\ g.open \in 1..Len(buf) /\ buf[g.open] = Opener(g.kind)
  BY <1>0, <1>1, ElementOfSeq DEF Marks, TextAgrees
<1>3. /\ guards' \in Seq(Guard) /\ Len(guards') = n - 1
      /\ \A i \in 1..(n - 1) : guards'[i] = guards[i]
  BY <1>0, <1>1, FrontOf
<1>4. /\ \A i \in 1..n : /\ guards[i].open \in 1..Len(buf)
                         /\ buf[guards[i].open] = Opener(guards[i].kind)
      /\ \A i, j \in 1..n : i < j => guards[i].open < guards[j].open
      /\ \A i \in 0..Len(buf) : Nest(buf, i) >= 0
      /\ Nest(buf, Len(buf)) = Groups(guards)
  BY DEF TextAgrees, Marks, Nested
<1>5. /\ Groups(guards) = Groups(guards') + (IF g.kind = "group" THEN 1 ELSE 0)
      /\ Groups(guards') \in Nat
  <2>1. /\ Len(guards') \in Nat /\ Len(guards) = Len(guards') + 1
        /\ \A k \in 1..Len(guards') : guards[k] = guards'[k]
    BY <1>1, <1>3
  <2>2. Groups(guards) = Groups(guards') + (IF guards[Len(guards)].kind = "group" THEN 1 ELSE 0)
    BY <2>1, PopGroups
  <2> QED BY <2>1, <2>2, GroupsType
<1>6. ASSUME NEW i \in 1..(n - 1), NEW j \in 1..(n - 1), i < j
      PROVE  guards'[i].open < guards'[j].open
  <2>1. guards'[i] = guards[i] /\ guards'[j] = guards[j] /\ i \in 1..n /\ j \in 1..n
    BY <1>1, <1>3
  <2> QED BY <1>4, <1>6, <2>1
<1>7. g.kind \in {"where", "group"} /\ (Opener(g.kind) = "(" <=> g.kind = "group")
      /\ Opener(g.kind) # ")" /\ Opener(g.kind) \notin Binding
  BY <1>2 DEF Guard, Opener, Binding
<1>8. HowMany(buf, Binding) \in Nat
  BY <1>1, CountedType DEF HowMany
<1> HIDE DEF n, g
<1>9. CASE Len(buf) > g.open /\ g.kind = "where"
  <2>1. buf' = buf
    BY <1>0, <1>9 DEF Closing
  <2>2. Marks'
    <3>1. ASSUME NEW i \in 1..(n - 1)
          PROVE  /\ guards'[i].open \in 1..Len(buf')
                 /\ buf'[guards'[i].open] = Opener(guards'[i].kind)
      <4>1. guards'[i] = guards[i] /\ i \in 1..n
        BY <1>1, <1>3
      <4> QED BY <1>4, <2>1, <4>1
    <3> QED BY <1>3, <1>6, <3>1 DEF Marks
  <2>3. Nested'
    BY <1>4, <1>5, <1>9, <2>1 DEF Nested
  <2> QED BY <1>0, <1>3, <2>1, <2>2, <2>3 DEF TextAgrees
<1>10. CASE Len(buf) > g.open /\ g.kind = "group"
  <2>0. ")" \in Tokens /\ ")" \notin Binding /\ ")" # "("
    BY DEF Tokens, Binding
  <2>1. buf' = buf \o <<")">>
    <3>1. buf' = Append(buf, ")")
      BY <1>0, <1>10 DEF Closing
    <3> QED BY <1>0, <2>0, <3>1, AppendIsConcat
  <2>2. /\ buf' \in Seq(Tokens) /\ Len(buf') = Len(buf) + 1
        /\ \A i \in 0..Len(buf) : Nest(buf', i) = Nest(buf, i)
        /\ Nest(buf', Len(buf) + 1) = Nest(buf, Len(buf)) + (-1)
    BY <1>0, <2>0, <2>1, NestAppend
  <2>3. <<")">> \in Seq(Tokens) /\ Len(<<")">>) = 1 /\ HowMany(<<")">>, Binding) = 0
    BY <2>0, OneToken
  <2>4. \A i \in 1..Len(buf) : buf'[i] = buf[i]
    BY <1>0, <1>1, <2>1, <2>3, ConcatProperties
  <2>5. bound' = HowMany(buf', Binding)
    <3>1. HowMany(buf \o <<")">>, Binding) = HowMany(buf, Binding) + HowMany(<<")">>, Binding)
      BY <1>0, <2>3, BoundConcat
    <3> QED BY <1>0, <1>8, <2>1, <2>3, <3>1
  <2>6. Marks'
    <3>1. ASSUME NEW i \in 1..(n - 1)
          PROVE  /\ guards'[i].open \in 1..Len(buf')
                 /\ buf'[guards'[i].open] = Opener(guards'[i].kind)
      <4>1. guards'[i] = guards[i] /\ i \in 1..n
        BY <1>1, <1>3
      <4>2. guards[i].open \in 1..Len(buf) /\ buf[guards[i].open] = Opener(guards[i].kind)
        BY <1>4, <4>1
      <4> QED BY <1>1, <2>2, <2>4, <4>1, <4>2
    <3> QED BY <1>3, <1>6, <3>1 DEF Marks
  <2>7. Nested'
    <3>1. Nest(buf', Len(buf')) = Groups(guards')
      BY <1>4, <1>5, <1>10, <2>2
    <3>2. ASSUME NEW i \in 0..Len(buf') PROVE Nest(buf', i) >= 0
      <4>1. CASE i \in 0..Len(buf)
        BY <1>4, <2>2, <4>1
      <4>2. CASE i = Len(buf')
        BY <1>5, <3>1, <4>2
      <4> QED BY <1>1, <2>2, <4>1, <4>2
    <3> QED BY <3>1, <3>2 DEF Nested
  <2> QED BY <1>3, <2>2, <2>5, <2>6, <2>7 DEF TextAgrees
<1>11. CASE ~(Len(buf) > g.open)
  <2>0. g.open = Len(buf) /\ Len(buf) \in Nat \ {0}
    BY <1>1, <1>2, <1>11
  <2> DEFINE x == buf[Len(buf)]
  <2>1. x = Opener(g.kind)
    BY <1>2, <2>0
  <2>2. buf' = SubSeq(buf, 1, Len(buf) - 1)
    BY <1>0, <1>11, <2>0 DEF Closing
  <2>3. /\ buf' \in Seq(Tokens) /\ Len(buf') = Len(buf) - 1
        /\ \A i \in 1..(Len(buf) - 1) : buf'[i] = buf[i]
        /\ x \in Tokens /\ buf = buf' \o <<x>>
    BY <1>0, <2>0, <2>2, Rewound
  <2> HIDE DEF x
  <2>4. bound' = HowMany(buf', Binding)
    <3>1. <<x>> \in Seq(Tokens) /\ HowMany(<<x>>, Binding) = 0
      BY <1>7, <2>1, <2>3, OneToken
    <3>2. HowMany(buf' \o <<x>>, Binding) = HowMany(buf', Binding) + HowMany(<<x>>, Binding)
      BY <2>3, <3>1, BoundConcat
    <3>3. HowMany(buf', Binding) \in Nat
      BY <2>0, <2>3, CountedType DEF HowMany
    <3> QED BY <1>0, <2>3, <3>1, <3>2, <3>3
  <2>5. Marks'
    <3>1. ASSUME NEW i \in 1..(n - 1)
          PROVE  /\ guards'[i].open \in 1..Len(buf')
                 /\ buf'[guards'[i].open] = Opener(guards'[i].kind)
      <4>1. guards'[i] = guards[i] /\ i \in 1..n /\ i < n
        BY <1>1, <1>3
      <4>2. guards[i].open \in 1..Len(buf) /\ guards[i].open < guards[n].open
        BY <1>1, <1>4, <4>1
      <4>3. guards[i].open \in 1..(Len(buf) - 1)
        BY <2>0, <4>2 DEF g
      <4>4. buf[guards[i].open] = Opener(guards[i].kind)
        BY <1>4, <4>1
      <4> QED BY <2>3, <4>1, <4>3, <4>4
    <3> QED BY <1>3, <1>6, <3>1 DEF Marks
  <2>6. Nested'
    <3>1. /\ \A i \in 0..Len(buf') : Nest(buf, i) = Nest(buf', i)
          /\ Nest(buf, Len(buf') + 1)
                = Nest(buf', Len(buf')) + (IF x = "(" THEN 1 ELSE IF x = ")" THEN -1 ELSE 0)
      BY <2>3, NestAppend
    <3>2. Len(buf') + 1 = Len(buf) /\ 0..Len(buf') \subseteq 0..Len(buf)
      BY <2>0, <2>3
    <3>3. Nest(buf', Len(buf')) \in Int
      BY <2>0, <2>3, NestType
    <3>4. Nest(buf', Len(buf')) = Groups(guards')
      BY <1>4, <1>5, <1>7, <2>1, <3>1, <3>2, <3>3
    <3> QED BY <1>4, <3>1, <3>2, <3>4 DEF Nested
  <2> QED BY <1>3, <2>3, <2>4, <2>5, <2>6 DEF TextAgrees
<1> QED BY <1>7, <1>9, <1>10, <1>11

\* Every step keeps it.
LEMMA TextStep ==
  ASSUME TypeOK, TextAgrees, [Next]_vars
  PROVE  TextAgrees'
  BY StepKinds, AddsAgrees, OpensAgrees, CloseAgrees

-----------------------------------------------------------------------------
\* The depths agree.

\* The select_guard counts for one, when the statement has one.
Base == IF surface = "guards" THEN 1 ELSE 0

\* The arena counts the guards that are alive, and each has recorded what it
\* counted when the guard came to life.
DepthsAgree ==
    /\ writer.depth = Base
    /\ depth = Len(guards) + (IF selectOpen THEN 1 ELSE 0)
    /\ selectOpen => surface = "guards"
    /\ surface = "guards" /\ guards # <<>> => selectOpen
    /\ \A i \in 1..Len(guards) : guards[i].depth = i + Base

\* A step that neither opens nor closes keeps the depths.
LEMMA DepthsStay ==
  ASSUME TypeOK, DepthsAgree, Keeps(guards'), UNCHANGED <<surface, depth, selectOpen>>,
         writer'.depth = writer.depth
  PROVE  DepthsAgree'
<1>1. Len(guards') = Len(guards) /\ Base' = Base
  BY DEF Keeps, Base
<1>2. guards' # <<>> => guards # <<>>
  BY <1>1, EmptySeq DEF Keeps, TypeOK
<1>3. \A i \in 1..Len(guards) : guards'[i].depth = guards[i].depth
  BY DEF Keeps
<1> QED BY <1>1, <1>2, <1>3 DEF DepthsAgree

\* What an action does that is neither.
LEMMA StaysDeep ==
  ASSUME TypeOK, Next, ~OpenWhere, ~CloseGuard, ~CloseSelect,
         \A i \in DOMAIN guards, j \in Joiners : ~OpenGroup(i, j)
  PROVE  /\ UNCHANGED <<surface, depth, selectOpen>> /\ writer'.depth = writer.depth
         /\ Keeps(guards')
<1> DEFINE Stays == /\ UNCHANGED <<surface, depth, selectOpen>>
                    /\ writer'.depth = writer.depth
                    /\ Keeps(guards')
<1>0. DOMAIN guards = 1..Len(guards)
  BY LenProperties DEF TypeOK
<1>1. ASSUME NEW bad \in BOOLEAN, Field(bad) PROVE Stays
  BY <1>1, SameGuards DEF Field, Building, TypeOK
<1>2. ASSUME NEW c \in Clauses, NEW bad \in BOOLEAN, Clause(c, bad) PROVE Stays
  BY <1>2, SameGuards DEF Clause, Building, TypeOK
<1>3. ASSUME NEW i \in DOMAIN guards, NEW c \in Conditions, NEW bad \in BOOLEAN,
             Condition(i, c, bad)
      PROVE  Stays
  BY <1>0, <1>3, JoinedKeeps DEF Condition, Building
<1>4. ASSUME NEW e \in Expressions, NEW bad \in BOOLEAN, FluentWhere(e, bad) PROVE Stays
  BY <1>4, SameGuards DEF FluentWhere, Building, TypeOK
<1>5. CASE Build
  BY <1>5, SameGuards DEF Build, TypeOK
<1> QED BY <1>1, <1>2, <1>3, <1>4, <1>5 DEF Next

\* A new guard records a depth of its own.
LEMMA DepthsGrow ==
  ASSUME TypeOK, DepthsAgree, NEW hs, Keeps(hs), NEW g \in Guard, g.depth = depth + 1,
         guards' = Append(hs, g), depth' = depth + 1,
         surface = "guards" => selectOpen,
         UNCHANGED <<surface, selectOpen>>, writer'.depth = writer.depth
  PROVE  DepthsAgree'
<1>0. Len(guards) \in Nat
  BY LenProperties DEF TypeOK
<1>1. /\ Len(guards') = Len(guards) + 1 /\ guards'[Len(guards) + 1] = g
      /\ \A i \in 1..Len(guards) : guards'[i] = hs[i]
  BY AppendProperties DEF Keeps
<1>2. Base' = Base /\ Base = IF selectOpen THEN 1 ELSE 0
  BY DEF Base, DepthsAgree
<1>3. ASSUME NEW i \in 1..Len(guards') PROVE guards'[i].depth = i + Base
  <2>1. CASE i \in 1..Len(guards)
    BY <1>1, <2>1 DEF DepthsAgree, Keeps
  <2>2. CASE i = Len(guards) + 1
    BY <1>0, <1>1, <1>2, <2>2 DEF DepthsAgree, Base
  <2> QED BY <1>0, <1>1, <2>1, <2>2
<1>4. depth' = Len(guards') + (IF selectOpen' THEN 1 ELSE 0)
  BY <1>0, <1>1 DEF DepthsAgree
<1> QED BY <1>2, <1>3, <1>4 DEF DepthsAgree

\* Every step keeps the depths.
LEMMA DepthStep ==
  ASSUME TypeOK, DepthsAgree, [Next]_vars
  PROVE  DepthsAgree'
<1>0. Len(guards) \in Nat /\ DOMAIN guards = 1..Len(guards)
  BY LenProperties DEF TypeOK
<1>1. CASE OpenWhere
  <2> DEFINE g == [kind |-> "where", joiner |-> "AND", depth |-> depth + 1,
                   first |-> TRUE, open |-> Len(buf \o FromClause) + 1]
  <2>1. buf \o FromClause \in Seq(Tokens)
    BY FromText, ConcatProperties DEF TypeOK
  <2>2. Len(buf \o FromClause) + 1 \in Nat /\ depth + 1 \in Nat
    BY <2>1, LenProperties DEF TypeOK
  <2>3. g \in Guard /\ g.depth = depth + 1
    BY <2>2 DEF Guard, Joiners
  <2>4. /\ guards' = Append(guards, g) /\ depth' = depth + 1
        /\ surface = "guards" => selectOpen
        /\ UNCHANGED <<surface, selectOpen>>
    BY <1>1 DEF OpenWhere, Push, Building
  <2>5. writer'.depth = writer.depth
    BY <1>1 DEF OpenWhere, TypeOK
  <2>6. Keeps(guards)
    BY DEF Keeps, TypeOK
  <2> HIDE DEF g
  <2> QED BY <2>3, <2>4, <2>5, <2>6, DepthsGrow
<1>2. ASSUME NEW i \in 1..Len(guards), NEW j \in Joiners, OpenGroup(i, j)
      PROVE  DepthsAgree'
  <2> DEFINE g == [kind |-> "group", joiner |-> j, depth |-> depth + 1, first |-> TRUE,
                   open |-> Len(buf \o Join(i)) + 1]
  <2>1. buf \o Join(i) \in Seq(Tokens)
    BY JoinText, ConcatProperties DEF TypeOK
  <2>2. Len(buf \o Join(i)) + 1 \in Nat /\ depth + 1 \in Nat
    BY <2>1, LenProperties DEF TypeOK
  <2>3. g \in Guard /\ g.depth = depth + 1
    BY <2>2 DEF Guard
  <2>4. guards # <<>>
    BY <1>0
  <2>5. surface = "guards" => selectOpen
    BY <2>4 DEF DepthsAgree
  <2>6. /\ guards' = Append(Joined(i), g) /\ depth' = depth + 1
        /\ UNCHANGED <<surface, selectOpen, writer>>
    BY <1>2 DEF OpenGroup, Building
  <2>7. Keeps(Joined(i))
    BY JoinedKeeps
  <2> HIDE DEF g
  <2> QED BY <2>3, <2>5, <2>6, <2>7, DepthsGrow
<1>3. CASE CloseGuard
  <2>1. /\ guards # <<>> /\ guards' = SubSeq(guards, 1, Len(guards) - 1)
        /\ depth' = IF depth > 0 THEN depth - 1 ELSE 0
        /\ UNCHANGED <<surface, selectOpen, writer>>
    BY <1>3 DEF CloseGuard
  <2>2. Len(guards) \in Nat \ {0}
    BY <2>1, EmptySeq DEF TypeOK
  <2>3. /\ Len(guards') = Len(guards) - 1
        /\ \A i \in 1..(Len(guards) - 1) : guards'[i] = guards[i]
    BY <2>1, <2>2, FrontOf DEF TypeOK
  <2>4. depth' = Len(guards') + (IF selectOpen' THEN 1 ELSE 0)
    <3>1. depth = Len(guards) + (IF selectOpen THEN 1 ELSE 0)
      BY DEF DepthsAgree
    <3>2. depth > 0 /\ selectOpen' = selectOpen
      BY <2>1, <2>2, <3>1
    <3>3. depth' = depth - 1 /\ Len(guards') = Len(guards) - 1
      BY <2>1, <2>3, <3>2
    <3>4. CASE selectOpen
      BY <2>2, <3>1, <3>2, <3>3, <3>4
    <3>5. CASE ~selectOpen
      BY <2>2, <3>1, <3>2, <3>3, <3>5
    <3> QED BY <3>4, <3>5
  <2>5. ASSUME NEW i \in 1..Len(guards') PROVE guards'[i].depth = i + Base
    BY <2>2, <2>3 DEF DepthsAgree
  <2>6. Base' = Base
    BY <2>1 DEF Base
  <2> QED BY <2>1, <2>4, <2>5, <2>6 DEF DepthsAgree
<1>4. CASE CloseSelect
  <2>1. /\ selectOpen /\ guards = <<>> /\ ~selectOpen' /\ guards' = guards
        /\ depth' = (IF depth > 0 THEN depth - 1 ELSE 0) /\ surface' = surface
    BY <1>4 DEF CloseSelect
  <2>2. writer'.depth = writer.depth
    BY <1>4 DEF CloseSelect, TypeOK
  <2>3. Base' = Base
    BY <2>1 DEF Base
  <2> QED BY <2>1, <2>2, <2>3 DEF DepthsAgree
<1>5. CASE UNCHANGED vars
  BY <1>5 DEF vars, arenaVars, DepthsAgree, Base
<1>6. CASE /\ Next /\ ~OpenWhere /\ ~CloseGuard /\ ~CloseSelect
           /\ \A i \in DOMAIN guards, j \in Joiners : ~OpenGroup(i, j)
  BY <1>6, StaysDeep, DepthsStay
<1> QED BY <1>0, <1>1, <1>2, <1>3, <1>4, <1>5, <1>6

-----------------------------------------------------------------------------
\* A failure is deserved.

\* The depth differs from what the writer recorded exactly when a guard is open
\* inside it.
LEMMA OuterWriter ==
  ASSUME TypeOK, DepthsAgree, surface = "guards" => selectOpen
  PROVE  depth # writer.depth <=> guards # <<>>
<1>1. Len(guards) \in Nat /\ (guards # <<>> <=> Len(guards) # 0)
  BY LenProperties, EmptySeq DEF TypeOK
<1>2. depth = Len(guards) + writer.depth
  BY DEF DepthsAgree, Base
<1>3. writer.depth \in Nat
  BY DEF DepthsAgree, Base
<1> QED BY <1>1, <1>2, <1>3

\* And from what a guard recorded, exactly when it is not the innermost.
LEMMA OuterGuard ==
  ASSUME TypeOK, DepthsAgree, NEW i \in 1..Len(guards)
  PROVE  depth # guards[i].depth <=> i # Len(guards)
<1>1. Len(guards) \in Nat /\ guards # <<>>
  BY LenProperties, EmptySeq DEF TypeOK
<1>2. depth = Len(guards) + Base
  BY <1>1 DEF DepthsAgree, Base
<1>3. guards[i].depth = i + Base /\ Base \in Nat
  BY DEF DepthsAgree, Base
<1> QED BY <1>1, <1>2, <1>3

\* What latches, latches for one of the two reasons.
LEMMA LatchDeserved ==
  ASSUME FailureIsDeserved, NEW d, NEW outer, NEW bad, Latch(d, outer, bad),
         depth # d <=> outer
  PROVE  FailureIsDeserved'
  BY DEF FailureIsDeserved, Latch

\* Every step keeps failures deserved.
LEMMA FailureStep ==
  ASSUME TypeOK, DepthsAgree, FailureIsDeserved, [Next]_vars
  PROVE  FailureIsDeserved'
<1>0. DOMAIN guards = 1..Len(guards)
  BY LenProperties DEF TypeOK
<1>1. ASSUME NEW bad \in BOOLEAN, Field(bad) PROVE FailureIsDeserved'
  <2>1. /\ Latch(writer.depth, guards # <<>>, bad /\ CanWrite(writer.depth))
        /\ surface = "guards" => selectOpen
    BY <1>1 DEF Field
  <2>2. depth # writer.depth <=> guards # <<>>
    BY <2>1, OuterWriter
  <2> QED BY <2>1, <2>2, LatchDeserved
<1>2. ASSUME NEW c \in Clauses, NEW bad \in BOOLEAN, Clause(c, bad)
      PROVE  FailureIsDeserved'
  <2>1. /\ Latch(writer.depth, guards # <<>>, FromFails \/ (bad /\ CanWriteClause))
        /\ surface = "guards" => selectOpen
    BY <1>2 DEF Clause
  <2>2. depth # writer.depth <=> guards # <<>>
    BY <2>1, OuterWriter
  <2> QED BY <2>1, <2>2, LatchDeserved
<1>3. ASSUME NEW i \in DOMAIN guards, NEW c \in Conditions, NEW bad \in BOOLEAN,
             Condition(i, c, bad)
      PROVE  FailureIsDeserved'
  <2>1. Latch(guards[i].depth, i # Len(guards), bad)
    BY <1>3 DEF Condition
  <2>2. depth # guards[i].depth <=> i # Len(guards)
    BY <1>0, OuterGuard
  <2> QED BY <2>1, <2>2, LatchDeserved
<1>4. ASSUME NEW i \in DOMAIN guards, NEW j \in Joiners, OpenGroup(i, j)
      PROVE  FailureIsDeserved'
  <2>1. Latch(guards[i].depth, i # Len(guards), FALSE)
    BY <1>4 DEF OpenGroup
  <2>2. depth # guards[i].depth <=> i # Len(guards)
    BY <1>0, OuterGuard
  <2> QED BY <2>1, <2>2, LatchDeserved
<1>5. ASSUME NEW e \in Expressions, NEW bad \in BOOLEAN, FluentWhere(e, bad)
      PROVE  FailureIsDeserved'
  <2>1. /\ Latch(writer.depth, guards # <<>>, FromFails \/ (bad /\ CanWriteClause))
        /\ surface = "fluent"
    BY <1>5 DEF FluentWhere
  <2>2. depth # writer.depth <=> guards # <<>>
    BY <2>1, OuterWriter
  <2> QED BY <2>1, <2>2, LatchDeserved
<1>6. CASE OpenWhere
  BY <1>6 DEF OpenWhere, LatchFrom, FailureIsDeserved
<1>7. CASE CloseGuard
  BY <1>7 DEF CloseGuard, FailureIsDeserved
<1>8. CASE CloseSelect
  BY <1>8 DEF CloseSelect, LatchFrom, FailureIsDeserved
<1>9. CASE Build
  <2>1. misplaced' = misplaced
    BY <1>9 DEF Build
  <2>2. CASE surface = "fluent"
    <3>1. LatchFrom
      BY <1>9, <2>2 DEF Build
    <3> QED BY <2>1, <3>1 DEF LatchFrom, FailureIsDeserved
  <2>3. CASE surface # "fluent"
    <3>1. failed' = failed /\ badName' = badName
      BY <1>9, <2>3 DEF Build
    <3> QED BY <2>1, <3>1 DEF FailureIsDeserved
  <2> QED BY <2>2, <2>3
<1>10. CASE UNCHANGED vars
  BY <1>10 DEF vars, arenaVars, history, FailureIsDeserved
<1> QED BY <1>1, <1>2, <1>3, <1>4, <1>5, <1>6, <1>7, <1>8, <1>9, <1>10 DEF Next

-----------------------------------------------------------------------------
\* A statement that is built after its scopes has none open, and stays as it is.
Finished == built # "none" /\ "early_build" \notin liberties => guards = <<>>

\* Only build() finishes a statement, and nothing goes on after it.
LEMMA OnlyBuildBuilds ==
  ASSUME Next, ~Build
  PROVE  built = "none" /\ built' = "none"
<1>1. ASSUME NEW bad \in BOOLEAN, Field(bad) PROVE built = "none" /\ built' = "none"
  BY <1>1 DEF Field, Building
<1>2. ASSUME NEW c \in Clauses, NEW bad \in BOOLEAN, Clause(c, bad)
      PROVE  built = "none" /\ built' = "none"
  BY <1>2 DEF Clause, Building
<1>3. ASSUME NEW i \in DOMAIN guards, NEW c \in Conditions, NEW bad \in BOOLEAN,
             Condition(i, c, bad)
      PROVE  built = "none" /\ built' = "none"
  BY <1>3 DEF Condition, Building
<1>4. ASSUME NEW i \in DOMAIN guards, NEW j \in Joiners, OpenGroup(i, j)
      PROVE  built = "none" /\ built' = "none"
  BY <1>4 DEF OpenGroup, Building
<1>5. ASSUME NEW e \in Expressions, NEW bad \in BOOLEAN, FluentWhere(e, bad)
      PROVE  built = "none" /\ built' = "none"
  BY <1>5 DEF FluentWhere, Building
<1>6. CASE OpenWhere
  BY <1>6 DEF OpenWhere, Building
<1>7. CASE CloseGuard
  BY <1>7 DEF CloseGuard
<1>8. CASE CloseSelect
  BY <1>8 DEF CloseSelect
<1> QED BY <1>1, <1>2, <1>3, <1>4, <1>5, <1>6, <1>7, <1>8 DEF Next

\* Every step keeps it.
LEMMA FinishedStep ==
  ASSUME Finished, [Next]_vars
  PROVE  Finished'
<1>1. CASE Build
  <2>1. /\ guards' = guards /\ built' \in {"ok", "error"}
        /\ liberties' = liberties \cup {l \in DOMAIN [early_build |-> selectOpen \/ guards # <<>>] :
                                         [early_build |-> selectOpen \/ guards # <<>>][l]}
    BY <1>1 DEF Build, Took
  <2>2. guards # <<>> => "early_build" \in liberties'
    BY <2>1
  <2> QED BY <2>1, <2>2 DEF Finished
<1>2. CASE Next /\ ~Build
  BY <1>2, OnlyBuildBuilds DEF Finished
<1>3. CASE UNCHANGED vars
  BY <1>3 DEF vars, arenaVars, history, Finished
<1> QED BY <1>1, <1>2, <1>3

-----------------------------------------------------------------------------
\* The types, and the invariant.

Liberties == {"out_of_order", "second_where", "nested_where", "empty_group",
              "early_build"}

\* The variables whose type needs nothing but what one action assigns.
PlainTypes ==
    /\ surface \in Surfaces
    /\ failed \in BOOLEAN
    /\ selectOpen \in BOOLEAN
    /\ writer \in [depth : 0..1, badTarget : BOOLEAN, anyField : BOOLEAN, from : BOOLEAN,
                   ordered : BOOLEAN, fetched : BOOLEAN]
    /\ whereDone \in BOOLEAN
    /\ built \in {"none", "ok", "error"}
    /\ calls \in 0..MaxCalls
    /\ misplaced \in BOOLEAN /\ badName \in BOOLEAN
    /\ liberties \subseteq Liberties

\* A call that writes counts.
LEMMA BuildingTypes ==
  ASSUME PlainTypes, Building
  PROVE  /\ surface' \in Surfaces /\ selectOpen' \in BOOLEAN
         /\ built' \in {"none", "ok", "error"} /\ calls' \in 0..MaxCalls
  BY DslAssumption DEF PlainTypes, Building

\* What latches is still a flag.
LEMMA LatchTypes ==
  ASSUME PlainTypes, NEW d, NEW outer \in BOOLEAN, NEW bad \in BOOLEAN, Latch(d, outer, bad)
  PROVE  failed' \in BOOLEAN /\ misplaced' \in BOOLEAN /\ badName' \in BOOLEAN
  BY DEF PlainTypes, Latch

\* And so when it is the name of the target.
LEMMA LatchFromTypes ==
  ASSUME PlainTypes, LatchFrom
  PROVE  failed' \in BOOLEAN /\ badName' \in BOOLEAN
  BY DEF PlainTypes, LatchFrom, FromFails

\* A liberty is one of those that are known.
LEMMA TookTypes ==
  ASSUME PlainTypes, NEW conditions, DOMAIN conditions \subseteq Liberties, Took(conditions)
  PROVE  liberties' \subseteq Liberties
  BY DEF PlainTypes, Took

\* Every step keeps these types.
LEMMA PlainStep ==
  ASSUME PlainTypes, [Next]_vars
  PROVE  PlainTypes'
<1>1. ASSUME NEW bad \in BOOLEAN, Field(bad) PROVE PlainTypes'
  <2>1. /\ surface' \in Surfaces /\ selectOpen' \in BOOLEAN
        /\ built' \in {"none", "ok", "error"} /\ calls' \in 0..MaxCalls
    BY <1>1, BuildingTypes DEF Field
  <2>2. failed' \in BOOLEAN /\ misplaced' \in BOOLEAN /\ badName' \in BOOLEAN
    BY <1>1, LatchTypes DEF Field
  <2>3. liberties' \subseteq Liberties
    BY <1>1, TookTypes DEF Field, Liberties
  <2>4. whereDone' = whereDone
        /\ (writer' = writer \/ writer' = [writer EXCEPT !.anyField = TRUE])
    BY <1>1 DEF Field
  <2> QED BY <2>1, <2>2, <2>3, <2>4 DEF PlainTypes
<1>2. ASSUME NEW c \in Clauses, NEW bad \in BOOLEAN, Clause(c, bad) PROVE PlainTypes'
  <2>1. /\ surface' \in Surfaces /\ selectOpen' \in BOOLEAN
        /\ built' \in {"none", "ok", "error"} /\ calls' \in 0..MaxCalls
    BY <1>2, BuildingTypes DEF Clause
  <2>2. failed' \in BOOLEAN /\ misplaced' \in BOOLEAN /\ badName' \in BOOLEAN
    BY <1>2, LatchTypes DEF Clause
  <2>3. liberties' \subseteq Liberties
    BY <1>2, TookTypes DEF Clause, Liberties
  <2>4. /\ whereDone' = whereDone
        /\ \/ writer' = [writer EXCEPT !.from = TRUE,
                                      !.ordered = @ \/ c = "ORDER BY",
                                      !.fetched = @ \/ c = "FETCH"]
           \/ writer' = [writer EXCEPT !.from = TRUE]
    BY <1>2 DEF Clause
  <2> QED BY <2>1, <2>2, <2>3, <2>4 DEF PlainTypes
<1>3. ASSUME NEW i \in DOMAIN guards, NEW c \in Conditions, NEW bad \in BOOLEAN,
             Condition(i, c, bad)
      PROVE  PlainTypes'
  <2>1. /\ surface' \in Surfaces /\ selectOpen' \in BOOLEAN
        /\ built' \in {"none", "ok", "error"} /\ calls' \in 0..MaxCalls
    BY <1>3, BuildingTypes DEF Condition
  <2>2. failed' \in BOOLEAN /\ misplaced' \in BOOLEAN /\ badName' \in BOOLEAN
    BY <1>3, LatchTypes DEF Condition
  <2>3. UNCHANGED <<writer, whereDone, liberties>>
    BY <1>3 DEF Condition
  <2> QED BY <2>1, <2>2, <2>3 DEF PlainTypes
<1>4. ASSUME NEW i \in DOMAIN guards, NEW j \in Joiners, OpenGroup(i, j) PROVE PlainTypes'
  <2>1. /\ surface' \in Surfaces /\ selectOpen' \in BOOLEAN
        /\ built' \in {"none", "ok", "error"} /\ calls' \in 0..MaxCalls
    BY <1>4, BuildingTypes DEF OpenGroup
  <2>2. failed' \in BOOLEAN /\ misplaced' \in BOOLEAN /\ badName' \in BOOLEAN
    BY <1>4, LatchTypes DEF OpenGroup
  <2>3. UNCHANGED <<writer, whereDone, liberties>>
    BY <1>4 DEF OpenGroup
  <2> QED BY <2>1, <2>2, <2>3 DEF PlainTypes
<1>5. ASSUME NEW e \in Expressions, NEW bad \in BOOLEAN, FluentWhere(e, bad)
      PROVE  PlainTypes'
  <2>1. /\ surface' \in Surfaces /\ selectOpen' \in BOOLEAN
        /\ built' \in {"none", "ok", "error"} /\ calls' \in 0..MaxCalls
    BY <1>5, BuildingTypes DEF FluentWhere
  <2>2. failed' \in BOOLEAN /\ misplaced' \in BOOLEAN /\ badName' \in BOOLEAN
    BY <1>5, LatchTypes DEF FluentWhere
  <2>3. liberties' \subseteq Liberties
    BY <1>5, TookTypes DEF FluentWhere, Liberties
  <2>4. /\ whereDone' = TRUE \/ whereDone' = whereDone
        /\ writer' = [writer EXCEPT !.from = TRUE]
    BY <1>5 DEF FluentWhere
  <2> QED BY <2>1, <2>2, <2>3, <2>4 DEF PlainTypes
<1>6. CASE OpenWhere
  <2>1. /\ surface' \in Surfaces /\ selectOpen' \in BOOLEAN
        /\ built' \in {"none", "ok", "error"} /\ calls' \in 0..MaxCalls
    BY <1>6, BuildingTypes DEF OpenWhere
  <2>2. failed' \in BOOLEAN /\ badName' \in BOOLEAN
    BY <1>6, LatchFromTypes DEF OpenWhere
  <2>3. liberties' \subseteq Liberties
    BY <1>6, TookTypes DEF OpenWhere, Liberties
  <2>4. writer' = [writer EXCEPT !.from = TRUE] /\ UNCHANGED <<misplaced, whereDone>>
    BY <1>6 DEF OpenWhere
  <2> QED BY <2>1, <2>2, <2>3, <2>4 DEF PlainTypes
<1>7. CASE CloseGuard
  <2>1. liberties' \subseteq Liberties
    BY <1>7, TookTypes DEF CloseGuard, Liberties
  <2>2. UNCHANGED <<surface, failed, selectOpen, writer, whereDone, built, calls,
                    misplaced, badName>>
    BY <1>7 DEF CloseGuard
  <2> QED BY <2>1, <2>2 DEF PlainTypes
<1>8. CASE CloseSelect
  <2>1. failed' \in BOOLEAN /\ badName' \in BOOLEAN
    BY <1>8, LatchFromTypes DEF CloseSelect
  <2>2. /\ selectOpen' = FALSE /\ writer' = [writer EXCEPT !.from = TRUE]
        /\ UNCHANGED <<surface, whereDone, built, calls, misplaced, liberties>>
    BY <1>8 DEF CloseSelect
  <2> QED BY <2>1, <2>2 DEF PlainTypes
<1>9. CASE Build
  <2>1. failed' \in BOOLEAN /\ badName' \in BOOLEAN
    <3>1. CASE surface = "fluent"
      BY <1>9, <3>1, LatchFromTypes DEF Build
    <3>2. CASE surface # "fluent"
      BY <1>9, <3>2 DEF Build, PlainTypes
    <3> QED BY <3>1, <3>2
  <2>2. writer' = writer \/ writer' = [writer EXCEPT !.from = TRUE]
    BY <1>9 DEF Build
  <2>3. liberties' \subseteq Liberties
    BY <1>9, TookTypes DEF Build, Liberties
  <2>4. /\ built' \in {"ok", "error"}
        /\ UNCHANGED <<surface, selectOpen, whereDone, calls, misplaced>>
    BY <1>9 DEF Build
  <2> QED BY <2>1, <2>2, <2>3, <2>4 DEF PlainTypes
<1>10. CASE UNCHANGED vars
  BY <1>10 DEF vars, arenaVars, history, PlainTypes
<1> QED BY <1>1, <1>2, <1>3, <1>4, <1>5, <1>6, <1>7, <1>8, <1>9, <1>10 DEF Next

\* No more guards are ever alive than the bound allows.
LEMMA NestingStep ==
  ASSUME TypeOK, [Next]_vars
  PROVE  Len(guards') <= MaxNesting
<1>1. ASSUME NEW t, Adds(t) PROVE Len(guards') <= MaxNesting
  BY <1>1 DEF Adds, Keeps, TypeOK
<1>2. ASSUME NEW t, NEW hs, NEW g, Opens(t, hs, g) PROVE Len(guards') <= MaxNesting
  <2>1. Len(guards') = Len(guards) + 1 /\ Len(guards) < MaxNesting
    BY <1>2, AppendProperties DEF Opens, Keeps
  <2>2. Len(guards) \in Nat
    BY LenProperties DEF TypeOK
  <2> QED BY <2>1, <2>2, DslAssumption
<1>3. CASE CloseGuard
  <2>1. guards # <<>> /\ guards' = SubSeq(guards, 1, Len(guards) - 1)
    BY <1>3 DEF CloseGuard
  <2>2. Len(guards) \in Nat \ {0}
    BY <2>1, EmptySeq DEF TypeOK
  <2>3. Len(guards') = Len(guards) - 1
    BY <2>1, <2>2, FrontOf DEF TypeOK
  <2> QED BY <2>2, <2>3, DslAssumption DEF TypeOK
<1> QED BY <1>1, <1>2, <1>3, StepKinds

\* The types follow from the parts.
LEMMA TypesFollow ==
  ASSUME PlainTypes', TextAgrees', DepthsAgree', Len(guards') <= MaxNesting
  PROVE  TypeOK'
<1>0. buf' \in Seq(Tokens) /\ guards' \in Seq(Guard) /\ bound' = HowMany(buf', Binding)
  BY DEF TextAgrees
<1>1. Len(guards') \in Nat /\ Len(buf') \in Nat
  BY <1>0, LenProperties
<1>2. bound' \in Nat
  BY <1>0, <1>1, CountedType DEF HowMany
<1>3. depth' \in 0..(MaxNesting + 1)
  <2>0. depth' = Len(guards') + (IF selectOpen' THEN 1 ELSE 0)
    BY DEF DepthsAgree
  <2>1. CASE selectOpen'
    BY <1>1, <2>0, <2>1, DslAssumption
  <2>2. CASE ~selectOpen'
    BY <1>1, <2>0, <2>2, DslAssumption
  <2> QED BY <2>1, <2>2
<1> QED BY <1>0, <1>2, <1>3 DEF TypeOK, PlainTypes, Liberties

IInv ==
    /\ TypeOK
    /\ TextAgrees /\ DepthsAgree
    /\ FailureIsDeserved /\ Finished

\* The invariant holds initially.
LEMMA InvInit == Init => IInv
<1> SUFFICES ASSUME Init PROVE IInv
  OBVIOUS
<1>0. /\ surface \in Surfaces /\ buf = <<"SELECT">> /\ bound = 0 /\ failed = FALSE
      /\ depth = (IF surface = "guards" THEN 1 ELSE 0) /\ guards = <<>>
      /\ selectOpen = (surface = "guards")
      /\ whereDone = FALSE /\ built = "none" /\ calls = 0
      /\ misplaced = FALSE /\ badName = FALSE /\ liberties = {}
  BY DEF Init
<1>1. PICK bad \in BOOLEAN :
         writer = [depth |-> depth, badTarget |-> bad, anyField |-> FALSE,
                   from |-> FALSE, ordered |-> FALSE, fetched |-> FALSE]
  BY DEF Init
<1>2. PlainTypes /\ writer.depth = depth /\ depth \in 0..1
  <2>1. depth \in 0..1
    BY <1>0
  <2>2. /\ writer \in [depth : 0..1, badTarget : BOOLEAN, anyField : BOOLEAN, from : BOOLEAN,
                       ordered : BOOLEAN, fetched : BOOLEAN]
        /\ writer.depth = depth
    BY <1>1, <2>1
  <2>3. calls \in 0..MaxCalls
    BY <1>0, DslAssumption
  <2> QED BY <1>0, <2>1, <2>2, <2>3 DEF PlainTypes
<1>3. guards \in Seq(Guard) /\ Len(guards) = 0
  BY <1>0
<1>4. TextAgrees
  <2>1. "SELECT" \in Tokens /\ "SELECT" \notin Binding /\ "SELECT" \notin {"(", ")"}
    BY DEF Tokens, Binding
  <2>2. /\ buf \in Seq(Tokens) /\ Len(buf) = 1 /\ HowMany(buf, Binding) = 0
        /\ Closed(buf)
    BY <1>0, <2>1, OneToken
  <2>3. Groups(guards) = 0
    BY <1>3, CountedNone DEF Groups
  <2>4. Marks
    BY <1>3 DEF Marks
  <2> QED BY <1>0, <1>3, <2>2, <2>3, <2>4 DEF TextAgrees, Nested, Closed
<1>5. DepthsAgree
  <2>1. depth = Base /\ (selectOpen <=> surface = "guards")
    BY <1>0 DEF Base
  <2>2. depth = 0 + (IF selectOpen THEN 1 ELSE 0)
    BY <1>0, <2>1
  <2> QED BY <1>0, <1>2, <1>3, <2>1, <2>2 DEF DepthsAgree
<1>6. FailureIsDeserved /\ Finished
  BY <1>0 DEF FailureIsDeserved, Finished
<1>7. TypeOK
  <2>1. Len(guards) <= MaxNesting /\ depth \in 0..(MaxNesting + 1)
    BY <1>2, <1>3, DslAssumption
  <2>2. bound \in Nat
    BY <1>0
  <2> QED BY <1>2, <1>3, <1>4, <2>1, <2>2 DEF TypeOK, PlainTypes, TextAgrees, Liberties
<1> QED BY <1>4, <1>5, <1>6, <1>7 DEF IInv

\* Every step preserves it.
LEMMA InvStep == IInv /\ [Next]_vars => IInv'
<1> SUFFICES ASSUME IInv, [Next]_vars PROVE IInv'
  OBVIOUS
<1>1. PlainTypes
  BY DEF IInv, TypeOK, PlainTypes, Liberties
<1>2. PlainTypes'
  BY <1>1, PlainStep
<1>3. TextAgrees'
  BY TextStep DEF IInv
<1>4. DepthsAgree'
  BY DepthStep DEF IInv
<1>5. Len(guards') <= MaxNesting
  BY NestingStep DEF IInv
<1>6. TypeOK'
  BY <1>2, <1>3, <1>4, <1>5, TypesFollow
<1>7. FailureIsDeserved'
  BY FailureStep DEF IInv
<1>8. Finished'
  BY FinishedStep DEF IInv
<1> QED BY <1>3, <1>4, <1>6, <1>7, <1>8 DEF IInv

\* The inductive invariant of the statement.
LEMMA Invariant == Spec => []IInv
  BY InvInit, InvStep, PTL DEF Spec

-----------------------------------------------------------------------------
\* The types are kept; the arena never counts more guards than are alive
\* (arena.hpp, guards.hpp, query.hpp).
THEOREM DslTypeCorrect == Spec => []TypeOK
<1>1. IInv => TypeOK
  BY DEF IInv
<1> QED BY Invariant, <1>1, PTL

\* A statement is refused exactly when a write was made through an object with
\* another one open inside, or a name was not an identifier, through any nesting
\* of guards (guards.hpp:45-58).
THEOREM FailuresAreDeserved == Spec => []FailureIsDeserved
<1>1. IInv => FailureIsDeserved
  BY DEF IInv
<1> QED BY Invariant, <1>1, PTL

\* Every bound value has its placeholder, whatever was rewound (arena.hpp:76-94).
THEOREM ValuesHavePlaceholders == Spec => []EveryValueHasItsPlaceholder
<1>1. IInv => EveryValueHasItsPlaceholder
  <2> SUFFICES ASSUME IInv PROVE EveryValueHasItsPlaceholder
    OBVIOUS
  <2>1. DOMAIN buf = 1..Len(buf)
    BY LenProperties DEF IInv, TextAgrees
  <2>2. bound = Cardinality(Found(buf, Binding, Len(buf)))
    BY DEF IInv, TextAgrees, HowMany, Counted
  <2>3. Found(buf, Binding, Len(buf)) = {i \in DOMAIN buf : buf[i] \in Binding}
    BY <2>1 DEF Found
  <2> QED BY <2>2, <2>3 DEF EveryValueHasItsPlaceholder
<1> QED BY Invariant, <1>1, PTL

\* What a live guard recorded is where its own opener is (arena.hpp:71-81).
THEOREM MarksStayTrue == Spec => []MarksAreTrue
<1>1. IInv => MarksAreTrue
  <2> SUFFICES ASSUME IInv, NEW i \in DOMAIN guards
               PROVE  /\ guards[i].open <= Len(buf)
                      /\ buf[guards[i].open] = IF guards[i].kind = "where" THEN "WHERE" ELSE "("
                      /\ i > 1 => guards[i - 1].open < guards[i].open
    BY DEF MarksAreTrue
  <2>1. DOMAIN guards = 1..Len(guards) /\ Len(guards) \in Nat /\ Len(buf) \in Nat
    BY LenProperties DEF IInv, TextAgrees
  <2>2. guards[i].open \in 1..Len(buf) /\ buf[guards[i].open] = Opener(guards[i].kind)
    BY <2>1 DEF IInv, TextAgrees, Marks
  <2>3. i > 1 => guards[i - 1].open < guards[i].open
    <3>1. i > 1 => i - 1 \in 1..Len(guards) /\ i - 1 < i
      BY <2>1
    <3> QED BY <2>1, <3>1 DEF IInv, TextAgrees, Marks
  <2> QED BY <2>1, <2>2, <2>3 DEF Opener
<1> QED BY Invariant, <1>1, PTL

\* The nesting the grammar speaks of is the one the proofs count.
LEMMA NestingIsNest ==
  ASSUME NEW n \in Int
  PROVE  /\ Nesting(n) = Nest(buf, n)
         /\ Count("(", n) \in Nat /\ Count(")", n) \in Nat
<1>1. ASSUME NEW t PROVE Count(t, n) = Counted(buf, {t}, n)
  <2>1. {k \in 1..n : buf[k] = t} = Found(buf, {t}, n)
    BY DEF Found
  <2> QED BY <2>1 DEF Count, Counted
<1>2. Count("(", n) = Counted(buf, {"("}, n) /\ Count(")", n) = Counted(buf, {")"}, n)
  BY <1>1
<1>3. Counted(buf, {"("}, n) \in Nat /\ Counted(buf, {")"}, n) \in Nat
  BY CountedType
<1> QED BY <1>2, <1>3 DEF Nesting, Nest

\* With no scope open, no parenthesis is.
LEMMA ClosedScopes == IInv => Balanced
<1> SUFFICES ASSUME IInv, built = "ok", "early_build" \notin liberties
             PROVE  Parenthesised
  BY DEF Balanced
<1>1. guards = <<>>
  BY DEF IInv, Finished
<1>2. Groups(guards) = 0
  BY <1>1, CountedNone DEF Groups
<1>3. Len(buf) \in Nat /\ DOMAIN buf = 1..Len(buf)
  BY LenProperties DEF IInv, TextAgrees
<1>4. /\ \A i \in 0..Len(buf) : Nest(buf, i) >= 0
      /\ Nest(buf, Len(buf)) = 0
  BY <1>2 DEF IInv, TextAgrees, Nested
<1>5. ASSUME NEW i \in DOMAIN buf PROVE Count("(", i) >= Count(")", i)
  <2>1. i \in Int /\ i \in 0..Len(buf)
    BY <1>3
  <2>2. Nesting(i) = Nest(buf, i) /\ Count("(", i) \in Nat /\ Count(")", i) \in Nat
    BY <2>1, NestingIsNest
  <2> QED BY <1>4, <2>1, <2>2 DEF Nesting
<1>6. Nesting(Len(buf)) = 0
  <2>1. Len(buf) \in Int
    BY <1>3
  <2> QED BY <1>4, <2>1, NestingIsNest
<1> QED BY <1>5, <1>6 DEF Parenthesised

\* Every parenthesis is closed in a statement built after its scopes, however
\* deep they were nested and whichever of them stayed empty (guards.hpp:20).
THEOREM ParenthesesBalance == Spec => []Balanced
  BY Invariant, ClosedScopes, PTL

-----------------------------------------------------------------------------
\* What a rewind takes.

\* The text stays as it is and may get longer.
TextStays == Len(buf) <= Len(buf') /\ \A i \in 1..Len(buf) : buf'[i] = buf[i]

\* The innermost guard goes, and with it the keyword or parenthesis it wrote.
OpenerGoes ==
    /\ guards # <<>> /\ Len(guards') = Len(guards) - 1
    /\ buf = buf' \o <<Opener(guards[Len(guards)].kind)>>

\* A text that is appended to stays.
LEMMA Appended ==
  ASSUME NEW s \in Seq(Tokens), NEW t \in Seq(Tokens)
  PROVE  /\ s \o t \in Seq(Tokens)
         /\ Len(s) <= Len(s \o t) /\ \A i \in 1..Len(s) : (s \o t)[i] = s[i]
<1>1. Len(s) \in Nat /\ Len(t) \in Nat
  BY LenProperties
<1>2. /\ s \o t \in Seq(Tokens) /\ Len(s \o t) = Len(s) + Len(t)
      /\ \A i \in 1 .. Len(s) + Len(t) :
            (s \o t)[i] = IF i <= Len(s) THEN s[i] ELSE t[i - Len(s)]
  BY ConcatProperties
<1> QED BY <1>1, <1>2

\* A guard that goes takes nothing, or its own opener.
LEMMA CloseTakes ==
  ASSUME TextAgrees, CloseGuard
  PROVE  TextStays \/ OpenerGoes
<1> DEFINE n == Len(guards)
           g == guards[n]
<1>1. /\ buf \in Seq(Tokens) /\ guards \in Seq(Guard) /\ guards # <<>>
      /\ buf' = Closing(g) /\ guards' = SubSeq(guards, 1, n - 1)
  BY DEF CloseGuard, TextAgrees
<1>2. n \in Nat \ {0} /\ n \in 1..n /\ Len(buf) \in Nat
  BY <1>1, EmptySeq, LenProperties
<1>3. g.open \in 1..Len(buf) /\ buf[g.open] = Opener(g.kind)
  BY <1>2 DEF TextAgrees, Marks
<1>4. Len(guards') = n - 1
  BY <1>1, <1>2, FrontOf
<1> HIDE DEF n, g
<1>5. CASE Len(buf) > g.open /\ g.kind = "group"
  <2>1. buf' = buf \o <<")">> /\ <<")">> \in Seq(Tokens)
    <3>1. ")" \in Tokens
      BY DEF Tokens
    <3> QED BY <1>1, <1>5, <3>1, AppendIsConcat DEF Closing
  <2> QED BY <1>1, <2>1, Appended DEF TextStays
<1>6. CASE Len(buf) > g.open /\ g.kind # "group"
  <2>1. buf' = buf
    BY <1>1, <1>6 DEF Closing
  <2> QED BY <1>2, <2>1 DEF TextStays
<1>7. CASE ~(Len(buf) > g.open)
  <2>1. g.open = Len(buf) /\ Len(buf) \in Nat \ {0}
    BY <1>2, <1>3, <1>7
  <2>2. buf' = SubSeq(buf, 1, Len(buf) - 1)
    BY <1>1, <1>7, <2>1 DEF Closing
  <2>3. buf = buf' \o <<buf[Len(buf)]>>
    BY <1>1, <2>1, <2>2, Rewound
  <2>4. buf[Len(buf)] = Opener(g.kind)
    BY <1>3, <2>1
  <2>5. buf = buf' \o <<Opener(g.kind)>>
    BY <2>3, <2>4
  <2> QED BY <1>1, <1>4, <2>5 DEF OpenerGoes, n, g
<1> QED BY <1>5, <1>6, <1>7

\* What was written is never touched again: the only thing a step may take out
\* of the text is the last token, when it is the keyword or parenthesis of the
\* innermost guard and that guard goes; no joiner, condition or clause of
\* another object, whatever liberties were taken (arena.hpp:71-94).
THEOREM OnlyOpenersAreTakenBack == Spec => [][TextStays \/ OpenerGoes]_vars
<1>1. ASSUME IInv, [Next]_vars PROVE TextStays \/ OpenerGoes
  <2>1. TypeOK /\ TextAgrees /\ buf \in Seq(Tokens)
    BY <1>1 DEF IInv, TextAgrees
  <2>2. ASSUME NEW t, Adds(t) PROVE TextStays
    BY <2>1, <2>2, Appended DEF Adds, TextStays
  <2>3. ASSUME NEW t, NEW hs, NEW g, Opens(t, hs, g) PROVE TextStays
    <3>1. t \in Seq(Tokens) /\ g \in Guard /\ buf' = (buf \o t) \o <<Opener(g.kind)>>
      BY <2>3 DEF Opens
    <3>2. Opener(g.kind) \in Tokens
      BY DEF Opener, Tokens
    <3> DEFINE r == buf \o t
               u == <<Opener(g.kind)>>
    <3>3. u \in Seq(Tokens)
      BY <3>2
    <3>4. /\ r \in Seq(Tokens) /\ Len(buf) <= Len(r)
          /\ \A i \in 1..Len(buf) : r[i] = buf[i]
      BY <2>1, <3>1, Appended
    <3> HIDE DEF r, u
    <3>5. Len(r) <= Len(r \o u) /\ \A i \in 1..Len(r) : (r \o u)[i] = r[i]
      BY <3>3, <3>4, Appended
    <3>6. Len(buf) \in Nat /\ Len(r) \in Nat /\ Len(r \o u) \in Nat /\ buf' = r \o u
      BY <2>1, <3>1, <3>3, <3>4, LenProperties, ConcatProperties DEF r, u
    <3>7. ASSUME NEW i \in 1..Len(buf) PROVE i \in 1..Len(r)
      BY <3>4, <3>6
    <3> QED BY <3>4, <3>5, <3>6, <3>7 DEF TextStays
  <2>4. ASSUME CloseGuard PROVE TextStays \/ OpenerGoes
    BY <2>1, <2>4, CloseTakes
  <2> QED BY <1>1, <2>1, <2>2, <2>3, <2>4, StepKinds
<1> QED BY Invariant, <1>1, PTL DEF Spec
=============================================================================
