--------------------------- MODULE DslGrammarProofs ---------------------------
(****************************************************************************)
(* What build() hands out is a statement of the grammar, for any number of  *)
(* calls and any depth of nesting, from a client that took no liberty.      *)
(*                                                                          *)
(* A text that is being written is Grammatical: what there is of it follows *)
(* the grammar, and what it ends with is what the writer and the innermost  *)
(* guard believe it ends with, so that whatever an action writes next is    *)
(* allowed there.                                                           *)
(****************************************************************************)
EXTENDS DslProofs

-----------------------------------------------------------------------------
\* The grammar of a text that is being written.

Has(s, x) == \E i \in 1..Len(s) : s[i] = x
LastOf(s) == s[Len(s)]

\* Neighbours follow each other, and clauses stand outside all parentheses.
Chained(s) == \A i \in 1..(Len(s) - 1) : s[i + 1] \in Follows[s[i]]
TopLevel == Clauses \cup {";"}
Outside(s) == \A i \in 1..Len(s) : s[i] \in TopLevel => Nest(s, i) = 0

\* From i on the text leaves nothing that was open at i.
Within(s, i, j) == \A k \in i..j : Nest(s, k) >= Nest(s, i)

\* Joiners side by side are the same, and AND outside all parentheses.
Agreeing(s) ==
    /\ \A i, j \in 1..Len(s) :
          /\ i <= j /\ s[i] \in Joiners /\ s[j] \in Joiners
          /\ Within(s, i, j) /\ Nest(s, j) = Nest(s, i)
          => s[i] = s[j]
    /\ \A i \in 1..Len(s) : s[i] \in Joiners /\ Nest(s, i) = 0 => s[i] = "AND"

Text(s) ==
    /\ s \in Seq(Tokens) /\ Len(s) >= 1 /\ s[1] = "SELECT"
    /\ Chained(s) /\ Outside(s) /\ Agreeing(s)

-----------------------------------------------------------------------------
\* Where a statement stands.

Parts == {"WHERE"} \cup Clauses
Operands == Conditions \cup {")"}

\* The tokens a part may end with.
Ends(c) ==
    CASE c = "WHERE"    -> Operands
      [] c = "ORDER BY" -> {"ORDER BY", ", order"}
      [] c = "LIMIT"    -> {"LIMIT"}
      [] c = "START"    -> {"START"}
      [] c = "FETCH"    -> {"FETCH", ", fetch"}

\* The text ends with the part the grammar puts last among those written.
Frontier(s) ==
    /\ (\A c \in Parts : ~Has(s, c)) => LastOf(s) = "FROM"
    /\ \A c \in Parts : Has(s, c) /\ (\A d \in Later(c) : ~Has(s, d)) => LastOf(s) \in Ends(c)

\* The projection is not closed: it ends with its last field.
Projecting(s, w, gs) ==
    /\ gs = <<>>
    /\ \A c \in Parts : ~Has(s, c)
    /\ LastOf(s) \in IF w.anyField THEN {"field", ", field"} ELSE {"SELECT"}

\* One where_guard, and groups inside it; those around another have conditions.
Scopes(gs) ==
    \A p \in 1..Len(gs) :
        /\ gs[p].kind = "where" <=> p = 1
        /\ p = 1 => gs[p].joiner = "AND"
        /\ p < Len(gs) => ~gs[p].first

\* The joiners a guard wrote itself are its own.
Levels(s, gs) ==
    \A p \in 1..Len(gs) :
        /\ Nest(s, gs[p].open) = p - 1
        /\ \A i \in (gs[p].open + 1)..Len(s) :
              s[i] \in Joiners /\ Nest(s, i) = p - 1 => s[i] = gs[p].joiner

\* The innermost guard has written nothing, or a condition or group last.
Filled(s, gs) ==
    LET g == gs[Len(gs)] IN IF g.first THEN g.open = Len(s) ELSE LastOf(s) \in Operands

\* The statement has no WHERE but that of the guard, and nothing that goes after it.
Single(s, gs) ==
    /\ \A c \in Clauses : ~Has(s, c)
    /\ \A i \in 1..Len(s) : s[i] = "WHERE" => i = gs[1].open

\* What the writer remembers of the text.
Remembered(s, w, done, gs) ==
    /\ w.ordered <=> Has(s, "ORDER BY")
    /\ w.fetched <=> Has(s, "FETCH")
    /\ done => Has(s, "WHERE") /\ gs = <<>>

Ended == built # "none" \/ (surface = "guards" /\ ~selectOpen)

Phase(s, w, gs, ended) ==
    /\ ~w.from => Projecting(s, w, gs)
    /\ w.from /\ ~ended /\ gs = <<>> => Frontier(s)
    /\ gs # <<>> => Filled(s, gs) /\ Single(s, gs)
    /\ ended => LastOf(s) = ";" /\ gs = <<>>

Grammatical ==
    /\ Text(buf)
    /\ Scopes(guards) /\ Levels(buf, guards)
    /\ Remembered(buf, writer, whereDone, guards)
    /\ Phase(buf, writer, guards, Ended)

GInv ==
    /\ built = "ok" => ~failed
    /\ liberties = {} /\ ~failed => Grammatical

-----------------------------------------------------------------------------
\* One token more.

\* What there is of a text stays as it is.
LEMMA Extended ==
  ASSUME NEW s \in Seq(Tokens), NEW x \in Tokens
  PROVE  LET r == s \o <<x>> IN
         /\ r \in Seq(Tokens) /\ Len(s) \in Nat /\ Len(r) = Len(s) + 1
         /\ \A i \in 1..Len(s) : r[i] = s[i]
         /\ r[Len(s) + 1] = x /\ LastOf(r) = x
         /\ \A n \in 0..Len(s) : Nest(r, n) = Nest(s, n) /\ Nest(s, n) \in Int
         /\ Nest(r, Len(s) + 1)
               = Nest(s, Len(s)) + (IF x = "(" THEN 1 ELSE IF x = ")" THEN -1 ELSE 0)
<1> DEFINE r == s \o <<x>>
<1>1. Len(s) \in Nat /\ <<x>> \in Seq(Tokens) /\ Len(<<x>>) = 1
  BY LenProperties
<1>2. /\ r \in Seq(Tokens) /\ Len(r) = Len(s) + 1
      /\ r[Len(s) + 1] = x
      /\ \A n \in 0..Len(s) : Nest(r, n) = Nest(s, n)
      /\ Nest(r, Len(s) + 1)
            = Nest(s, Len(s)) + (IF x = "(" THEN 1 ELSE IF x = ")" THEN -1 ELSE 0)
  BY NestAppend
<1>3. ASSUME NEW i \in 1..Len(s) PROVE r[i] = s[i]
  <2>1. \A k \in 1 .. Len(s) + Len(<<x>>) :
           (s \o <<x>>)[k] = IF k <= Len(s) THEN s[k] ELSE <<x>>[k - Len(s)]
    BY <1>1, ConcatProperties
  <2> QED BY <1>1, <2>1
<1>4. \A n \in 0..Len(s) : Nest(s, n) \in Int
  BY <1>1, NestType
<1>5. LastOf(r) = x
  BY <1>2 DEF LastOf
<1> QED BY <1>1, <1>2, <1>3, <1>4, <1>5

\* The only token that is new is the one written.
LEMMA HasMore ==
  ASSUME NEW s \in Seq(Tokens), NEW x \in Tokens, NEW c
  PROVE  Has(s \o <<x>>, c) <=> Has(s, c) \/ c = x
<1> DEFINE r == s \o <<x>>
<1>1. /\ Len(s) \in Nat /\ Len(r) = Len(s) + 1
      /\ \A i \in 1..Len(s) : r[i] = s[i]
      /\ r[Len(s) + 1] = x
  BY Extended
<1> HIDE DEF r
<1>2. 1..Len(r) = (1..Len(s)) \cup {Len(s) + 1}
  BY <1>1
<1>3. Has(r, c) <=> Has(s, c) \/ c = x
  BY <1>1, <1>2 DEF Has
<1> QED BY <1>3 DEF r

\* Whether a joiner may be written after s.
Fits(s, x) ==
    /\ \A i \in 1..Len(s) :
          s[i] \in Joiners /\ Nest(s, i) = Nest(s, Len(s)) /\ Within(s, i, Len(s)) => s[i] = x
    /\ Nest(s, Len(s)) = 0 => x = "AND"

\* A token the grammar allows there keeps the text grammatical.
LEMMA TextAppend ==
  ASSUME NEW s \in Seq(Tokens), NEW x \in Tokens, Text(s), x \in Follows[LastOf(s)],
         x \in TopLevel => Nest(s, Len(s)) = 0,
         x \in Joiners => Fits(s, x)
  PROVE  Text(s \o <<x>>)
<1> DEFINE r == s \o <<x>>
           n == Len(s)
<1>0. /\ s \in Seq(Tokens) /\ n = Len(s) /\ n >= 1 /\ s[1] = "SELECT"
      /\ Chained(s) /\ Outside(s) /\ Agreeing(s)
  BY DEF Text
<1>1. /\ r = s \o <<x>> /\ r \in Seq(Tokens) /\ n \in Nat /\ Len(r) = n + 1
      /\ \A i \in 1..n : r[i] = s[i]
      /\ r[n + 1] = x
      /\ \A k \in 0..n : Nest(r, k) = Nest(s, k) /\ Nest(s, k) \in Int
      /\ Nest(r, n + 1) = Nest(s, n) + (IF x = "(" THEN 1 ELSE IF x = ")" THEN -1 ELSE 0)
  BY <1>0, Extended
<1> HIDE DEF r, n
<1>2. Chained(r)
  <2>1. ASSUME NEW i \in 1..(Len(r) - 1) PROVE r[i + 1] \in Follows[r[i]]
    <3>1. CASE i < n
      BY <1>0, <1>1, <3>1 DEF Chained
    <3>2. CASE i = n
      BY <1>0, <1>1, <3>2 DEF LastOf
    <3> QED BY <1>1, <3>1, <3>2
  <2> QED BY <2>1 DEF Chained
<1>3. x \in TopLevel \/ x \in Joiners => Nest(r, n + 1) = Nest(s, n)
  <2>1. x \in TopLevel \/ x \in Joiners => x # "(" /\ x # ")"
    BY DEF TopLevel, Clauses, Joiners
  <2>2. Nest(s, n) \in Int
    BY <1>1
  <2> QED BY <1>1, <2>1, <2>2
<1>4. Outside(r)
  <2>1. ASSUME NEW i \in 1..Len(r), r[i] \in TopLevel PROVE Nest(r, i) = 0
    <3>1. CASE i \in 1..n
      BY <1>0, <1>1, <2>1, <3>1 DEF Outside
    <3>2. CASE i = n + 1
      BY <1>1, <1>3, <2>1, <3>2
    <3> QED BY <1>1, <3>1, <3>2
  <2> QED BY <2>1 DEF Outside
<1>5. ASSUME NEW i \in 1..Len(r), r[i] \in Joiners, Nest(r, i) = 0 PROVE r[i] = "AND"
  <2>1. CASE i \in 1..n
    BY <1>0, <1>1, <1>5, <2>1 DEF Agreeing
  <2>2. CASE i = n + 1
    BY <1>1, <1>3, <1>5, <2>2 DEF Fits
  <2> QED BY <1>1, <2>1, <2>2
<1>6. ASSUME NEW i \in 1..Len(r), NEW j \in 1..Len(r), i <= j,
             r[i] \in Joiners, r[j] \in Joiners, Within(r, i, j), Nest(r, j) = Nest(r, i)
      PROVE  r[i] = r[j]
  <2>1. CASE j \in 1..n
    <3>1. i \in 1..n /\ r[i] = s[i] /\ r[j] = s[j]
      BY <1>1, <1>6, <2>1
    <3>2. ASSUME NEW k \in i..j PROVE Nest(r, k) = Nest(s, k)
      <4>1. i \in Nat /\ i >= 1 /\ j \in Nat /\ j <= n /\ n \in Nat
        BY <1>1, <2>1, <3>1
      <4>2. k \in 0..n
        BY <4>1
      <4> QED BY <1>1, <4>2
    <3>3. Within(s, i, j)
      BY <1>6, <2>1, <3>1, <3>2 DEF Within
    <3>4. Nest(s, j) = Nest(s, i)
      <4>1. i \in 0..n /\ j \in 0..n
        BY <2>1, <3>1
      <4>2. Nest(r, i) = Nest(s, i) /\ Nest(r, j) = Nest(s, j)
        BY <1>1, <4>1
      <4> QED BY <1>6, <4>2
    <3> QED BY <1>0, <1>6, <2>1, <3>1, <3>3, <3>4 DEF Agreeing
  <2>2. CASE i = n + 1 /\ j = n + 1
    BY <2>2
  <2>3. CASE i \in 1..n /\ j = n + 1
    <3>1. x \in Joiners /\ Nest(r, n + 1) = Nest(s, n)
      BY <1>1, <1>3, <1>6, <2>3
    <3>2. s[i] = r[i] /\ Nest(s, i) = Nest(s, n)
      <4>1. Nest(r, i) = Nest(s, i)
        BY <1>1, <2>3
      <4>2. Nest(r, i) = Nest(r, n + 1)
        BY <1>6, <2>3
      <4> QED BY <1>1, <2>3, <3>1, <4>1, <4>2
    <3>3. Within(s, i, n)
      <4>1. \A k \in i..n : k \in i..j /\ Nest(r, k) = Nest(s, k)
        BY <1>1, <2>3
      <4>2. Nest(r, i) = Nest(s, i)
        BY <1>1, <2>3
      <4> QED BY <1>6, <4>1, <4>2 DEF Within
    <3> QED BY <1>1, <1>6, <2>3, <3>1, <3>2, <3>3 DEF Fits
  <2> QED BY <1>1, <1>6, <2>1, <2>2, <2>3
<1>7. Agreeing(r)
  BY <1>5, <1>6 DEF Agreeing
<1>8. Len(r) >= 1 /\ r[1] = "SELECT"
  BY <1>0, <1>1
<1> QED BY <1>1, <1>2, <1>4, <1>7, <1>8 DEF Text, r

\* And so does taking its last token away.
LEMMA TextFront ==
  ASSUME NEW r \in Seq(Tokens), NEW x \in Tokens, Len(r) >= 1, Text(r \o <<x>>)
  PROVE  Text(r) /\ x \in Follows[LastOf(r)]
<1> DEFINE s == r \o <<x>>
           n == Len(r)
<1>0. s \in Seq(Tokens) /\ s[1] = "SELECT" /\ Chained(s) /\ Outside(s) /\ Agreeing(s)
  BY DEF Text
<1>1. /\ n \in Nat /\ Len(s) = n + 1 /\ n >= 1
      /\ \A i \in 1..n : s[i] = r[i]
      /\ s[n + 1] = x
      /\ \A k \in 0..n : Nest(s, k) = Nest(r, k)
  BY Extended
<1> HIDE DEF s
<1>2. Chained(r)
  BY <1>0, <1>1 DEF Chained
<1>3. Outside(r)
  BY <1>0, <1>1 DEF Outside
<1>4. ASSUME NEW i \in 1..n, NEW j \in 1..n, i <= j,
             r[i] \in Joiners, r[j] \in Joiners, Within(r, i, j), Nest(r, j) = Nest(r, i)
      PROVE  r[i] = r[j]
  <2>1. s[i] = r[i] /\ s[j] = r[j] /\ Nest(s, j) = Nest(s, i) /\ i \in 1..Len(s) /\ j \in 1..Len(s)
    BY <1>1, <1>4
  <2>2. \A k \in i..j : Nest(s, k) = Nest(r, k)
    BY <1>1
  <2>3. Within(s, i, j)
    BY <1>4, <2>2 DEF Within
  <2> QED BY <1>0, <1>4, <2>1, <2>3 DEF Agreeing
<1>5. ASSUME NEW i \in 1..n, r[i] \in Joiners, Nest(r, i) = 0 PROVE r[i] = "AND"
  <2>1. s[i] = r[i] /\ Nest(s, i) = Nest(r, i) /\ i \in 1..Len(s)
    BY <1>1
  <2> QED BY <1>0, <1>5, <2>1 DEF Agreeing
<1>6. Agreeing(r)
  BY <1>4, <1>5 DEF Agreeing
<1>7. r[1] = "SELECT" /\ s[n + 1] \in Follows[s[n]] /\ s[n] = r[n]
  BY <1>0, <1>1 DEF Chained
<1> QED BY <1>1, <1>2, <1>3, <1>6, <1>7 DEF Text, LastOf

-----------------------------------------------------------------------------
\* What the grammar allows.

\* The part of the grammar before the clauses.
LEMMA Successors ==
  /\ \A t \in Tokens : "WHERE" \in Follows[t] => t = "FROM"
  /\ Follows["SELECT"] = {"*", "field"} /\ Follows["*"] = {"FROM"}
  /\ \A t \in {"field", ", field"} : Follows[t] = {", field", "FROM"}
  /\ \A c \in Parts : c \in Follows["FROM"]
  /\ ";" \in Follows["FROM"]
  /\ \A t \in Joiners \cup {"WHERE", "("} : Follows[t] = Operand
  /\ \A t \in Operands : /\ \A j \in Joiners : j \in Follows[t]
                         /\ ")" \in Follows[t]
<1>1. Follows["SELECT"] = {"*", "field"} /\ Follows["*"] = {"FROM"}
  BY DEF Follows, Tokens, Clauses, Conditions, Joiners
<1>2. /\ Follows["field"] = {", field", "FROM"}
      /\ Follows[", field"] = {", field", "FROM"}
  BY DEF Follows, Tokens, Clauses, Conditions, Joiners
<1>3. Follows["FROM"] = {"WHERE", "ORDER BY", "LIMIT", "START", "FETCH", ";"}
  BY DEF Follows, Tokens, Clauses, Conditions, Joiners, After, Later
<1>4. \A t \in Joiners \cup {"WHERE", "("} : Follows[t] = Operand
  BY DEF Follows, Tokens, Clauses, Conditions, Joiners
<1>5. \A t \in Operands : Follows[t] = Joiners \cup {")"} \cup After("WHERE")
  BY DEF Follows, Tokens, Operands, Conditions, Joiners
<1>6. /\ Follows["ORDER BY"] = {", order", "LIMIT", "START", "FETCH", ";"}
      /\ Follows[", order"] = {", order", "LIMIT", "START", "FETCH", ";"}
  BY DEF Follows, Tokens, Clauses, Conditions, Joiners, After, Later
<1>7. /\ Follows["FETCH"] = {", fetch", ";"}
      /\ Follows[", fetch"] = {", fetch", ";"}
  BY DEF Follows, Tokens, Clauses, Conditions, Joiners, After, Later
<1>8. Follows["LIMIT"] = {"START", "FETCH", ";"} /\ Follows["START"] = {"FETCH", ";"}
  BY DEF Follows, Tokens, Clauses, Conditions, Joiners, After, Later
<1>9. Follows[";"] = {}
  BY DEF Follows, Tokens, Clauses, Conditions, Joiners, After, Later
<1>10. ASSUME NEW t \in Tokens, "WHERE" \in Follows[t] PROVE t = "FROM"
  <2>1. t \notin {"SELECT", "*", "field", ", field", "LIMIT", "START", ";"}
    <3>1. /\ "WHERE" \notin Follows["SELECT"] /\ "WHERE" \notin Follows["*"]
          /\ "WHERE" \notin Follows["LIMIT"] /\ "WHERE" \notin Follows["START"]
          /\ "WHERE" \notin Follows[";"]
      BY <1>1, <1>8, <1>9
    <3>2. "WHERE" \notin Follows["field"] /\ "WHERE" \notin Follows[", field"]
      BY <1>2
    <3> QED BY <1>10, <3>1, <3>2
  <2>2. t \notin Joiners \cup {"WHERE", "("}
    BY <1>4, <1>10 DEF Operand, Conditions
  <2>3. t \notin Operands
    <3>1. "WHERE" \notin Joiners \cup {")"} \cup After("WHERE")
      BY DEF After, Later, Joiners
    <3> QED BY <1>5, <1>10, <3>1
  <2>4. t \notin {"ORDER BY", ", order", "FETCH", ", fetch"}
    <3>1. "WHERE" \notin Follows["ORDER BY"] /\ "WHERE" \notin Follows[", order"]
      BY <1>6
    <3>2. "WHERE" \notin Follows["FETCH"] /\ "WHERE" \notin Follows[", fetch"]
      BY <1>7
    <3> QED BY <1>10, <3>1, <3>2
  <2> QED BY <2>1, <2>2, <2>3, <2>4 DEF Tokens, Operands, Conditions, Joiners, Clauses
<1>11. \A t \in Operands : (\A j \in Joiners : j \in Follows[t]) /\ ")" \in Follows[t]
  BY <1>5
<1>12. \A c \in Parts : c \in Follows["FROM"]
  BY <1>3 DEF Parts, Clauses
<1> QED BY <1>1, <1>2, <1>3, <1>4, <1>10, <1>11, <1>12

\* What may come after the end of a part.
LEMMA PartEnds ==
  ASSUME NEW c \in Parts, NEW t \in Ends(c)
  PROVE  /\ t \in Tokens /\ ";" \in Follows[t]
         /\ \A d \in Later(c) : d \in Follows[t]
         /\ c = "ORDER BY" => ", order" \in Follows[t]
         /\ c = "FETCH" => ", fetch" \in Follows[t]
<1>1. CASE c = "WHERE"
  BY <1>1 DEF Ends, Later, After, Follows, Tokens, Operands, Conditions, Joiners
<1>2. CASE c = "ORDER BY"
  BY <1>2 DEF Ends, Later, After, Follows, Tokens, Clauses, Conditions, Joiners
<1>3. CASE c = "LIMIT"
  BY <1>3 DEF Ends, Later, After, Follows, Tokens, Clauses, Conditions, Joiners
<1>4. CASE c = "START"
  BY <1>4 DEF Ends, Later, After, Follows, Tokens, Clauses, Conditions, Joiners
<1>5. CASE c = "FETCH"
  BY <1>5 DEF Ends, Later, After, Follows, Tokens, Clauses, Conditions, Joiners
<1> QED BY <1>1, <1>2, <1>3, <1>4, <1>5 DEF Parts, Clauses

\* The grammar orders the parts.
LEMMA PartOrder ==
  ASSUME NEW c \in Parts, NEW d \in Parts
  PROVE  /\ c = d \/ c \in Later(d) \/ d \in Later(c)
         /\ c \notin Later(c) /\ Later(c) \subseteq Clauses
         /\ c = "WHERE" => Later(c) = Clauses
  BY DEF Parts, Clauses, Later

\* A statement with any part has one that is last.
LEMMA LatestPart ==
  ASSUME NEW s, NEW c \in Parts, Has(s, c)
  PROVE  \E d \in Parts : Has(s, d) /\ \A e \in Later(d) : ~Has(s, e)
<1>1. CASE Has(s, "FETCH")
  BY <1>1 DEF Parts, Clauses, Later
<1>2. CASE Has(s, "START") /\ ~Has(s, "FETCH")
  BY <1>2 DEF Parts, Clauses, Later
<1>3. CASE Has(s, "LIMIT") /\ ~Has(s, "START") /\ ~Has(s, "FETCH")
  BY <1>3 DEF Parts, Clauses, Later
<1>4. CASE Has(s, "ORDER BY") /\ ~Has(s, "LIMIT") /\ ~Has(s, "START") /\ ~Has(s, "FETCH")
  BY <1>4 DEF Parts, Clauses, Later
<1>5. CASE /\ Has(s, "WHERE") /\ ~Has(s, "ORDER BY") /\ ~Has(s, "LIMIT")
           /\ ~Has(s, "START") /\ ~Has(s, "FETCH")
  BY <1>5 DEF Parts, Clauses, Later
<1> QED BY <1>1, <1>2, <1>3, <1>4, <1>5 DEF Parts, Clauses

-----------------------------------------------------------------------------
\* Writing a part.

\* The text stands at the top, after the projection, and may go on or end.
Complete(s) == Text(s) /\ Frontier(s) /\ Nest(s, Len(s)) = 0

\* A token that is neither a parenthesis nor a joiner, at the top.
LEMMA TopToken ==
  ASSUME NEW s, Text(s), Nest(s, Len(s)) = 0,
         NEW x \in Tokens, x \in Follows[LastOf(s)], x \notin {"(", ")"}, x \notin Joiners
  PROVE  /\ Text(s \o <<x>>) /\ LastOf(s \o <<x>>) = x
         /\ Nest(s \o <<x>>, Len(s \o <<x>>)) = 0
<1>1. s \in Seq(Tokens)
  BY DEF Text
<1>2. Text(s \o <<x>>)
  BY <1>1, TextAppend
<1>3. LastOf(s \o <<x>>) = x
  BY <1>1, Extended
<1>4. Nest(s \o <<x>>, Len(s) + 1) = 0 /\ Len(s \o <<x>>) = Len(s) + 1
  BY <1>1, Extended
<1> QED BY <1>2, <1>3, <1>4

\* What clause c writes after s.
Spelling(s, c) ==
    CASE c = "ORDER BY" /\ Has(s, c) -> ", order"
      [] c = "FETCH" /\ Has(s, c) -> ", fetch"
      [] OTHER -> c

\* In the order of the parts, a clause may follow a complete statement.
LEMMA ClauseFollows ==
  ASSUME NEW s, Frontier(s), NEW c \in Clauses, \A d \in Later(c) : ~Has(s, d),
         c \in Binding => ~Has(s, c)
  PROVE  Spelling(s, c) \in Follows[LastOf(s)]
<1>0. c \in Parts
  BY DEF Parts
<1>1. CASE \A d \in Parts : ~Has(s, d)
  <2>1. LastOf(s) = "FROM" /\ Spelling(s, c) = c
    BY <1>0, <1>1 DEF Frontier, Spelling
  <2> QED BY <1>0, <2>1, Successors
<1>2. CASE \E d \in Parts : Has(s, d)
  <2>1. PICK d \in Parts : Has(s, d) /\ \A e \in Later(d) : ~Has(s, e)
    BY <1>2, LatestPart
  <2>2. LastOf(s) \in Ends(d)
    BY <2>1 DEF Frontier
  <2>3. d \notin Later(c)
    BY <2>1
  <2>4. CASE c \in Later(d)
    <3>1. Spelling(s, c) = c
      BY <2>1, <2>4 DEF Spelling
    <3> QED BY <2>2, <2>4, <3>1, PartEnds
  <2>5. CASE c = d
    <3>1. c = "ORDER BY" \/ c = "FETCH"
      BY <2>1, <2>5 DEF Clauses, Binding
    <3>2. Spelling(s, c) = IF c = "ORDER BY" THEN ", order" ELSE ", fetch"
      BY <2>1, <2>5, <3>1 DEF Spelling
    <3> QED BY <2>2, <2>5, <3>1, <3>2, PartEnds
  <2> QED BY <1>0, <2>3, <2>4, <2>5, PartOrder
<1> QED BY <1>1, <1>2

\* A clause in the order of the grammar keeps the statement complete.
LEMMA ClauseWritten ==
  ASSUME NEW s, Complete(s), NEW c \in Clauses, \A d \in Later(c) : ~Has(s, d),
         c \in Binding => ~Has(s, c)
  PROVE  LET r == s \o <<Spelling(s, c)>> IN
         /\ Complete(r)
         /\ \A d \in Parts : Has(r, d) <=> Has(s, d) \/ d = c
<1> DEFINE x == Spelling(s, c)
           r == s \o <<x>>
<1>0. s \in Seq(Tokens) /\ c \in Parts
  BY DEF Complete, Text, Parts
<1>1. /\ x \in Tokens /\ x \notin {"(", ")"} /\ x \notin Joiners
      /\ x \in Ends(c) /\ (x = c \/ (Has(s, c) /\ x \notin Parts))
  BY DEF Spelling, Clauses, Tokens, Joiners, Ends, Parts
<1>2. x \in Follows[LastOf(s)]
  BY ClauseFollows DEF Complete
<1>3. \A d : Has(r, d) <=> Has(s, d) \/ d = x
  BY <1>0, <1>1, HasMore
<1> HIDE DEF x
<1>4. Text(r) /\ LastOf(r) = x /\ Nest(r, Len(r)) = 0
  BY <1>1, <1>2, TopToken DEF Complete
<1> HIDE DEF r
<1>5. \A d \in Parts : Has(r, d) <=> Has(s, d) \/ d = c
  BY <1>1, <1>3
<1>6. ASSUME NEW d \in Parts, Has(r, d), \A e \in Later(d) : ~Has(r, e)
      PROVE  LastOf(r) \in Ends(d)
  <2>1. CASE d = c
    BY <1>1, <1>4, <2>1
  <2>2. CASE c \in Later(d)
    BY <1>0, <1>5, <1>6, <2>2
  <2>3. CASE d \in Later(c) /\ d # c
    BY <1>5, <1>6, <2>3
  <2> QED BY <1>0, <2>1, <2>2, <2>3, PartOrder
<1>7. Frontier(r)
  BY <1>0, <1>5, <1>6 DEF Frontier
<1> QED BY <1>4, <1>5, <1>7 DEF Complete, r, x

\* The end of a complete statement.
LEMMA EndWritten ==
  ASSUME NEW s, Complete(s)
  PROVE  LET r == s \o <<";">> IN
         /\ Text(r) /\ LastOf(r) = ";"
         /\ \A d \in Parts : Has(r, d) <=> Has(s, d)
<1>0. s \in Seq(Tokens)
  BY DEF Complete, Text
<1>1. ";" \in Tokens /\ ";" \notin Parts /\ ";" \notin Joiners /\ ";" \notin {"(", ")"}
  BY DEF Tokens, Parts, Clauses, Joiners
<1>2. ";" \in Follows[LastOf(s)]
  <2>1. CASE \A d \in Parts : ~Has(s, d)
    BY <2>1, Successors DEF Complete, Frontier
  <2>2. CASE \E d \in Parts : Has(s, d)
    <3>1. PICK d \in Parts : Has(s, d) /\ \A e \in Later(d) : ~Has(s, e)
      BY <2>2, LatestPart
    <3>2. LastOf(s) \in Ends(d)
      BY <3>1 DEF Complete, Frontier
    <3> QED BY <3>2, PartEnds
  <2> QED BY <2>1, <2>2
<1>3. \A d : Has(s \o <<";">>, d) <=> Has(s, d) \/ d = ";"
  BY <1>0, <1>1, HasMore
<1>4. Text(s \o <<";">>) /\ LastOf(s \o <<";">>) = ";"
  BY <1>1, <1>2, TopToken DEF Complete
<1> QED BY <1>1, <1>3, <1>4

-----------------------------------------------------------------------------
\* Writing a condition of the fluent surface.

\* A junction is written token by token.
LEMMA JunctionTokens ==
  ASSUME NEW s \in Seq(Tokens), NEW j \in Joiners
  PROVE  s \o <<"(", "cond", j, "raw", ")">>
            = ((((s \o <<"(">>) \o <<"cond">>) \o <<j>>) \o <<"raw">>) \o <<")">>
<1> DEFINE n == Len(s)
           u == <<"(", "cond", j, "raw", ")">>
           s1 == s \o <<"(">>
           s2 == s1 \o <<"cond">>
           s3 == s2 \o <<j>>
           s4 == s3 \o <<"raw">>
           s5 == s4 \o <<")">>
<1>0. /\ "(" \in Tokens /\ "cond" \in Tokens /\ j \in Tokens /\ "raw" \in Tokens
      /\ ")" \in Tokens
  BY DEF Tokens, Conditions, Joiners
<1>1. /\ n \in Nat /\ s1 \in Seq(Tokens) /\ Len(s1) = n + 1 /\ s1[n + 1] = "("
      /\ \A i \in 1..n : s1[i] = s[i]
  BY <1>0, Extended
<1>2. /\ s2 \in Seq(Tokens) /\ Len(s2) = Len(s1) + 1 /\ s2[Len(s1) + 1] = "cond"
      /\ \A i \in 1..Len(s1) : s2[i] = s1[i]
  BY <1>0, <1>1, Extended
<1>3. /\ s3 \in Seq(Tokens) /\ Len(s3) = Len(s2) + 1 /\ s3[Len(s2) + 1] = j
      /\ \A i \in 1..Len(s2) : s3[i] = s2[i]
  BY <1>0, <1>2, Extended
<1>4. /\ s4 \in Seq(Tokens) /\ Len(s4) = Len(s3) + 1 /\ s4[Len(s3) + 1] = "raw"
      /\ \A i \in 1..Len(s3) : s4[i] = s3[i]
  BY <1>0, <1>3, Extended
<1>5. /\ s5 \in Seq(Tokens) /\ Len(s5) = Len(s4) + 1 /\ s5[Len(s4) + 1] = ")"
      /\ \A i \in 1..Len(s4) : s5[i] = s4[i]
  BY <1>0, <1>4, Extended
<1>6. /\ u \in Seq(Tokens) /\ Len(u) = 5
      /\ u[1] = "(" /\ u[2] = "cond" /\ u[3] = j /\ u[4] = "raw" /\ u[5] = ")"
  BY <1>0
<1> HIDE DEF n, u, s1, s2, s3, s4, s5
<1> DEFINE w == s \o u
<1>7. /\ w \in Seq(Tokens) /\ Len(w) = n + 5
      /\ \A i \in 1..(n + 5) : w[i] = IF i <= n THEN s[i] ELSE u[i - n]
  <2>1. /\ s \o u \in Seq(Tokens) /\ Len(s \o u) = Len(s) + Len(u)
        /\ \A i \in 1 .. Len(s) + Len(u) : (s \o u)[i] = IF i <= Len(s) THEN s[i] ELSE u[i - Len(s)]
    BY <1>6, ConcatProperties
  <2> QED BY <1>6, <2>1 DEF n
<1> HIDE DEF w
<1>8. /\ Len(s5) = n + 5 /\ s5 \in Seq(Tokens)
      /\ \A i \in 1..n : s5[i] = s[i]
      /\ s5[n + 1] = "(" /\ s5[n + 2] = "cond" /\ s5[n + 3] = j
      /\ s5[n + 4] = "raw" /\ s5[n + 5] = ")"
  <2>1. Len(s1) = n + 1 /\ Len(s2) = n + 2 /\ Len(s3) = n + 3 /\ Len(s4) = n + 4 /\ Len(s5) = n + 5
    <3>1. Len(s2) = n + 2
      BY <1>1, <1>2
    <3>2. Len(s3) = n + 3
      BY <1>1, <1>3, <3>1
    <3>3. Len(s4) = n + 4
      BY <1>1, <1>4, <3>2
    <3>4. Len(s5) = n + 5
      BY <1>1, <1>5, <3>3
    <3> QED BY <1>1, <3>1, <3>2, <3>3, <3>4
  <2>2. \A i \in 1..(n + 1) : s2[i] = s1[i]
    BY <1>2, <2>1
  <2>3. \A i \in 1..(n + 2) : s3[i] = s2[i]
    BY <1>3, <2>1
  <2>4. \A i \in 1..(n + 3) : s4[i] = s3[i]
    BY <1>4, <2>1
  <2>5. \A i \in 1..(n + 4) : s5[i] = s4[i]
    BY <1>5, <2>1
  <2>6. s2[n + 2] = "cond" /\ s3[n + 3] = j /\ s4[n + 4] = "raw" /\ s5[n + 5] = ")"
    BY <1>1, <1>2, <1>3, <1>4, <1>5, <2>1
  <2>7. \A i \in 1..n : s5[i] = s[i]
    BY <1>1, <2>2, <2>3, <2>4, <2>5
  <2>8. s5[n + 1] = "(" /\ s5[n + 2] = "cond" /\ s5[n + 3] = j /\ s5[n + 4] = "raw"
    BY <1>1, <2>2, <2>3, <2>4, <2>5, <2>6
  <2> QED BY <1>5, <2>1, <2>6, <2>7, <2>8
<1>9. ASSUME NEW i \in 1..Len(w) PROVE w[i] = s5[i]
  <2>1. CASE i \in 1..n
    <3>1. i \in 1..(n + 5) /\ i <= n
      BY <1>1, <2>1
    <3>2. w[i] = s[i]
      BY <1>7, <3>1
    <3>3. s5[i] = s[i]
      BY <1>8, <2>1
    <3> QED BY <3>2, <3>3
  <2>2. w[n + 1] = "(" /\ w[n + 2] = "cond" /\ w[n + 3] = j /\ w[n + 4] = "raw" /\ w[n + 5] = ")"
    BY <1>1, <1>6, <1>7
  <2>3. CASE i = n + 1 \/ i = n + 2 \/ i = n + 3 \/ i = n + 4 \/ i = n + 5
    BY <1>8, <2>2, <2>3
  <2> QED BY <1>1, <1>7, <2>1, <2>3
<1>10. w = s5
  BY <1>7, <1>8, <1>9, SeqEqual
<1> QED BY <1>10 DEF u, w, s1, s2, s3, s4, s5

\* An expression where an operand is due, at the top.
LEMMA ExpressionWritten ==
  ASSUME NEW s, Text(s), Nest(s, Len(s)) = 0, Follows[LastOf(s)] = Operand,
         NEW e \in Expressions
  PROVE  LET r == s \o e IN
         /\ Text(r) /\ LastOf(r) \in Operands /\ Nest(r, Len(r)) = 0
         /\ \A d \in Parts : Has(r, d) <=> Has(s, d)
<1> DEFINE Goal(r) == /\ Text(r) /\ LastOf(r) \in Operands /\ Nest(r, Len(r)) = 0
                      /\ \A d \in Parts : Has(r, d) <=> Has(s, d)
<1>0. s \in Seq(Tokens)
  BY DEF Text
<1>1. ASSUME NEW c \in Conditions, e = <<c>> PROVE Goal(s \o e)
  <2>1. /\ c \in Tokens /\ c \in Operand /\ c \in Operands
        /\ c \notin Joiners /\ c \notin {"(", ")"} /\ c \notin Parts
    BY DEF Tokens, Conditions, Operand, Operands, Joiners, Parts, Clauses
  <2>2. \A d : Has(s \o <<c>>, d) <=> Has(s, d) \/ d = c
    BY <1>0, <2>1, HasMore
  <2>3. Text(s \o <<c>>) /\ LastOf(s \o <<c>>) = c /\ Nest(s \o <<c>>, Len(s \o <<c>>)) = 0
    BY <2>1, TopToken
  <2> QED BY <1>1, <2>1, <2>2, <2>3
<1>2. ASSUME NEW j \in Joiners, e = <<"(", "cond", j, "raw", ")">> PROVE Goal(s \o e)
  <2> DEFINE n == Len(s)
             s1 == s \o <<"(">>
             s2 == s1 \o <<"cond">>
             s3 == s2 \o <<j>>
             s4 == s3 \o <<"raw">>
             s5 == s4 \o <<")">>
  <2>0. /\ {"(", "cond", "raw", ")"} \subseteq Tokens /\ j \in Tokens
        /\ "cond" \in Operands /\ "raw" \in Operands /\ ")" \in Operands
        /\ "(" \in Operand /\ "cond" \in Operand /\ "raw" \in Operand
        /\ "(" \notin TopLevel /\ "cond" \notin TopLevel /\ j \notin TopLevel
        /\ "raw" \notin TopLevel /\ ")" \notin TopLevel
        /\ "(" \notin Joiners /\ "cond" \notin Joiners /\ "raw" \notin Joiners /\ ")" \notin Joiners
        /\ j \notin {"(", ")"}
        /\ "(" \notin Parts /\ "cond" \notin Parts /\ j \notin Parts /\ "raw" \notin Parts
        /\ ")" \notin Parts
    BY DEF Tokens, Conditions, Operand, Operands, Joiners, Parts, Clauses, TopLevel
  <2>1. /\ s1 \in Seq(Tokens) /\ n \in Nat /\ Len(s1) = n + 1
        /\ LastOf(s1) = "(" /\ s1[n + 1] = "("
        /\ \A k \in 0..n : Nest(s1, k) = Nest(s, k)
        /\ Nest(s1, n + 1) = 1
    <3>1. "(" \in Tokens
      BY <2>0
    <3>2. Nest(s1, Len(s) + 1) = Nest(s, Len(s)) + 1
      BY <1>0, <3>1, Extended
    <3> QED BY <1>0, <3>1, <3>2, Extended
  <2>2. Text(s1)
    BY <1>0, <2>0, TextAppend
  <2> HIDE DEF s1
  <2>3. /\ s2 \in Seq(Tokens) /\ Len(s2) = Len(s1) + 1 /\ LastOf(s2) = "cond"
        /\ s2[Len(s1) + 1] = "cond" /\ \A i \in 1..Len(s1) : s2[i] = s1[i]
        /\ \A k \in 0..Len(s1) : Nest(s2, k) = Nest(s1, k)
        /\ Nest(s2, Len(s1) + 1) = 1
    <3>1. "cond" \in Tokens /\ "cond" # "(" /\ "cond" # ")"
      BY <2>0
    <3>2. Nest(s2, Len(s1) + 1) = Nest(s1, Len(s1))
      <4>1. Nest(s2, Len(s1) + 1) = Nest(s1, Len(s1)) + 0
        BY <2>1, <3>1, Extended
      <4> QED BY <2>1, <4>1
    <3> QED BY <2>1, <3>1, <3>2, Extended
  <2>4. Text(s2)
    <3>1. "cond" \in Follows[LastOf(s1)]
      BY <2>0, <2>1, Successors
    <3> QED BY <2>0, <2>1, <2>2, <3>1, TextAppend
  <2> HIDE DEF s2
  <2>5. /\ s3 \in Seq(Tokens) /\ Len(s3) = Len(s2) + 1 /\ LastOf(s3) = j
        /\ Nest(s3, Len(s2) + 1) = 1
    <3>1. Nest(s3, Len(s2) + 1) = Nest(s2, Len(s2)) + 0
      BY <2>0, <2>3, Extended
    <3> QED BY <2>0, <2>1, <2>3, <3>1, Extended
  <2>6. Text(s3)
    <3>1. j \in Follows[LastOf(s2)]
      BY <2>0, <2>3, Successors
    <3>2. ASSUME NEW i \in 1..Len(s2), s2[i] \in Joiners, Nest(s2, i) = Nest(s2, Len(s2)),
                 Within(s2, i, Len(s2))
          PROVE  s2[i] = j
      <4>1. Nest(s2, Len(s2)) = 1 /\ Len(s2) = n + 2
        BY <2>1, <2>3
      <4>2. Nest(s2, n) = 0
        BY <2>1, <2>3
      <4>3. i > n
        <5>1. CASE i <= n
          <6>1. n \in i..Len(s2)
            BY <2>1, <4>1, <5>1
          <6> QED BY <3>2, <4>1, <4>2, <6>1 DEF Within
        <5> QED BY <2>1, <5>1
      <4>4. s2[n + 1] = "(" /\ s2[n + 2] = "cond"
        BY <2>1, <2>3
      <4>5. i = n + 1 \/ i = n + 2
        BY <2>1, <4>1, <4>3
      <4> QED BY <2>0, <3>2, <4>4, <4>5
    <3>3. Nest(s2, Len(s2)) # 0
      BY <2>3
    <3>4. Fits(s2, j)
      BY <3>2, <3>3 DEF Fits
    <3> QED BY <2>0, <2>3, <2>4, <3>1, <3>4, TextAppend
  <2> HIDE DEF s3
  <2>7. /\ s4 \in Seq(Tokens) /\ Len(s4) = Len(s3) + 1 /\ LastOf(s4) = "raw"
        /\ Nest(s4, Len(s3) + 1) = 1
    <3>1. Nest(s4, Len(s3) + 1) = Nest(s3, Len(s3)) + 0
      BY <2>0, <2>5, Extended
    <3> QED BY <2>0, <2>1, <2>3, <2>5, <3>1, Extended
  <2>8. Text(s4)
    <3>1. "raw" \in Follows[LastOf(s3)]
      BY <2>0, <2>5, Successors
    <3> QED BY <2>0, <2>5, <2>6, <3>1, TextAppend
  <2> HIDE DEF s4
  <2>9. s5 \in Seq(Tokens) /\ Len(s5) = Len(s4) + 1 /\ LastOf(s5) = ")" /\ Nest(s5, Len(s5)) = 0
    <3>1. Nest(s5, Len(s4) + 1) = Nest(s4, Len(s4)) + (-1)
      BY <2>0, <2>7, Extended
    <3>2. s5 \in Seq(Tokens) /\ Len(s5) = Len(s4) + 1 /\ LastOf(s5) = ")"
      BY <2>0, <2>7, Extended
    <3> QED BY <2>1, <2>3, <2>5, <2>7, <3>1, <3>2
  <2>10. Text(s5)
    <3>1. ")" \in Follows[LastOf(s4)]
      BY <2>0, <2>7, Successors
    <3> QED BY <2>0, <2>7, <2>8, <3>1, TextAppend
  <2> HIDE DEF s5
  <2>11. ASSUME NEW d \in Parts PROVE Has(s5, d) <=> Has(s, d)
    <3>1. Has(s1, d) <=> Has(s, d) \/ d = "("
      BY <1>0, <2>0, HasMore DEF s1
    <3>2. Has(s2, d) <=> Has(s1, d) \/ d = "cond"
      BY <2>0, <2>1, HasMore DEF s2
    <3>3. Has(s3, d) <=> Has(s2, d) \/ d = j
      BY <2>0, <2>3, HasMore DEF s3
    <3>4. Has(s4, d) <=> Has(s3, d) \/ d = "raw"
      BY <2>0, <2>5, HasMore DEF s4
    <3>5. Has(s5, d) <=> Has(s4, d) \/ d = ")"
      BY <2>0, <2>7, HasMore DEF s5
    <3> QED BY <2>0, <3>1, <3>2, <3>3, <3>4, <3>5
  <2>12. s \o e = s5
    <3>1. s \o <<"(", "cond", j, "raw", ")">>
            = ((((s \o <<"(">>) \o <<"cond">>) \o <<j>>) \o <<"raw">>) \o <<")">>
      BY <1>0, JunctionTokens
    <3> QED BY <1>2, <3>1 DEF s1, s2, s3, s4, s5
  <2> QED BY <2>0, <2>9, <2>10, <2>11, <2>12
<1>3. \/ \E c \in Conditions : e = <<c>>
      \/ \E j \in Joiners : e = <<"(", "cond", j, "raw", ")">>
  BY DEF Expressions, Conditions
<1> HIDE DEF Goal
<1>4. Goal(s \o e)
  BY <1>1, <1>2, <1>3
<1> QED BY <1>4 DEF Goal

-----------------------------------------------------------------------------
\* Writing inside guards.

\* Every guard of gs recorded the place of its opener in s.
Marked(s, gs) ==
    \A p \in 1..Len(gs) : gs[p].open \in 1..Len(s) /\ s[gs[p].open] = Opener(gs[p].kind)

\* One step back.
LEMMA NestStep ==
  ASSUME NEW s, NEW n \in Nat
  PROVE  Nest(s, n + 1)
            = Nest(s, n) + (IF s[n + 1] = "(" THEN 1 ELSE IF s[n + 1] = ")" THEN -1 ELSE 0)
<1>1. /\ Counted(s, {"("}, n + 1) = Counted(s, {"("}, n) + (IF s[n + 1] \in {"("} THEN 1 ELSE 0)
      /\ Counted(s, {")"}, n + 1) = Counted(s, {")"}, n) + (IF s[n + 1] \in {")"} THEN 1 ELSE 0)
  BY CountedStep
<1>2. Counted(s, {"("}, n) \in Nat /\ Counted(s, {")"}, n) \in Nat
  BY CountedType
<1> DEFINE a == Counted(s, {"("}, n)
           b == Counted(s, {")"}, n)
<1>3. Nest(s, n) = a - b /\ Nest(s, n + 1) = Counted(s, {"("}, n + 1) - Counted(s, {")"}, n + 1)
  BY DEF Nest
<1> HIDE DEF a, b
<1>4. CASE s[n + 1] = "("
  <2>1. Counted(s, {"("}, n + 1) = a + 1 /\ Counted(s, {")"}, n + 1) = b
    BY <1>1, <1>2, <1>4 DEF a, b
  <2> QED BY <1>2, <1>3, <1>4, <2>1 DEF a, b
<1>5. CASE s[n + 1] = ")"
  <2>1. Counted(s, {"("}, n + 1) = a /\ Counted(s, {")"}, n + 1) = b + 1
    BY <1>1, <1>2, <1>5 DEF a, b
  <2> QED BY <1>2, <1>3, <1>5, <2>1 DEF a, b
<1>6. CASE s[n + 1] # "(" /\ s[n + 1] # ")"
  <2>1. Counted(s, {"("}, n + 1) = a /\ Counted(s, {")"}, n + 1) = b
    BY <1>1, <1>2, <1>6 DEF a, b
  <2> QED BY <1>2, <1>3, <1>6, <2>1 DEF a, b
<1> QED BY <1>4, <1>5, <1>6

\* The joiner of the innermost guard is the one that goes there.
LEMMA GuardFits ==
  ASSUME NEW s, Text(s), NEW gs \in Seq(Guard), gs # <<>>, Scopes(gs), Levels(s, gs),
         Marked(s, gs), Nest(s, Len(s)) = Len(gs) - 1
  PROVE  gs[Len(gs)].joiner \in Joiners /\ Fits(s, gs[Len(gs)].joiner)
<1> DEFINE n == Len(gs)
           g == gs[n]
<1>0. s \in Seq(Tokens) /\ Len(s) \in Nat /\ n \in Nat \ {0} /\ n \in 1..n
  <2>1. s \in Seq(Tokens)
    BY DEF Text
  <2>2. Len(s) \in Nat /\ n \in Nat
    BY <2>1, LenProperties
  <2>3. n # 0
    BY EmptySeq
  <2> QED BY <2>1, <2>2, <2>3
<1>1. /\ g \in Guard /\ g.open \in 1..Len(s) /\ s[g.open] = Opener(g.kind)
      /\ (g.kind = "where" <=> n = 1) /\ (n = 1 => g.joiner = "AND")
      /\ Nest(s, g.open) = n - 1
      /\ \A i \in (g.open + 1)..Len(s) :
            s[i] \in Joiners /\ Nest(s, i) = n - 1 => s[i] = g.joiner
  BY <1>0, ElementOfSeq DEF Marked, Scopes, Levels
<1>2. g.joiner \in Joiners /\ g.kind \in {"where", "group"}
  BY <1>1 DEF Guard
<1> HIDE DEF n, g
<1>3. CASE n = 1
  <2>1. Nest(s, Len(s)) = 0 /\ g.joiner = "AND"
    BY <1>1, <1>3 DEF n
  <2>2. \A i \in 1..Len(s) : s[i] \in Joiners /\ Nest(s, i) = 0 => s[i] = "AND"
    BY DEF Text, Agreeing
  <2> QED BY <1>2, <2>1, <2>2 DEF Fits, g, n
<1>4. CASE n # 1
  <2>1. s[g.open] = "("
    BY <1>1, <1>2, <1>4 DEF Opener
  <2> DEFINE m == g.open - 1
  <2>2. m \in Nat /\ m + 1 = g.open
    BY <1>1
  <2> HIDE DEF m
  <2>3. Nest(s, m + 1) = Nest(s, m) + 1 /\ Nest(s, m) \in Int
    <3>1. s[m + 1] = "("
      BY <2>1, <2>2
    <3>2. Nest(s, m + 1)
            = Nest(s, m) + (IF s[m + 1] = "(" THEN 1 ELSE IF s[m + 1] = ")" THEN -1 ELSE 0)
      BY <2>2, NestStep
    <3>3. m \in Int
      BY <2>2
    <3>4. Nest(s, m) \in Int
      BY <3>3, NestType
    <3> QED BY <3>1, <3>2, <3>4
  <2>4. Nest(s, m) = n - 2
    BY <1>0, <1>1, <2>2, <2>3
  <2>5. ASSUME NEW i \in 1..Len(s), s[i] \in Joiners, Nest(s, i) = Nest(s, Len(s)),
               Within(s, i, Len(s))
        PROVE  s[i] = g.joiner
    <3>1. Nest(s, i) = n - 1
      BY <2>5 DEF n
    <3>2. CASE i <= m
      <4>1. m \in i..Len(s)
        BY <1>0, <1>1, <2>2, <3>2
      <4>2. Nest(s, m) >= Nest(s, i)
        BY <2>5, <4>1 DEF Within
      <4> QED BY <1>0, <2>4, <3>1, <4>2
    <3>3. CASE i = g.open
      BY <2>1, <2>5, <3>3 DEF Joiners
    <3>4. CASE i > g.open
      <4>1. i \in (g.open + 1)..Len(s)
        BY <1>1, <3>4
      <4> QED BY <1>1, <2>5, <3>1, <4>1
    <3> QED BY <1>1, <2>2, <3>2, <3>3, <3>4
  <2>6. Nest(s, Len(s)) # 0
    BY <1>0, <1>4 DEF n
  <2> QED BY <1>2, <2>5, <2>6 DEF Fits, g, n
<1> QED BY <1>3, <1>4

\* What goes on inside the innermost guard leaves the joiners of each.
LEMMA LevelsMore ==
  ASSUME NEW s \in Seq(Tokens), NEW gs \in Seq(Guard), Levels(s, gs), Marked(s, gs),
         NEW x \in Tokens,
         x \in Joiners => Nest(s, Len(s)) = Len(gs) - 1 /\ x = gs[Len(gs)].joiner
  PROVE  Levels(s \o <<x>>, gs) /\ Marked(s \o <<x>>, gs)
<1> DEFINE r == s \o <<x>>
           n == Len(s)
<1>1. /\ n \in Nat /\ Len(r) = n + 1 /\ \A i \in 1..n : r[i] = s[i]
      /\ r[n + 1] = x
      /\ \A k \in 0..n : Nest(r, k) = Nest(s, k)
      /\ Nest(r, n + 1) = Nest(s, n) + (IF x = "(" THEN 1 ELSE IF x = ")" THEN -1 ELSE 0)
      /\ Nest(s, n) \in Int
  BY Extended
<1>2. x \in Joiners => Nest(r, n + 1) = Nest(s, n)
  <2>1. x \in Joiners => x # "(" /\ x # ")"
    BY DEF Joiners
  <2> QED BY <1>1, <2>1
<1>3. Len(gs) \in Nat
  BY LenProperties
<1> HIDE DEF r, n
<1>4. ASSUME NEW p \in 1..Len(gs)
      PROVE  /\ Nest(r, gs[p].open) = p - 1
             /\ gs[p].open \in 1..Len(r) /\ r[gs[p].open] = Opener(gs[p].kind)
  <2>1. gs[p].open \in 1..n /\ s[gs[p].open] = Opener(gs[p].kind) /\ Nest(s, gs[p].open) = p - 1
    BY DEF Marked, Levels, n
  <2> QED BY <1>1, <2>1
<1>5. ASSUME NEW p \in 1..Len(gs), NEW i \in (gs[p].open + 1)..Len(r),
             r[i] \in Joiners, Nest(r, i) = p - 1
      PROVE  r[i] = gs[p].joiner
  <2>1. gs[p].open \in 1..n
    BY DEF Marked, n
  <2>2. CASE i <= n
    <3>1. i \in 1..n /\ i \in (gs[p].open + 1)..n /\ i \in 0..n
      BY <1>1, <2>1, <2>2
    <3>2. r[i] = s[i] /\ Nest(s, i) = p - 1
      BY <1>1, <1>5, <3>1
    <3> QED BY <1>5, <3>1, <3>2 DEF Levels, n
  <2>3. CASE i = n + 1
    <3>1. x \in Joiners /\ Nest(s, n) = p - 1
      BY <1>1, <1>2, <1>5, <2>3
    <3>2. Nest(s, n) = Len(gs) - 1 /\ x = gs[Len(gs)].joiner
      BY <3>1 DEF n
    <3>3. p = Len(gs)
      BY <1>3, <3>1, <3>2
    <3> QED BY <1>1, <2>3, <3>2, <3>3
  <2> QED BY <1>1, <2>1, <2>2, <2>3
<1> QED BY <1>4, <1>5 DEF Levels, Marked, r

\* And there is still one WHERE, with nothing of what goes after it.
LEMMA SingleMore ==
  ASSUME NEW s \in Seq(Tokens), NEW gs, Single(s, gs), NEW x \in Tokens, x \notin Parts
  PROVE  Single(s \o <<x>>, gs)
<1> DEFINE r == s \o <<x>>
<1>1. \A c \in Clauses : ~Has(r, c)
  <2>1. ASSUME NEW c \in Clauses PROVE ~Has(r, c)
    <3>1. c \in Parts /\ ~Has(s, c)
      BY DEF Parts, Single
    <3>2. Has(r, c) <=> Has(s, c) \/ c = x
      BY HasMore
    <3> QED BY <3>1, <3>2
  <2> QED BY <2>1
<1>2. /\ Len(s) \in Nat /\ Len(r) = Len(s) + 1 /\ \A i \in 1..Len(s) : r[i] = s[i]
      /\ r[Len(s) + 1] = x
  BY Extended
<1>3. x # "WHERE"
  BY DEF Parts
<1> HIDE DEF r
<1>4. ASSUME NEW i \in 1..Len(r), r[i] = "WHERE" PROVE i = gs[1].open
  <2>1. i \in 1..Len(s) /\ s[i] = "WHERE"
    BY <1>2, <1>3, <1>4
  <2> QED BY <2>1 DEF Single
<1> QED BY <1>1, <1>4 DEF Single, r

\* As many groups are open as there are guards inside the first.
LEMMA ScopedGroups ==
  ASSUME NEW gs \in Seq(Guard), Scopes(gs), gs # <<>>
  PROVE  Groups(gs) = Len(gs) - 1
<1> DEFINE n == Len(gs)
           kinds == [i \in 1..n |-> gs[i].kind]
<1>1. n \in Nat /\ n # 0
  BY LenProperties, EmptySeq
<1>2. ASSUME NEW k \in 1..n PROVE kinds[k] \in {"group"} <=> k # 1
  <2>1. gs[k] \in Guard
    BY ElementOfSeq
  <2>2. gs[k].kind \in {"where", "group"} /\ (gs[k].kind = "where" <=> k = 1)
    BY <2>1 DEF Guard, Scopes
  <2> QED BY <2>2
<1> HIDE DEF kinds, n
<1>3. Found(kinds, {"group"}, n) = 2..n
  BY <1>1, <1>2 DEF Found
<1>4. Cardinality(2..n) = IF 2 > n THEN 0 ELSE n - 2 + 1
  BY <1>1, FS_Interval
<1>5. Cardinality(2..n) = n - 1
  BY <1>1, <1>4
<1> QED BY <1>3, <1>5 DEF Groups, Counted, kinds, n


-----------------------------------------------------------------------------
\* What the parts of the invariant say together.

\* The text is nested as deep as the groups that are alive.
LEMMA StandsAt ==
  ASSUME IInv, Scopes(guards)
  PROVE  /\ Nest(buf, Len(buf)) = IF guards = <<>> THEN 0 ELSE Len(guards) - 1
         /\ Marked(buf, guards)
         /\ buf \in Seq(Tokens) /\ guards \in Seq(Guard)
         /\ Len(buf) \in Nat /\ Len(guards) \in Nat
         /\ guards # <<>> <=> Len(guards) # 0
<1>1. /\ buf \in Seq(Tokens) /\ guards \in Seq(Guard)
      /\ Nest(buf, Len(buf)) = Groups(guards)
  BY DEF IInv, TextAgrees, Nested
<1>2. Marked(buf, guards)
  BY DEF IInv, TextAgrees, Marks, Marked
<1>3. guards = <<>> => Groups(guards) = 0
  BY CountedNone DEF Groups
<1>4. guards # <<>> => Groups(guards) = Len(guards) - 1
  BY <1>1, ScopedGroups
<1>5. Len(buf) \in Nat /\ Len(guards) \in Nat /\ (guards # <<>> <=> Len(guards) # 0)
  BY <1>1, LenProperties, EmptySeq
<1> QED BY <1>1, <1>2, <1>3, <1>4, <1>5

\* finish_fields() closes the projection, or finds it closed: a clause may
\* follow, or the end.
LEMMA AfterFrom ==
  ASSUME IInv, Grammatical, ~Ended, guards = <<>>
  PROVE  LET t == buf \o FromClause IN
         /\ Complete(t)
         /\ \A c \in Parts : Has(t, c) <=> Has(buf, c)
<1> DEFINE t == buf \o FromClause
<1>0. /\ Text(buf) /\ Nest(buf, Len(buf)) = 0 /\ buf \in Seq(Tokens)
      /\ writer.from => Frontier(buf)
      /\ ~writer.from => Projecting(buf, writer, guards)
  BY StandsAt DEF Grammatical, Phase
<1>1. CASE writer.from
  <2>1. t = buf
    BY <1>0, <1>1, ConcatEmptySeq DEF FromClause
  <2> QED BY <1>0, <1>1, <2>1 DEF Complete
<1>2. ASSUME NEW s, Text(s), Nest(s, Len(s)) = 0, "FROM" \in Follows[LastOf(s)],
             \A c \in Parts : ~Has(s, c)
      PROVE  Complete(s \o <<"FROM">>) /\ \A c \in Parts : ~Has(s \o <<"FROM">>, c)
  <2>1. /\ "FROM" \in Tokens /\ "FROM" \notin {"(", ")"}
        /\ "FROM" \notin Joiners /\ "FROM" \notin Parts
    BY DEF Tokens, Joiners, Parts, Clauses
  <2>2. /\ Text(s \o <<"FROM">>) /\ LastOf(s \o <<"FROM">>) = "FROM"
        /\ Nest(s \o <<"FROM">>, Len(s \o <<"FROM">>)) = 0
    BY <1>2, <2>1, TopToken
  <2>3. s \in Seq(Tokens)
    BY <1>2 DEF Text
  <2>4. \A c : Has(s \o <<"FROM">>, c) <=> Has(s, c) \/ c = "FROM"
    BY <2>1, <2>3, HasMore
  <2>5. \A c \in Parts : ~Has(s \o <<"FROM">>, c)
    BY <1>2, <2>1, <2>4
  <2> QED BY <2>2, <2>5 DEF Complete, Frontier
<1>3. CASE ~writer.from /\ writer.anyField
  <2>1. t = buf \o <<"FROM">>
    BY <1>3 DEF FromClause
  <2>2. LastOf(buf) \in {"field", ", field"} /\ \A c \in Parts : ~Has(buf, c)
    BY <1>0, <1>3 DEF Projecting
  <2>3. "FROM" \in Follows[LastOf(buf)]
    BY <2>2, Successors
  <2> QED BY <1>0, <1>2, <2>1, <2>2, <2>3
<1>4. CASE ~writer.from /\ ~writer.anyField
  <2> DEFINE s == buf \o <<"*">>
  <2>1. LastOf(buf) = "SELECT" /\ \A c \in Parts : ~Has(buf, c)
    BY <1>0, <1>4 DEF Projecting
  <2>2. "*" \in Tokens /\ "*" \notin {"(", ")"} /\ "*" \notin Joiners /\ "*" \notin Parts
    BY DEF Tokens, Joiners, Parts, Clauses
  <2>3. "*" \in Follows[LastOf(buf)]
    BY <2>1, Successors
  <2>4. Text(s) /\ LastOf(s) = "*" /\ Nest(s, Len(s)) = 0
    BY <1>0, <2>2, <2>3, TopToken
  <2>5. \A c : Has(s, c) <=> Has(buf, c) \/ c = "*"
    BY <1>0, <2>2, HasMore
  <2>6. \A c \in Parts : ~Has(s, c)
    BY <2>1, <2>2, <2>5
  <2>7. "FROM" \in Follows[LastOf(s)]
    BY <2>4, Successors
  <2>8. t = s \o <<"FROM">>
    <3>1. <<"*">> \in Seq(Tokens) /\ <<"FROM">> \in Seq(Tokens)
      BY DEF Tokens
    <3>2. <<"*">> \o <<"FROM">> = <<"*", "FROM">>
      <4> DEFINE u == <<"*">> \o <<"FROM">>
                 v == <<"*", "FROM">>
      <4>1. u \in Seq(Tokens) /\ Len(u) = 2 /\ u[1] = "*" /\ u[2] = "FROM"
        <5>1. /\ u \in Seq(Tokens) /\ Len(u) = 1 + 1
              /\ \A i \in 1 .. 1 + 1 : u[i] = IF i <= 1 THEN <<"*">>[i] ELSE <<"FROM">>[i - 1]
          BY <3>1, ConcatProperties
        <5> QED BY <5>1
      <4>2. v \in Seq(Tokens) /\ Len(v) = 2 /\ v[1] = "*" /\ v[2] = "FROM"
        BY DEF Tokens
      <4> HIDE DEF u, v
      <4>3. \A i \in 1..2 : u[i] = v[i]
        <5>1. ASSUME NEW i \in 1..2 PROVE i = 1 \/ i = 2
          OBVIOUS
        <5> QED BY <4>1, <4>2, <5>1
      <4>4. u = v
        BY <4>1, <4>2, <4>3, SeqEqual
      <4> QED BY <4>4 DEF u, v
    <3>3. s \o <<"FROM">> = buf \o (<<"*">> \o <<"FROM">>)
      BY <1>0, <3>1, TextAssociates
    <3> QED BY <1>4, <3>2, <3>3 DEF FromClause
  <2> HIDE DEF s
  <2>9. Complete(s \o <<"FROM">>) /\ \A c \in Parts : ~Has(s \o <<"FROM">>, c)
    BY <1>2, <2>4, <2>6, <2>7
  <2> QED BY <2>1, <2>8, <2>9
<1> QED BY <1>1, <1>3, <1>4

\* A client that has taken no liberty has not met any.
LEMMA NoLiberty ==
  ASSUME NEW conditions, Took(conditions), liberties' = {}
  PROVE  liberties = {} /\ \A l \in DOMAIN conditions : ~conditions[l]
  BY DEF Took

\* A statement that is being written has not ended.
LEMMA NotEnded ==
  ASSUME Building, surface = "guards" => selectOpen
  PROVE  ~Ended /\ ~Ended'
  BY DEF Building, Ended

\* With no guard alive, the statement is grammatical when it is complete.
LEMMA TopGrammar ==
  ASSUME guards' = <<>>, ~Ended', writer'.from, Complete(buf'),
         Remembered(buf, writer, whereDone, guards)'
  PROVE  Grammatical'
<1>1. Len(guards') = 0
  OBVIOUS
<1>2. Scopes(guards') /\ Levels(buf', guards')
  BY <1>1 DEF Scopes, Levels
<1> QED BY <1>2 DEF Grammatical, Complete, Phase

-----------------------------------------------------------------------------
\* What every action does to the grammar.

\* field(): the list of fields goes on.
LEMMA FieldGrammar ==
  ASSUME IInv, Grammatical, NEW bad \in BOOLEAN, Field(bad), liberties' = {}, ~failed'
  PROVE  Grammatical'
<1> DEFINE x == IF writer.anyField THEN ", field" ELSE "field"
<1>1. /\ Building /\ (surface = "guards" => selectOpen)
      /\ Latch(writer.depth, guards # <<>>, bad /\ CanWrite(writer.depth))
      /\ Took([out_of_order |-> writer.from])
      /\ UNCHANGED <<guards, whereDone>>
  BY DEF Field
<1>2. CanWrite(writer.depth) /\ guards = <<>>
  BY <1>1, OuterWriter DEF Latch, CanWrite, IInv
<1>3. buf' = Append(buf, x) /\ writer' = [writer EXCEPT !.anyField = TRUE]
  BY <1>2 DEF Field
<1>4. ~writer.from
  <2>1. \A l \in DOMAIN [out_of_order |-> writer.from] : ~[out_of_order |-> writer.from][l]
    BY <1>1, NoLiberty
  <2> QED BY <2>1
<1>5. Projecting(buf, writer, guards)
  BY <1>4 DEF Grammatical, Phase
<1>6. x \in Tokens /\ x \notin {"(", ")"} /\ x \notin Joiners /\ x \notin Parts
  BY DEF Tokens, Joiners, Parts, Clauses
<1>7. x \in Follows[LastOf(buf)]
  BY <1>5, Successors DEF Projecting
<1>8. /\ writer'.anyField /\ writer'.from = writer.from
      /\ writer'.ordered = writer.ordered /\ writer'.fetched = writer.fetched
  BY <1>3 DEF IInv, TypeOK
<1>9. x \in {"field", ", field"}
  OBVIOUS
<1> HIDE DEF x
<1>10. buf \in Seq(Tokens) /\ Nest(buf, Len(buf)) = 0 /\ Text(buf)
  BY <1>2, StandsAt DEF Grammatical
<1>11. buf' = buf \o <<x>>
  BY <1>3, <1>6, <1>10, AppendIsConcat
<1>12. Text(buf') /\ LastOf(buf') = x
  BY <1>6, <1>7, <1>10, <1>11, TopToken
<1>13. \A c : Has(buf', c) <=> Has(buf, c) \/ c = x
  BY <1>6, <1>10, <1>11, HasMore
<1>14. \A c \in Parts : Has(buf', c) <=> Has(buf, c)
  BY <1>6, <1>13
<1>15. Remembered(buf', writer', whereDone', guards')
  <2>1. "ORDER BY" \in Parts /\ "FETCH" \in Parts /\ "WHERE" \in Parts
    BY DEF Parts, Clauses
  <2>2. Remembered(buf, writer, whereDone, guards)
    BY DEF Grammatical
  <2> QED BY <1>1, <1>8, <1>14, <2>1, <2>2 DEF Remembered
<1>16. Projecting(buf', writer', guards')
  BY <1>1, <1>2, <1>5, <1>8, <1>9, <1>12, <1>14 DEF Projecting
<1>17. ~Ended'
  BY <1>1, NotEnded
<1>18. Len(guards') = 0 /\ guards' = <<>>
  BY <1>1, <1>2
<1>19. Scopes(guards') /\ Levels(buf', guards')
  BY <1>18 DEF Scopes, Levels
<1> QED BY <1>4, <1>8, <1>12, <1>15, <1>16, <1>17, <1>18, <1>19 DEF Grammatical, Phase

\* order_by(), limit(), start() and fetch(), in their order.
LEMMA ClauseGrammar ==
  ASSUME IInv, Grammatical, NEW c \in Clauses, NEW bad \in BOOLEAN, Clause(c, bad),
         liberties' = {}, ~failed'
  PROVE  Grammatical'
<1> DEFINE t == buf \o FromClause
           Early == WrittenAny(Later(c)) \/ (c \in Binding /\ Written(c))
<1>1. /\ Building /\ (surface = "guards" => selectOpen)
      /\ Latch(writer.depth, guards # <<>>, FromFails \/ (bad /\ CanWriteClause))
      /\ Took([out_of_order |-> Early])
      /\ UNCHANGED <<guards, whereDone>>
  BY DEF Clause
<1>2. CanWriteClause /\ guards = <<>>
  BY <1>1, OuterWriter DEF Latch, CanWrite, CanWriteClause, IInv
<1>3. /\ buf' = t \o <<ClauseText(c)>>
      /\ writer' = [writer EXCEPT !.from = TRUE,
                                  !.ordered = @ \/ c = "ORDER BY",
                                  !.fetched = @ \/ c = "FETCH"]
  BY <1>2 DEF Clause
<1>4. ~Early
  <2> HIDE DEF Early
  <2>1. \A l \in DOMAIN [out_of_order |-> Early] : ~[out_of_order |-> Early][l]
    BY <1>1, NoLiberty
  <2> QED BY <2>1
<1>5. ~Ended /\ ~Ended'
  BY <1>1, NotEnded
<1>6. Complete(t) /\ \A d \in Parts : Has(t, d) <=> Has(buf, d)
  BY <1>2, <1>5, AfterFrom
<1> HIDE DEF t
<1>7. /\ writer'.from
      /\ writer'.ordered = (writer.ordered \/ c = "ORDER BY")
      /\ writer'.fetched = (writer.fetched \/ c = "FETCH")
  BY <1>3 DEF IInv, TypeOK
<1>8. Remembered(buf, writer, whereDone, guards)
  BY DEF Grammatical
<1>9. /\ c \in Parts /\ Later(c) \subseteq Parts
      /\ "ORDER BY" \in Parts /\ "FETCH" \in Parts /\ "WHERE" \in Parts
  BY PartOrder DEF Parts, Clauses
<1>10. ClauseText(c) = Spelling(t, c)
  BY <1>6, <1>8, <1>9 DEF ClauseText, Spelling, Remembered
<1>11. (\A d \in Later(c) : ~Has(t, d)) /\ (c \in Binding => ~Has(t, c))
  BY <1>4, <1>6, <1>9 DEF WrittenAny, Written, Has
<1>12. Complete(buf') /\ \A d \in Parts : Has(buf', d) <=> Has(t, d) \/ d = c
  BY <1>3, <1>6, <1>10, <1>11, ClauseWritten
<1>13. Remembered(buf', writer', whereDone', guards')
  BY <1>1, <1>2, <1>6, <1>7, <1>8, <1>9, <1>12 DEF Remembered
<1> QED BY <1>1, <1>2, <1>5, <1>7, <1>12, <1>13, TopGrammar


\* A where_guard: the one WHERE, after the projection.
LEMMA OpenWhereGrammar ==
  ASSUME IInv, Grammatical, OpenWhere, liberties' = {}, ~failed'
  PROVE  Grammatical'
<1> DEFINE t == buf \o FromClause
           g == [kind |-> "where", joiner |-> "AND", depth |-> depth + 1, first |-> TRUE,
                 open |-> Len(t) + 1]
           Early == WrittenAny(Later("WHERE"))
           conditions == [out_of_order |-> Early, second_where |-> Written("WHERE"),
                          nested_where |-> guards # <<>>]
<1>1. /\ Building /\ (surface = "guards" => selectOpen)
      /\ buf' = t \o <<"WHERE">> /\ writer' = [writer EXCEPT !.from = TRUE]
      /\ guards' = Append(guards, g) /\ whereDone' = whereDone
      /\ Took(conditions)
  BY DEF OpenWhere, Push
<1>2. ~Early /\ ~Written("WHERE") /\ guards = <<>>
  <2> HIDE DEF Early
  <2>1. \A l \in DOMAIN conditions : ~conditions[l]
    <3> HIDE DEF conditions
    <3> QED BY <1>1, NoLiberty
  <2> QED BY <2>1
<1> HIDE DEF conditions
<1>3. ~Ended /\ ~Ended'
  BY <1>1, NotEnded
<1>4. Complete(t) /\ \A d \in Parts : Has(t, d) <=> Has(buf, d)
  BY <1>2, <1>3, AfterFrom
<1>5. g.open = Len(t) + 1 /\ g.first /\ g.joiner = "AND" /\ g.kind = "where"
  OBVIOUS
<1> HIDE DEF t, g
<1>6. \A d \in Parts : ~Has(t, d)
  BY <1>2, <1>4 DEF WrittenAny, Written, Has, Later, Parts, Clauses
<1>7. LastOf(t) = "FROM" /\ t \in Seq(Tokens) /\ Text(t) /\ Nest(t, Len(t)) = 0
  BY <1>4, <1>6 DEF Complete, Frontier, Text
<1>8. /\ "WHERE" \in Tokens /\ "WHERE" \notin {"(", ")"} /\ "WHERE" \notin Joiners
      /\ "WHERE" \in Follows["FROM"] /\ "WHERE" \notin Clauses
  BY Successors DEF Tokens, Joiners, Parts, Clauses
<1>9. Text(buf') /\ LastOf(buf') = "WHERE" /\ Nest(buf', Len(buf')) = 0
  BY <1>1, <1>7, <1>8, TopToken
<1>10. /\ Len(t) \in Nat /\ Len(buf') = Len(t) + 1
       /\ \A i \in 1..Len(t) : buf'[i] = t[i]
  BY <1>1, <1>7, <1>8, Extended
<1>11. \A c : Has(buf', c) <=> Has(t, c) \/ c = "WHERE"
  BY <1>1, <1>7, <1>8, HasMore
<1>12. guards' = <<g>> /\ Len(guards') = 1 /\ guards'[1] = g
  BY <1>1, <1>2
<1>13. Scopes(guards')
  BY <1>5, <1>12 DEF Scopes
<1>14. Levels(buf', guards')
  BY <1>5, <1>9, <1>10, <1>12 DEF Levels
<1>15. Filled(buf', guards')
  BY <1>5, <1>10, <1>12 DEF Filled
<1>16. Single(buf', guards')
  <2>1. \A c \in Clauses : ~Has(buf', c)
    BY <1>6, <1>8, <1>11 DEF Parts
  <2>2. ASSUME NEW i \in 1..Len(buf'), buf'[i] = "WHERE" PROVE i = guards'[1].open
    <3>1. CASE i \in 1..Len(t)
      BY <1>6, <1>10, <2>2, <3>1 DEF Has, Parts
    <3>2. CASE i = Len(t) + 1
      BY <1>5, <1>12, <3>2
    <3> QED BY <1>10, <3>1, <3>2
  <2> QED BY <2>1, <2>2 DEF Single
<1>17. writer'.from /\ writer'.ordered = writer.ordered /\ writer'.fetched = writer.fetched
  BY <1>1 DEF IInv, TypeOK
<1>18. Remembered(buf', writer', whereDone', guards')
  <2>1. Remembered(buf, writer, whereDone, guards)
    BY DEF Grammatical
  <2>2. "WHERE" \in Parts /\ "ORDER BY" \in Parts /\ "FETCH" \in Parts
    BY DEF Parts, Clauses
  <2>3. ~whereDone
    BY <1>4, <1>6, <2>1, <2>2 DEF Remembered
  <2> QED BY <1>1, <1>4, <1>11, <1>17, <2>1, <2>2, <2>3 DEF Remembered
<1>19. guards' # <<>>
  BY <1>12
<1> QED BY <1>3, <1>9, <1>13, <1>14, <1>15, <1>16, <1>17, <1>18, <1>19 DEF Grammatical, Phase

-----------------------------------------------------------------------------
\* Conditions and groups.

\* join() before the condition of the innermost guard: one may follow.
LEMMA Joining ==
  ASSUME IInv, Grammatical, guards # <<>>, CanWrite(guards[Len(guards)].depth)
  PROVE  LET s == buf \o Join(Len(guards)) IN
         /\ Text(s) /\ Follows[LastOf(s)] = Operand
         /\ Nest(s, Len(s)) = Len(guards) - 1
         /\ Levels(s, guards) /\ Marked(s, guards) /\ Single(s, guards)
         /\ \A c \in Parts : Has(s, c) <=> Has(buf, c)
<1> DEFINE n == Len(guards)
           s == buf \o Join(n)
           g == guards[n]
<1>0. /\ Text(buf) /\ buf \in Seq(Tokens) /\ guards \in Seq(Guard)
      /\ Nest(buf, Len(buf)) = n - 1 /\ Marked(buf, guards)
      /\ Scopes(guards) /\ Levels(buf, guards)
      /\ Filled(buf, guards) /\ Single(buf, guards)
      /\ n \in 1..n /\ n \in Nat
  <2>1. /\ Text(buf) /\ Scopes(guards) /\ Levels(buf, guards)
        /\ Filled(buf, guards) /\ Single(buf, guards)
    BY DEF Grammatical, Phase
  <2>2. /\ buf \in Seq(Tokens) /\ guards \in Seq(Guard) /\ Marked(buf, guards)
        /\ Nest(buf, Len(buf)) = Len(guards) - 1
        /\ Len(guards) \in Nat /\ Len(guards) # 0
    BY <2>1, StandsAt
  <2> QED BY <2>1, <2>2
<1>1. g \in Guard
  BY <1>0, ElementOfSeq
<1>2. CASE g.first
  <2>1. s = buf
    BY <1>0, <1>2, ConcatEmptySeq DEF Join
  <2>2. g.open = Len(buf) /\ buf[g.open] = Opener(g.kind)
    BY <1>0, <1>2 DEF Filled, Marked
  <2>3. LastOf(buf) = "WHERE" \/ LastOf(buf) = "("
    BY <2>2 DEF LastOf, Opener
  <2>4. Follows[LastOf(buf)] = Operand
    BY <2>3, Successors
  <2> QED BY <1>0, <2>1, <2>4
<1>3. CASE ~g.first
  <2> DEFINE x == g.joiner
  <2>1. s = buf \o <<x>>
    BY <1>3 DEF Join
  <2>2. x \in Joiners /\ Fits(buf, x)
    BY <1>0, GuardFits
  <2>3. x \in Tokens /\ x \notin TopLevel /\ x \notin Parts /\ x \notin {"(", ")"}
    BY <2>2 DEF Tokens, TopLevel, Joiners, Parts, Clauses
  <2>4. LastOf(buf) \in Operands
    BY <1>0, <1>3 DEF Filled
  <2>5. x \in Follows[LastOf(buf)]
    BY <2>2, <2>4, Successors
  <2>6. x = guards[Len(guards)].joiner
    OBVIOUS
  <2> HIDE DEF x, s
  <2>7. Text(s)
    BY <1>0, <2>1, <2>2, <2>3, <2>5, TextAppend
  <2>8. LastOf(s) = x
    BY <1>0, <2>1, <2>3, Extended
  <2>9. Follows[LastOf(s)] = Operand
    BY <2>2, <2>8, Successors
  <2>10. Nest(s, Len(s)) = n - 1
    <3>1. Nest(s, Len(buf) + 1) = Nest(buf, Len(buf)) + 0 /\ Len(s) = Len(buf) + 1
      BY <1>0, <2>1, <2>3, Extended
    <3> QED BY <1>0, <3>1
  <2>11. Levels(s, guards) /\ Marked(s, guards)
    BY <1>0, <2>1, <2>3, <2>6, LevelsMore
  <2>12. Single(s, guards)
    BY <1>0, <2>1, <2>3, SingleMore
  <2>13. \A c : Has(s, c) <=> Has(buf, c) \/ c = x
    BY <1>0, <2>1, <2>3, HasMore
  <2>14. \A c \in Parts : Has(s, c) <=> Has(buf, c)
    BY <2>3, <2>13
  <2> QED BY <2>7, <2>9, <2>10, <2>11, <2>12, <2>14 DEF s
<1> QED BY <1>2, <1>3

\* What join() leaves the guards with: the innermost has written a condition.
LEMMA JoinedGuards ==
  ASSUME IInv, Scopes(guards), guards # <<>>, CanWrite(guards[Len(guards)].depth)
  PROVE  LET hs == Joined(Len(guards)) IN
         /\ hs \in Seq(Guard) /\ Len(hs) = Len(guards) /\ Len(guards) \in Nat \ {0}
         /\ Scopes(hs) /\ \A p \in 1..Len(guards) : ~hs[p].first
         /\ hs[1].open = guards[1].open
         /\ \A s : Levels(s, guards) => Levels(s, hs)
         /\ \A s : Single(s, guards) => Single(s, hs)
<1> DEFINE n == Len(guards)
           g == [guards[n] EXCEPT !.first = FALSE]
           hs == Joined(n)
<1>0. guards \in Seq(Guard) /\ n \in Nat \ {0} /\ n \in 1..n /\ 1 \in 1..n
  BY StandsAt
<1>1. guards[n] \in Guard
  BY <1>0, ElementOfSeq
<1>2. /\ g \in Guard /\ ~g.first /\ g.kind = guards[n].kind /\ g.joiner = guards[n].joiner
      /\ g.open = guards[n].open
  BY <1>1 DEF Guard
<1>3. hs = [guards EXCEPT ![n] = g]
  BY DEF Joined
<1> HIDE DEF g
<1>4. /\ hs \in Seq(Guard) /\ Len(hs) = n
      /\ \A p \in 1..n : hs[p] = IF p = n THEN g ELSE guards[p]
  BY <1>0, <1>2, <1>3, ExceptSeq
<1> HIDE DEF hs
<1>5. ASSUME NEW p \in 1..n
      PROVE  /\ hs[p].kind = guards[p].kind /\ hs[p].joiner = guards[p].joiner
             /\ hs[p].open = guards[p].open
  BY <1>2, <1>4
<1>6. ASSUME NEW p \in 1..n PROVE ~hs[p].first
  <2>1. CASE p = n
    BY <1>2, <1>4, <2>1
  <2>2. CASE p # n
    BY <1>0, <1>4, <2>2 DEF Scopes
  <2> QED BY <2>1, <2>2
<1>7. Scopes(hs)
  BY <1>4, <1>5, <1>6 DEF Scopes
<1>8. ASSUME NEW s, Levels(s, guards) PROVE Levels(s, hs)
  BY <1>4, <1>5, <1>8 DEF Levels
<1>9. ASSUME NEW s, Single(s, guards) PROVE Single(s, hs)
  BY <1>0, <1>5, <1>9 DEF Single
<1> QED BY <1>0, <1>4, <1>5, <1>6, <1>7, <1>8, <1>9 DEF hs

\* A call that goes through, went through the innermost guard.
LEMMA Innermost ==
  ASSUME IInv, Grammatical, NEW i \in DOMAIN guards, ~(depth # guards[i].depth), ~failed
  PROVE  /\ i = Len(guards) /\ guards # <<>> /\ CanWrite(guards[i].depth)
         /\ surface = "guards" => selectOpen
         /\ writer.from
<1>1. guards \in Seq(Guard) /\ DOMAIN guards = 1..Len(guards)
  BY LenProperties DEF IInv, TypeOK
<1>2. i = Len(guards)
  BY <1>1, OuterGuard DEF IInv
<1>3. guards # <<>>
  BY <1>1, EmptySeq
<1>4. surface = "guards" => selectOpen
  BY <1>3 DEF IInv, DepthsAgree
<1>5. writer.from
  BY <1>3 DEF Grammatical, Phase, Projecting
<1> QED BY <1>2, <1>3, <1>4, <1>5 DEF CanWrite

\* A condition through a guard, which can only be the innermost.
LEMMA ConditionGrammar ==
  ASSUME IInv, Grammatical, NEW i \in DOMAIN guards, NEW x \in Conditions, NEW bad \in BOOLEAN,
         Condition(i, x, bad), liberties' = {}, ~failed'
  PROVE  Grammatical'
<1> DEFINE n == Len(guards)
           s == buf \o Join(n)
           hs == Joined(n)
<1>1. /\ Building /\ Latch(guards[i].depth, i # Len(guards), bad)
      /\ buf' = (buf \o Join(i)) \o <<x>> /\ guards' = Joined(i)
      /\ UNCHANGED <<writer, whereDone>>
  BY DEF Condition
<1>2. /\ i = n /\ guards # <<>> /\ CanWrite(guards[n].depth)
      /\ (surface = "guards" => selectOpen) /\ writer.from
  <2>1. ~failed /\ ~(depth # guards[i].depth)
    BY <1>1 DEF Latch
  <2> QED BY <2>1, Innermost
<1>3. buf' = s \o <<x>> /\ guards' = hs
  BY <1>1, <1>2
<1>4. ~Ended'
  BY <1>1, <1>2, NotEnded
<1>5. Scopes(guards) /\ Remembered(buf, writer, whereDone, guards)
  BY DEF Grammatical
<1>6. /\ Text(s) /\ Follows[LastOf(s)] = Operand
      /\ Levels(s, guards) /\ Marked(s, guards) /\ Single(s, guards)
      /\ \A c \in Parts : Has(s, c) <=> Has(buf, c)
  BY <1>2, Joining
<1>7. /\ hs \in Seq(Guard) /\ Len(hs) = n /\ n \in Nat \ {0}
      /\ Scopes(hs) /\ \A p \in 1..n : ~hs[p].first
      /\ \A r : Levels(r, guards) => Levels(r, hs)
      /\ \A r : Single(r, guards) => Single(r, hs)
  BY <1>2, <1>5, JoinedGuards
<1>8. s \in Seq(Tokens) /\ guards \in Seq(Guard)
  BY <1>6 DEF Text, IInv, TypeOK
<1> HIDE DEF s, hs, n
<1>9. /\ x \in Tokens /\ x \notin TopLevel /\ x \notin Joiners /\ x \notin Parts
      /\ x \in Operand /\ x \in Operands
  BY DEF Tokens, TopLevel, Joiners, Parts, Clauses, Operand, Operands, Conditions
<1>10. Text(buf')
  BY <1>3, <1>6, <1>8, <1>9, TextAppend
<1>11. LastOf(buf') = x
  BY <1>3, <1>8, <1>9, Extended
<1>12. Levels(buf', guards)
  BY <1>3, <1>6, <1>8, <1>9, LevelsMore
<1>13. Single(buf', guards)
  BY <1>3, <1>6, <1>8, <1>9, SingleMore
<1>14. \A c : Has(buf', c) <=> Has(s, c) \/ c = x
  BY <1>3, <1>8, <1>9, HasMore
<1>15. \A c \in Parts : Has(buf', c) <=> Has(buf, c)
  BY <1>6, <1>9, <1>14
<1>16. Levels(buf', guards') /\ Single(buf', guards') /\ Scopes(guards')
  BY <1>3, <1>7, <1>12, <1>13
<1>17. Filled(buf', guards')
  BY <1>3, <1>7, <1>9, <1>11 DEF Filled
<1>18. Remembered(buf', writer', whereDone', guards')
  <2>1. "WHERE" \in Parts /\ "ORDER BY" \in Parts /\ "FETCH" \in Parts
    BY DEF Parts, Clauses
  <2>2. ~whereDone
    BY <1>2, <1>5 DEF Remembered
  <2> QED BY <1>1, <1>5, <1>15, <2>1, <2>2 DEF Remembered
<1>19. guards' # <<>>
  BY <1>3, <1>7, EmptySeq
<1> QED BY <1>1, <1>2, <1>4, <1>10, <1>16, <1>17, <1>18, <1>19 DEF Grammatical, Phase


\* A new group is one level further in than the guards around it.
LEMMA LevelsGrow ==
  ASSUME NEW s, NEW hs \in Seq(Guard), Levels(s, hs), Len(hs) \in Nat,
         NEW g, g.open = Len(s), Nest(s, Len(s)) = Len(hs)
  PROVE  Levels(s, Append(hs, g))
<1> DEFINE gs == Append(hs, g)
           n == Len(hs)
<1>1. /\ Len(gs) = n + 1 /\ gs[n + 1] = g
      /\ \A p \in 1..n : gs[p] = hs[p]
  BY AppendProperties
<1> HIDE DEF gs, n
<1>2. ASSUME NEW p \in 1..Len(gs)
      PROVE  /\ Nest(s, gs[p].open) = p - 1
             /\ \A i \in (gs[p].open + 1)..Len(s) :
                   s[i] \in Joiners /\ Nest(s, i) = p - 1 => s[i] = gs[p].joiner
  <2>1. CASE p \in 1..n
    BY <1>1, <2>1 DEF Levels, n
  <2>2. CASE p = n + 1
    BY <1>1, <2>2 DEF n
  <2> QED BY <1>1, <2>1, <2>2 DEF n
<1> QED BY <1>2 DEF Levels, gs

\* A group through a guard, which can only be the innermost.
LEMMA OpenGroupGrammar ==
  ASSUME IInv, Grammatical, NEW i \in DOMAIN guards, NEW j \in Joiners, OpenGroup(i, j),
         liberties' = {}, ~failed'
  PROVE  Grammatical'
<1> DEFINE n == Len(guards)
           s == buf \o Join(n)
           hs == Joined(n)
           g == [kind |-> "group", joiner |-> j, depth |-> depth + 1, first |-> TRUE,
                 open |-> Len(s) + 1]
<1>1. /\ Building /\ Latch(guards[i].depth, i # Len(guards), FALSE)
      /\ buf' = (buf \o Join(i)) \o <<"(">>
      /\ guards' = Append(Joined(i), [kind |-> "group", joiner |-> j, depth |-> depth + 1,
                                      first |-> TRUE, open |-> Len(buf \o Join(i)) + 1])
      /\ UNCHANGED <<writer, whereDone>>
  BY DEF OpenGroup
<1>2. /\ i = n /\ guards # <<>> /\ CanWrite(guards[n].depth)
      /\ (surface = "guards" => selectOpen) /\ writer.from
  <2>1. ~failed /\ ~(depth # guards[i].depth)
    BY <1>1 DEF Latch
  <2> QED BY <2>1, Innermost
<1>3. buf' = s \o <<"(">> /\ guards' = Append(hs, g)
  BY <1>1, <1>2
<1>4. ~Ended'
  BY <1>1, <1>2, NotEnded
<1>5. Scopes(guards) /\ Remembered(buf, writer, whereDone, guards)
  BY DEF Grammatical
<1>6. /\ Text(s) /\ Follows[LastOf(s)] = Operand /\ Nest(s, Len(s)) = n - 1
      /\ Levels(s, guards) /\ Marked(s, guards) /\ Single(s, guards)
      /\ \A c \in Parts : Has(s, c) <=> Has(buf, c)
  BY <1>2, Joining
<1>7. /\ hs \in Seq(Guard) /\ Len(hs) = n /\ n \in Nat \ {0}
      /\ Scopes(hs) /\ \A p \in 1..n : ~hs[p].first
      /\ \A r : Levels(r, guards) => Levels(r, hs)
      /\ \A r : Single(r, guards) => Single(r, hs)
  BY <1>2, <1>5, JoinedGuards
<1>8. s \in Seq(Tokens) /\ guards \in Seq(Guard)
  BY <1>6 DEF Text, IInv, TypeOK
<1>9. g.open = Len(s) + 1 /\ g.first /\ g.kind = "group" /\ g \in Guard
  <2>1. Len(s) + 1 \in Nat
    BY <1>8, LenProperties
  <2>2. depth + 1 \in Nat
    BY DEF IInv, TypeOK
  <2> QED BY <2>1, <2>2 DEF Guard
<1> HIDE DEF s, hs, n, g
<1>10. /\ "(" \in Tokens /\ "(" \notin TopLevel /\ "(" \notin Joiners /\ "(" \notin Parts
       /\ "(" \in Operand
  BY DEF Tokens, TopLevel, Joiners, Parts, Clauses, Operand
<1>11. Text(buf')
  BY <1>3, <1>6, <1>8, <1>10, TextAppend
<1>12. Len(buf') = Len(s) + 1 /\ Nest(buf', Len(buf')) = n
  <2>1. Nest(buf', Len(s) + 1) = Nest(s, Len(s)) + 1 /\ Len(buf') = Len(s) + 1
    BY <1>3, <1>8, <1>10, Extended
  <2> QED BY <1>6, <1>7, <2>1
<1>13. Levels(buf', guards) /\ Single(buf', guards)
  BY <1>3, <1>6, <1>8, <1>10, LevelsMore, SingleMore
<1>14. \A c : Has(buf', c) <=> Has(s, c) \/ c = "("
  BY <1>3, <1>8, <1>10, HasMore
<1>15. \A c \in Parts : Has(buf', c) <=> Has(buf, c)
  BY <1>6, <1>10, <1>14
<1>16. /\ Len(guards') = n + 1 /\ guards'[n + 1] = g
       /\ \A p \in 1..n : guards'[p] = hs[p]
  BY <1>3, <1>7, <1>9, AppendProperties
<1>17. Levels(buf', guards')
  <2>1. Levels(buf', hs)
    BY <1>7, <1>13
  <2> QED BY <1>3, <1>7, <1>9, <1>12, <2>1, LevelsGrow
<1>18. Scopes(guards')
  <2>1. ASSUME NEW p \in 1..(n + 1)
        PROVE  /\ guards'[p].kind = "where" <=> p = 1
               /\ p = 1 => guards'[p].joiner = "AND"
               /\ p < n + 1 => ~guards'[p].first
    <3>1. CASE p \in 1..n
      BY <1>7, <1>16, <3>1 DEF Scopes
    <3>2. CASE p = n + 1
      BY <1>7, <1>9, <1>16, <3>2
    <3> QED BY <1>7, <3>1, <3>2
  <2> QED BY <1>16, <2>1 DEF Scopes
<1>19. Filled(buf', guards')
  BY <1>9, <1>12, <1>16 DEF Filled
<1>20. Single(buf', guards')
  <2>1. Single(buf', hs)
    BY <1>7, <1>13
  <2>2. guards'[1] = hs[1]
    BY <1>7, <1>16
  <2> QED BY <2>1, <2>2 DEF Single
<1>21. Remembered(buf', writer', whereDone', guards')
  <2>1. "WHERE" \in Parts /\ "ORDER BY" \in Parts /\ "FETCH" \in Parts
    BY DEF Parts, Clauses
  <2>2. ~whereDone
    BY <1>2, <1>5 DEF Remembered
  <2> QED BY <1>1, <1>5, <1>15, <2>1, <2>2 DEF Remembered
<1>22. guards' # <<>>
  <2>1. Len(guards') # 0
    BY <1>7, <1>16
  <2> QED BY <2>1
<1> QED BY <1>1, <1>2, <1>4, <1>11, <1>17, <1>18, <1>19, <1>20, <1>21, <1>22
        DEF Grammatical, Phase

\* The end of a guard: the keyword of an empty clause is the text's last, and what is
\* left ends with the projection; a group is closed after its last condition.
LEMMA CloseGuardGrammar ==
  ASSUME IInv, Grammatical, CloseGuard, liberties' = {}, ~failed'
  PROVE  Grammatical'
<1> DEFINE n == Len(guards)
           g == guards[n]
           hs == SubSeq(guards, 1, n - 1)
           dropped == g.kind = "group" /\ Len(buf) <= g.open
<1>1. /\ built = "none" /\ guards # <<>> /\ guards' = hs /\ buf' = Closing(g)
      /\ Took([empty_group |-> dropped])
      /\ UNCHANGED <<surface, selectOpen, writer, whereDone, built>>
  BY DEF CloseGuard
<1>2. ~dropped
  <2> HIDE DEF dropped
  <2>1. \A l \in DOMAIN [empty_group |-> dropped] : ~[empty_group |-> dropped][l]
    BY <1>1, NoLiberty
  <2> QED BY <2>1
<1>3. /\ Text(buf) /\ Scopes(guards) /\ Levels(buf, guards)
      /\ Filled(buf, guards) /\ Single(buf, guards)
      /\ Remembered(buf, writer, whereDone, guards)
  BY <1>1 DEF Grammatical, Phase
<1>4. /\ buf \in Seq(Tokens) /\ guards \in Seq(Guard) /\ Marked(buf, guards)
      /\ Nest(buf, Len(buf)) = n - 1 /\ Len(buf) \in Nat
      /\ n \in Nat \ {0}
  BY <1>1, <1>3, StandsAt
<1>5. /\ hs \in Seq(Guard) /\ Len(hs) = n - 1
      /\ \A p \in 1..(n - 1) : hs[p] = guards[p]
  BY <1>4, FrontOf
<1>6. /\ g.open \in 1..Len(buf) /\ buf[g.open] = Opener(g.kind)
      /\ (g.kind = "where" <=> n = 1)
      /\ g.kind \in {"where", "group"}
  <2>1. n \in 1..n /\ g \in Guard
    BY <1>4, ElementOfSeq
  <2> QED BY <1>3, <1>4, <2>1 DEF Marked, Scopes, Guard
<1>7. ~Ended /\ ~Ended'
  <2>1. surface = "guards" => selectOpen
    BY <1>1 DEF IInv, DepthsAgree
  <2> QED BY <1>1, <2>1 DEF Ended
<1>8. writer.from /\ ~whereDone /\ writer' = writer /\ whereDone' = whereDone
  BY <1>1, <1>3 DEF Grammatical, Phase, Projecting, Remembered
<1>9. "WHERE" \in Parts /\ "ORDER BY" \in Parts /\ "FETCH" \in Parts /\ Clauses \subseteq Parts
      /\ Parts \ Clauses \subseteq {"WHERE"} /\ Later("WHERE") \subseteq Clauses
      /\ "ORDER BY" \in Clauses /\ "FETCH" \in Clauses
  BY DEF Parts, Clauses, Later
<1>10. \A c \in Clauses : ~Has(buf, c)
  BY <1>3 DEF Single
<1>11. Has(buf, "WHERE")
  <2>1. 1 \in 1..n /\ (guards[1].kind = "where")
    BY <1>3, <1>4 DEF Scopes
  <2>2. guards[1].open \in 1..Len(buf) /\ buf[guards[1].open] = "WHERE"
    BY <1>4, <2>1 DEF Marked, Opener
  <2> QED BY <2>2 DEF Has
<1>12. CASE Len(buf) > g.open
  <2>1. LastOf(buf) \in Operands
    <3>1. ~g.first
      BY <1>3, <1>6, <1>12 DEF Filled
    <3> QED BY <1>3, <3>1 DEF Filled
  <2>2. CASE g.kind = "group"
    <3>1. buf' = Append(buf, ")")
      BY <1>1, <1>12, <2>2 DEF Closing
    <3>2. /\ ")" \in Tokens /\ ")" \notin TopLevel /\ ")" \notin Joiners /\ ")" \notin Parts
          /\ ")" \in Operands /\ ")" \in Follows[LastOf(buf)]
      BY <2>1, Successors DEF Tokens, TopLevel, Joiners, Parts, Clauses, Operands
    <3>3. buf' = buf \o <<")">>
      BY <1>4, <3>1, <3>2, AppendIsConcat
    <3>4. Text(buf')
      BY <1>3, <1>4, <3>2, <3>3, TextAppend
    <3>5. LastOf(buf') = ")"
      BY <1>4, <3>2, <3>3, Extended
    <3>6. Levels(buf', guards) /\ Single(buf', guards)
      BY <1>3, <1>4, <3>2, <3>3, LevelsMore, SingleMore
    <3>7. \A c : Has(buf', c) <=> Has(buf, c) \/ c = ")"
      BY <1>4, <3>2, <3>3, HasMore
    <3>8. n - 1 \in 1..(n - 1) /\ 1 \in 1..(n - 1) /\ hs # <<>>
      <4>1. n # 1
        BY <1>6, <2>2
      <4> HIDE DEF hs, n
      <4>2. n - 1 \in Nat /\ n - 1 # 0
        BY <1>4, <4>1
      <4>3. n - 1 \in 1..(n - 1) /\ 1 \in 1..(n - 1)
        BY <1>4, <4>2
      <4>4. hs # <<>>
        BY <1>5, <4>2, EmptySeq
      <4> QED BY <4>3, <4>4
    <3> HIDE DEF hs, n
    <3>9. Scopes(hs)
      BY <1>3, <1>4, <1>5 DEF Scopes, n
    <3>10. Levels(buf', hs)
      <4>1. ASSUME NEW p \in 1..(n - 1)
            PROVE  /\ Nest(buf', hs[p].open) = p - 1
                   /\ \A i \in (hs[p].open + 1)..Len(buf') :
                         buf'[i] \in Joiners /\ Nest(buf', i) = p - 1 => buf'[i] = hs[p].joiner
        <5>1. p \in 1..n /\ hs[p] = guards[p]
          BY <1>4, <1>5
        <5> QED BY <3>6, <5>1 DEF Levels, n
      <4> QED BY <1>5, <4>1 DEF Levels
    <3>11. Single(buf', hs)
      BY <1>5, <3>6, <3>8 DEF Single
    <3>12. Filled(buf', hs)
      <4>1. ~guards[n - 1].first
        BY <1>3, <1>4, <3>8 DEF Scopes, n
      <4> QED BY <1>5, <3>2, <3>5, <3>8, <4>1 DEF Filled
    <3>13. Remembered(buf', writer', whereDone', guards')
      BY <1>3, <1>8, <1>9, <3>2, <3>7 DEF Remembered
    <3> QED BY <1>1, <1>7, <1>8, <3>4, <3>8, <3>9, <3>10, <3>11, <3>12, <3>13
            DEF Grammatical, Phase
  <2>3. CASE g.kind = "where"
    <3>1. buf' = buf /\ guards' = <<>> /\ n = 1
      <4>1. n = 1
        BY <1>6, <2>3
      <4>2. Len(hs) = 0
        BY <1>5, <4>1
      <4>3. hs = <<>>
        BY <1>5, <4>2, EmptySeq
      <4> QED BY <1>1, <1>12, <2>3, <4>1, <4>3 DEF Closing
    <3>2. Frontier(buf)
      <4>1. ASSUME NEW c \in Parts, Has(buf, c) PROVE LastOf(buf) \in Ends(c)
        <5>1. c = "WHERE"
          BY <1>9, <1>10, <4>1
        <5> QED BY <2>1, <5>1 DEF Ends
      <4> QED BY <1>9, <1>11, <4>1 DEF Frontier
    <3>3. Complete(buf')
      BY <1>3, <1>4, <3>1, <3>2 DEF Complete
    <3>4. Remembered(buf', writer', whereDone', guards')
      BY <1>3, <1>8, <3>1 DEF Remembered
    <3> QED BY <1>7, <1>8, <3>1, <3>3, <3>4, TopGrammar
  <2> QED BY <1>6, <2>2, <2>3
<1>13. CASE ~(Len(buf) > g.open)
  <2>1. Len(buf) = g.open /\ g.kind = "where" /\ n = 1
    BY <1>2, <1>4, <1>6, <1>13
  <2> DEFINE r == SubSeq(buf, 1, Len(buf) - 1)
  <2>2. buf' = r /\ buf[Len(buf)] = "WHERE"
    BY <1>1, <1>6, <1>13, <2>1 DEF Closing, Opener
  <2>3. guards' = <<>>
    <3>1. Len(hs) = 0
      BY <1>5, <2>1
    <3> QED BY <1>1, <1>5, <3>1, EmptySeq
  <2>4. /\ r \in Seq(Tokens) /\ Len(r) = Len(buf) - 1
        /\ \A i \in 1..(Len(buf) - 1) : r[i] = buf[i]
        /\ buf = r \o <<"WHERE">> /\ "WHERE" \in Tokens
    <3>1. Len(buf) \in Nat \ {0}
      BY <1>3, <1>4 DEF Text
    <3> QED BY <1>4, <2>2, <3>1, Rewound
  <2> HIDE DEF r
  <2>5. Len(r) >= 1
    <3>1. Len(buf) >= 1 /\ buf[1] = "SELECT"
      BY <1>3 DEF Text
    <3>2. Len(buf) # 1
      BY <2>2, <3>1
    <3> QED BY <1>4, <2>4, <3>1, <3>2
  <2>6. Text(r) /\ "WHERE" \in Follows[LastOf(r)]
    BY <1>3, <2>4, <2>5, TextFront
  <2>7. LastOf(r) = "FROM"
    <3>1. LastOf(r) \in Tokens
      BY <2>4, <2>5, ElementOfSeq DEF LastOf
    <3> QED BY <2>6, <3>1, Successors
  <2>8. \A c : Has(buf, c) <=> Has(r, c) \/ c = "WHERE"
    BY <2>4, HasMore
  <2>9. ~Has(r, "WHERE")
    <3>1. ASSUME NEW i \in 1..Len(r), r[i] = "WHERE" PROVE FALSE
      <4>1. i \in 1..Len(buf) /\ buf[i] = "WHERE" /\ i # Len(buf)
        BY <1>4, <2>4, <3>1
      <4>2. i = guards[1].open
        BY <1>3, <4>1 DEF Single
      <4> QED BY <2>1, <4>1, <4>2
    <3> QED BY <3>1 DEF Has
  <2>10. \A c \in Parts : ~Has(r, c)
    <3>1. ASSUME NEW c \in Parts PROVE ~Has(r, c)
      <4>1. CASE c \in Clauses
        BY <1>10, <2>8, <4>1
      <4>2. CASE c = "WHERE"
        BY <2>9, <4>2
      <4> QED BY <1>9, <4>1, <4>2
    <3> QED BY <3>1
  <2>11. Nest(r, Len(r)) = 0
    <3>1. Nest(buf, Len(buf)) = 0
      BY <1>4, <2>1
    <3>2. Nest(buf, Len(r) + 1) = Nest(r, Len(r)) + 0 /\ Nest(r, Len(r)) \in Int
          /\ Len(buf) = Len(r) + 1
      BY <2>4, Extended
    <3> QED BY <3>1, <3>2
  <2>12. Complete(buf')
    BY <2>2, <2>6, <2>7, <2>10, <2>11 DEF Complete, Frontier
  <2>13. Remembered(buf', writer', whereDone', guards')
    BY <1>3, <1>8, <1>9, <1>10, <2>2, <2>10 DEF Remembered
  <2> QED BY <1>7, <1>8, <2>3, <2>12, <2>13, TopGrammar
<1> QED BY <1>12, <1>13


-----------------------------------------------------------------------------
\* The fluent WHERE, and the end.

\* where() of the fluent surface: the first writes the keyword, the others AND.
LEMMA FluentWhereGrammar ==
  ASSUME IInv, Grammatical, NEW e \in Expressions, NEW bad \in BOOLEAN, FluentWhere(e, bad),
         liberties' = {}, ~failed'
  PROVE  Grammatical'
<1> DEFINE t == buf \o FromClause
           w == IF whereDone THEN "AND" ELSE "WHERE"
           s == t \o <<w>>
           Early == WrittenAny(Later("WHERE"))
           conditions == [out_of_order |-> Early,
                          second_where |-> ~whereDone /\ Written("WHERE")]
<1>1. /\ Building /\ surface = "fluent"
      /\ Latch(writer.depth, guards # <<>>, FromFails \/ (bad /\ CanWriteClause))
      /\ Took(conditions)
      /\ writer' = [writer EXCEPT !.from = TRUE] /\ UNCHANGED guards
  BY DEF FluentWhere
<1>2. CanWriteClause /\ guards = <<>>
  BY <1>1, OuterWriter DEF Latch, CanWrite, CanWriteClause, IInv
<1>3. buf' = s \o e /\ whereDone' = TRUE
  BY <1>2 DEF FluentWhere
<1>4. ~Early /\ ~(~whereDone /\ Written("WHERE"))
  <2> HIDE DEF Early
  <2>1. \A l \in DOMAIN conditions : ~conditions[l]
    <3> HIDE DEF conditions
    <3> QED BY <1>1, NoLiberty
  <2> QED BY <2>1
<1> HIDE DEF conditions
<1>5. ~Ended /\ ~Ended'
  BY <1>1, NotEnded
<1>6. Complete(t) /\ \A d \in Parts : Has(t, d) <=> Has(buf, d)
  BY <1>2, <1>5, AfterFrom
<1>7. Remembered(buf, writer, whereDone, guards)
  BY DEF Grammatical
<1> HIDE DEF t, s, w
<1>8. /\ Later("WHERE") = Clauses /\ Clauses \subseteq Parts /\ "WHERE" \in Parts
      /\ Parts \ Clauses \subseteq {"WHERE"} /\ "ORDER BY" \in Clauses /\ "FETCH" \in Clauses
  BY DEF Parts, Clauses, Later
<1>9. \A c \in Clauses : ~Has(t, c)
  BY <1>4, <1>6, <1>8 DEF WrittenAny, Written, Has
<1>10. t \in Seq(Tokens) /\ Text(t) /\ Frontier(t) /\ Nest(t, Len(t)) = 0
  BY <1>6 DEF Complete, Text
<1>11. /\ Text(s) /\ Nest(s, Len(s)) = 0 /\ Follows[LastOf(s)] = Operand
       /\ Has(s, "WHERE") /\ \A c \in Clauses : ~Has(s, c)
  <2>1. CASE whereDone
    <3>1. w = "AND" /\ s = t \o <<"AND">>
      BY <2>1 DEF w, s
    <3>2. Has(t, "WHERE")
      BY <1>6, <1>7, <1>8, <2>1 DEF Remembered
    <3>3. LastOf(t) \in Operands
      BY <1>8, <1>9, <1>10, <3>2 DEF Frontier, Ends
    <3>4. /\ "AND" \in Tokens /\ "AND" \in Joiners /\ "AND" \notin TopLevel /\ "AND" \notin Parts
          /\ "AND" \in Follows[LastOf(t)]
      BY <3>3, Successors DEF Tokens, Joiners, TopLevel, Parts, Clauses
    <3>5. Fits(t, "AND")
      BY <1>10 DEF Fits, Text, Agreeing
    <3>6. Text(s)
      BY <1>10, <3>1, <3>4, <3>5, TextAppend
    <3>7. LastOf(s) = "AND" /\ Follows[LastOf(s)] = Operand
      <4>1. LastOf(s) = "AND"
        BY <1>10, <3>1, <3>4, Extended
      <4> QED BY <3>4, <4>1, Successors
    <3>8. Nest(s, Len(s)) = 0
      <4>1. Nest(s, Len(t) + 1) = Nest(t, Len(t)) + 0 /\ Len(s) = Len(t) + 1
        BY <1>10, <3>1, <3>4, Extended
      <4> QED BY <1>10, <4>1
    <3>9. \A c : Has(s, c) <=> Has(t, c) \/ c = "AND"
      BY <1>10, <3>1, <3>4, HasMore
    <3> QED BY <1>8, <1>9, <3>2, <3>4, <3>6, <3>7, <3>8, <3>9
  <2>2. CASE ~whereDone
    <3>1. w = "WHERE" /\ s = t \o <<"WHERE">>
      BY <2>2 DEF w, s
    <3>2. ~Has(t, "WHERE")
      BY <1>4, <1>6, <1>8, <2>2 DEF Written, Has
    <3>3. LastOf(t) = "FROM"
      <4>1. ASSUME NEW c \in Parts PROVE ~Has(t, c)
        BY <1>8, <1>9, <3>2
      <4> QED BY <1>10, <4>1 DEF Frontier
    <3>4. /\ "WHERE" \in Tokens /\ "WHERE" \notin {"(", ")"} /\ "WHERE" \notin Joiners
          /\ "WHERE" \notin Clauses /\ "WHERE" \in Follows[LastOf(t)]
      BY <3>3, <1>8, Successors DEF Tokens, Joiners, Clauses
    <3>5. Text(s) /\ LastOf(s) = "WHERE" /\ Nest(s, Len(s)) = 0
      BY <1>10, <3>1, <3>4, TopToken
    <3>6. Follows[LastOf(s)] = Operand
      BY <3>5, Successors
    <3>7. \A c : Has(s, c) <=> Has(t, c) \/ c = "WHERE"
      BY <1>10, <3>1, <3>4, HasMore
    <3> QED BY <1>9, <3>4, <3>5, <3>6, <3>7
  <2> QED BY <2>1, <2>2
<1>12. /\ Text(buf') /\ LastOf(buf') \in Operands /\ Nest(buf', Len(buf')) = 0
       /\ \A d \in Parts : Has(buf', d) <=> Has(s, d)
  BY <1>3, <1>11, ExpressionWritten
<1>13. Frontier(buf')
  <2>1. ASSUME NEW c \in Parts, Has(buf', c) PROVE LastOf(buf') \in Ends(c)
    <3>1. c = "WHERE"
      BY <1>8, <1>11, <1>12, <2>1
    <3> QED BY <1>12, <3>1 DEF Ends
  <2> QED BY <1>8, <1>11, <1>12, <2>1 DEF Frontier
<1>14. writer'.from /\ writer'.ordered = writer.ordered /\ writer'.fetched = writer.fetched
  BY <1>1 DEF IInv, TypeOK
<1>15. Remembered(buf', writer', whereDone', guards')
  <2>1. ~writer.ordered /\ ~writer.fetched
    BY <1>6, <1>7, <1>8, <1>9 DEF Remembered
  <2> QED BY <1>1, <1>2, <1>8, <1>11, <1>12, <1>14, <2>1 DEF Remembered
<1> QED BY <1>1, <1>2, <1>5, <1>12, <1>13, <1>14, <1>15, TopGrammar DEF Complete

\* terminate(), by either surface.
Terminate ==
    /\ buf' = buf \o FromClause \o <<";">>
    /\ writer' = [writer EXCEPT !.from = TRUE]
    /\ UNCHANGED <<guards, whereDone>>

\* The statement ends when it is complete.
LEMMA Terminated ==
  ASSUME IInv, Grammatical, ~Ended, guards = <<>>, Terminate, Ended'
  PROVE  Grammatical'
<1> DEFINE t == buf \o FromClause
<1>1. Complete(t) /\ \A d \in Parts : Has(t, d) <=> Has(buf, d)
  BY AfterFrom
<1>2. buf' = t \o <<";">> /\ guards' = <<>> /\ whereDone' = whereDone
  BY DEF Terminate
<1> HIDE DEF t
<1>3. /\ Text(buf') /\ LastOf(buf') = ";"
      /\ \A d \in Parts : Has(buf', d) <=> Has(t, d)
  BY <1>1, <1>2, EndWritten
<1>4. writer'.from /\ writer'.ordered = writer.ordered /\ writer'.fetched = writer.fetched
  BY DEF Terminate, IInv, TypeOK
<1>5. Remembered(buf', writer', whereDone', guards')
  <2>1. Remembered(buf, writer, whereDone, guards)
    BY DEF Grammatical
  <2>2. "WHERE" \in Parts /\ "ORDER BY" \in Parts /\ "FETCH" \in Parts
    BY DEF Parts, Clauses
  <2> QED BY <1>1, <1>2, <1>3, <1>4, <2>1, <2>2 DEF Remembered
<1>6. guards' = <<>> /\ Len(guards') = 0
  BY <1>2
<1>7. Scopes(guards') /\ Levels(buf', guards')
  BY <1>6 DEF Scopes, Levels
<1> QED BY <1>3, <1>4, <1>5, <1>6, <1>7 DEF Grammatical, Phase

\* The end of the select_guard is the end of the statement.
LEMMA CloseSelectGrammar ==
  ASSUME IInv, Grammatical, CloseSelect, liberties' = {}, ~failed'
  PROVE  Grammatical'
<1>1. /\ built = "none" /\ selectOpen /\ guards = <<>> /\ selectOpen' = FALSE
      /\ buf' = buf \o FromClause \o <<";">> /\ writer' = [writer EXCEPT !.from = TRUE]
      /\ UNCHANGED <<surface, guards, whereDone, built>>
  BY DEF CloseSelect
<1>2. surface = "guards"
  BY <1>1 DEF IInv, DepthsAgree
<1>3. ~Ended /\ Ended'
  BY <1>1, <1>2 DEF Ended
<1> QED BY <1>1, <1>3, Terminated DEF Terminate

\* build() ends the statement of the fluent surface, and finds the other's ended.
LEMMA BuildGrammar ==
  ASSUME IInv, Grammatical, Build, liberties' = {}, ~failed'
  PROVE  Grammatical'
<1>1. /\ built = "none" /\ built' \in {"ok", "error"}
      /\ Took([early_build |-> selectOpen \/ guards # <<>>])
      /\ UNCHANGED <<surface, guards, selectOpen, whereDone>>
  BY DEF Build
<1>2. ~selectOpen /\ guards = <<>>
  <2> DEFINE open == selectOpen \/ guards # <<>>
  <2>1. Took([early_build |-> open])
    BY <1>1
  <2> HIDE DEF open
  <2>2. \A l \in DOMAIN [early_build |-> open] : ~[early_build |-> open][l]
    BY <2>1, NoLiberty
  <2>3. ~open
    BY <2>2
  <2> QED BY <2>3 DEF open
<1>3. Ended'
  BY <1>1 DEF Ended
<1>4. CASE surface = "fluent"
  <2>1. buf' = buf \o FromClause \o <<";">> /\ writer' = [writer EXCEPT !.from = TRUE]
    BY <1>4 DEF Build
  <2>2. ~Ended
    BY <1>1, <1>4 DEF Ended
  <2> QED BY <1>1, <1>2, <1>3, <2>1, <2>2, Terminated DEF Terminate
<1>5. CASE surface # "fluent"
  <2>1. UNCHANGED <<buf, writer, guards, whereDone>>
    BY <1>1, <1>5 DEF Build
  <2>2. Ended
    <3>1. surface = "guards"
      BY <1>5, DslAssumption DEF IInv, TypeOK
    <3> QED BY <1>2, <3>1 DEF Ended
  <2> QED BY <1>3, <2>1, <2>2 DEF Grammatical, Phase
<1> QED BY <1>4, <1>5

-----------------------------------------------------------------------------
\* The invariant of the grammar, and the statement.

\* The text begins with SELECT, and a projection may follow.
LEMMA GrammarInit == Init => GInv
<1> SUFFICES ASSUME Init PROVE GInv
  OBVIOUS
<1>1. /\ buf = <<"SELECT">> /\ guards = <<>> /\ whereDone = FALSE /\ built = "none"
      /\ selectOpen = (surface = "guards")
      /\ ~writer.from /\ ~writer.anyField /\ ~writer.ordered /\ ~writer.fetched
  BY DEF Init
<1>2. Len(buf) = 1 /\ buf[1] = "SELECT" /\ buf \in Seq(Tokens) /\ Len(guards) = 0
  BY <1>1 DEF Tokens
<1>3. "SELECT" \notin TopLevel /\ "SELECT" \notin Joiners /\ "SELECT" \notin Parts
  BY DEF TopLevel, Joiners, Parts, Clauses
<1>4. Text(buf)
  BY <1>2, <1>3 DEF Text, Chained, Outside, Agreeing
<1>5. \A c \in Parts : ~Has(buf, c)
  BY <1>2, <1>3 DEF Has
<1>6. Remembered(buf, writer, whereDone, guards)
  BY <1>1, <1>5 DEF Remembered, Parts, Clauses
<1>7. Projecting(buf, writer, guards)
  BY <1>1, <1>2, <1>5 DEF Projecting, LastOf
<1>8. Scopes(guards) /\ Levels(buf, guards)
  BY <1>2 DEF Scopes, Levels
<1>9. ~Ended
  BY <1>1 DEF Ended
<1> QED BY <1>1, <1>4, <1>6, <1>7, <1>8, <1>9 DEF GInv, Grammatical, Phase

\* What no step takes back: a liberty, and a failure.
LEMMA NothingTakenBack ==
  ASSUME IInv, [Next]_vars, liberties' = {}, ~failed'
  PROVE  liberties = {} /\ ~failed
<1>1. ASSUME NEW bad \in BOOLEAN, Field(bad) PROVE liberties = {} /\ ~failed
  BY <1>1 DEF Field, Took, Latch
<1>2. ASSUME NEW c \in Clauses, NEW bad \in BOOLEAN, Clause(c, bad)
      PROVE  liberties = {} /\ ~failed
  BY <1>2 DEF Clause, Took, Latch
<1>3. ASSUME NEW i \in DOMAIN guards, NEW c \in Conditions, NEW bad \in BOOLEAN,
             Condition(i, c, bad)
      PROVE  liberties = {} /\ ~failed
  BY <1>3 DEF Condition, Latch
<1>4. ASSUME NEW i \in DOMAIN guards, NEW j \in Joiners, OpenGroup(i, j)
      PROVE  liberties = {} /\ ~failed
  BY <1>4 DEF OpenGroup, Latch
<1>5. ASSUME NEW e \in Expressions, NEW bad \in BOOLEAN, FluentWhere(e, bad)
      PROVE  liberties = {} /\ ~failed
  BY <1>5 DEF FluentWhere, Took, Latch
<1>6. CASE OpenWhere
  BY <1>6 DEF OpenWhere, Took, LatchFrom
<1>7. CASE CloseGuard
  BY <1>7 DEF CloseGuard, Took
<1>8. CASE CloseSelect
  BY <1>8 DEF CloseSelect, LatchFrom
<1>9. CASE Build
  BY <1>9 DEF Build, Took, LatchFrom
<1>10. CASE UNCHANGED vars
  BY <1>10 DEF vars, arenaVars, history
<1> QED BY <1>1, <1>2, <1>3, <1>4, <1>5, <1>6, <1>7, <1>8, <1>9, <1>10 DEF Next

\* Every step keeps the grammar.
LEMMA GrammarStep ==
  ASSUME IInv, GInv, [Next]_vars
  PROVE  GInv'
<1>1. built' = "ok" => ~failed'
  <2>1. CASE Build
    BY <2>1 DEF Build
  <2>2. CASE Next /\ ~Build
    BY <2>2, OnlyBuildBuilds
  <2>3. CASE UNCHANGED vars
    BY <2>3 DEF vars, arenaVars, GInv
  <2> QED BY <2>1, <2>2, <2>3
<1>2. ASSUME liberties' = {}, ~failed' PROVE Grammatical'
  <2>0. Grammatical
    BY <1>2, NothingTakenBack DEF GInv
  <2>1. ASSUME NEW bad \in BOOLEAN, Field(bad) PROVE Grammatical'
    BY <1>2, <2>0, <2>1, FieldGrammar
  <2>2. ASSUME NEW c \in Clauses, NEW bad \in BOOLEAN, Clause(c, bad) PROVE Grammatical'
    BY <1>2, <2>0, <2>2, ClauseGrammar
  <2>3. ASSUME NEW i \in DOMAIN guards, NEW c \in Conditions, NEW bad \in BOOLEAN,
               Condition(i, c, bad)
        PROVE  Grammatical'
    BY <1>2, <2>0, <2>3, ConditionGrammar
  <2>4. ASSUME NEW i \in DOMAIN guards, NEW j \in Joiners, OpenGroup(i, j) PROVE Grammatical'
    BY <1>2, <2>0, <2>4, OpenGroupGrammar
  <2>5. ASSUME NEW e \in Expressions, NEW bad \in BOOLEAN, FluentWhere(e, bad)
        PROVE  Grammatical'
    BY <1>2, <2>0, <2>5, FluentWhereGrammar
  <2>6. CASE OpenWhere
    BY <1>2, <2>0, <2>6, OpenWhereGrammar
  <2>7. CASE CloseGuard
    BY <1>2, <2>0, <2>7, CloseGuardGrammar
  <2>8. CASE CloseSelect
    BY <1>2, <2>0, <2>8, CloseSelectGrammar
  <2>9. CASE Build
    BY <1>2, <2>0, <2>9, BuildGrammar
  <2>10. CASE UNCHANGED vars
    <3>1. UNCHANGED <<buf, guards, writer, whereDone, built, surface, selectOpen>>
      BY <2>10 DEF vars, arenaVars
    <3> QED BY <2>0, <3>1 DEF Grammatical, Ended
  <2> QED BY <2>1, <2>2, <2>3, <2>4, <2>5, <2>6, <2>7, <2>8, <2>9, <2>10 DEF Next
<1> QED BY <1>1, <1>2 DEF GInv

\* The inductive invariant of the grammar.
LEMMA GrammarInvariant == Spec => [](IInv /\ GInv)
<1>1. Init => IInv /\ GInv
  BY InvInit, GrammarInit
<1>2. (IInv /\ GInv) /\ [Next]_vars => (IInv /\ GInv)'
  BY InvStep, GrammarStep
<1> QED BY <1>1, <1>2, PTL DEF Spec

\* What build() hands out is a statement, whatever conditions, groups and clauses
\* were written or left empty and however deep, by a client that keeps to one
\* WHERE, to the order of the clauses and to the scopes (guards.hpp:20-25).
THEOREM StatementsAreWellFormed == Spec => []WellFormed
<1>1. IInv /\ GInv => WellFormed
  <2> SUFFICES ASSUME IInv, GInv, built = "ok", liberties = {} PROVE Statement
    BY DEF WellFormed
  <2>1. Grammatical /\ Ended
    BY DEF GInv, Ended
  <2>2. Text(buf) /\ LastOf(buf) = ";" /\ guards = <<>>
    BY <2>1 DEF Grammatical, Phase
  <2>3. Len(buf) \in Nat /\ DOMAIN buf = 1..Len(buf) /\ Nest(buf, Len(buf)) = 0
    BY <2>1, <2>2, StandsAt, LenProperties DEF Grammatical
  <2>4. \A i \in DOMAIN buf : Nesting(i) = Nest(buf, i)
    BY <2>3, NestingIsNest
  <2>5. \A i \in DOMAIN buf : buf[i] \in Clauses \cup {";"} => Nesting(i) = 0
    BY <2>2, <2>3, <2>4 DEF Text, Outside, TopLevel
  <2>6. Parenthesised
    <3>1. Balanced
      BY ClosedScopes
    <3> QED BY <3>1 DEF Balanced
  <2>7. JoinersAgree
    <3>1. ASSUME NEW i \in DOMAIN buf, NEW j \in DOMAIN buf, i <= j,
                 buf[i] \in Joiners, buf[j] \in Joiners,
                 \A k \in i..j : Nesting(k) >= Nesting(i), Nesting(j) = Nesting(i)
          PROVE  buf[i] = buf[j] /\ (Nesting(i) = 0 => buf[i] = "AND")
      <4>1. i \in 1..Len(buf) /\ j \in 1..Len(buf) /\ \A k \in i..j : k \in DOMAIN buf
        BY <2>3
      <4>2. Within(buf, i, j) /\ Nest(buf, j) = Nest(buf, i)
        BY <2>4, <3>1, <4>1 DEF Within
      <4>3. Agreeing(buf)
        BY <2>2 DEF Text
      <4>4. buf[i] = buf[j]
        BY <3>1, <4>1, <4>2, <4>3 DEF Agreeing
      <4>5. Nesting(i) = 0 => buf[i] = "AND"
        BY <2>4, <3>1, <4>1, <4>3 DEF Agreeing
      <4> QED BY <4>4, <4>5
    <3> QED BY <3>1 DEF JoinersAgree
  <2>8. buf[1] = "SELECT" /\ buf[Len(buf)] = ";"
        /\ \A i \in 1..(Len(buf) - 1) : buf[i + 1] \in Follows[buf[i]]
    BY <2>2 DEF Text, Chained, LastOf
  <2> QED BY <2>5, <2>6, <2>7, <2>8 DEF Statement
<1> QED BY GrammarInvariant, <1>1, PTL
=============================================================================
