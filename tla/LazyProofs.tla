------------------------------ MODULE LazyProofs ------------------------------
(***************************************************************************)
(* Proofs about LazyGraph: for graphs of any size and views of any shape,  *)
(* evaluating nodes leaves what was computed before as it was, a node      *)
(* flagged computed holds its value, and an assign() of pairs that do not  *)
(* touch each other's memory delivers what its sources are.                *)
(***************************************************************************)
EXTENDS LazyGraph, SequenceTheorems, FiniteSetTheorems, WellFoundedInduction, TLAPS

-----------------------------------------------------------------------------
(* The order of the search.                                                *)

\* The graph is one a program can build: sources are older.
Acyclic(h) ==
  /\ Len(h.nodes) \in Nat /\ NodeIds(h) = 1 .. Len(h.nodes)
  /\ \A n \in NodeIds(h) : /\ Sources(h, n) \in Seq(NodeIds(h))
                           /\ \A i \in 1 .. Len(Sources(h, n)) : Sources(h, n)[i] < n

\* A state of the search is what is still to visit and the order so far.
SearchStates(h) == Seq(NodeIds(h)) \X Seq(NodeIds(h))
SourcesVisited(h, n, out) == \A i \in DOMAIN Sources(h, n) : Sources(h, n)[i] \in Visited(h, out)
After(h, s) ==
  IF Head(s[1]) \in Visited(h, s[2]) THEN <<Tail(s[1]), s[2]>>
  ELSE IF SourcesVisited(h, Head(s[1]), s[2]) THEN <<Tail(s[1]), Append(s[2], Head(s[1]))>>
  ELSE <<Sources(h, Head(s[1])) \o s[1], s[2]>>

\* Where the search ends from each state: the least relation its steps respect.
Pairs(h) == SearchStates(h) \X Seq(NodeIds(h))
OneStep(h, s, o, R) == IF s[1] = <<>> THEN o = s[2] ELSE <<After(h, s), o>> \in R
Respected(h, R) ==
  \A s \in SearchStates(h), o \in Seq(NodeIds(h)) : OneStep(h, s, o, R) => <<s, o>> \in R
Leads(h) == {p \in Pairs(h) : \A R \in SUBSET Pairs(h) : Respected(h, R) => p \in R}

\* A step of the search is between states of it.
LEMMA AfterIsState ==
  ASSUME NEW h, Acyclic(h), NEW s \in SearchStates(h), s[1] # <<>>
  PROVE  After(h, s) \in SearchStates(h)
<1>1. s[1] \in Seq(NodeIds(h)) /\ s[2] \in Seq(NodeIds(h))
  BY DEF SearchStates
<1>2. Head(s[1]) \in NodeIds(h) /\ Tail(s[1]) \in Seq(NodeIds(h))
  BY <1>1, HeadTailProperties
<1>3. Append(s[2], Head(s[1])) \in Seq(NodeIds(h))
  BY <1>1, <1>2
<1>4. Sources(h, Head(s[1])) \o s[1] \in Seq(NodeIds(h))
  BY <1>1, <1>2, ConcatProperties DEF Acyclic
<1> QED BY <1>1, <1>2, <1>3, <1>4 DEF After, SearchStates

\* What every respected relation holds, the least one does.
LEMMA LeadsLeast ==
  ASSUME NEW h, NEW R \in SUBSET Pairs(h), Respected(h, R)
  PROVE  Leads(h) \subseteq R
BY DEF Leads

\* A state leads where the next one leads.
LEMMA LeadsStep ==
  ASSUME NEW h, NEW s \in SearchStates(h), NEW o \in Seq(NodeIds(h))
  PROVE  <<s, o>> \in Leads(h) <=> OneStep(h, s, o, Leads(h))
<1>1. \A S, T : S \subseteq T => \A x, y : OneStep(h, x, y, S) => OneStep(h, x, y, T)
  BY DEF OneStep
<1>2. ASSUME NEW x \in SearchStates(h), NEW y \in Seq(NodeIds(h)), OneStep(h, x, y, Leads(h))
      PROVE  <<x, y>> \in Leads(h)
  <2>1. ASSUME NEW R \in SUBSET Pairs(h), Respected(h, R) PROVE <<x, y>> \in R
    <3>1. OneStep(h, x, y, R)
      BY <1>1, <1>2, <2>1, LeadsLeast
    <3> QED BY <2>1, <3>1 DEF Respected
  <2> QED BY <2>1 DEF Leads, Pairs
<1>3. ASSUME <<s, o>> \in Leads(h), ~OneStep(h, s, o, Leads(h)) PROVE FALSE
  <2> DEFINE R == Leads(h) \ {<<s, o>>}
  <2>1. ASSUME NEW x \in SearchStates(h), NEW y \in Seq(NodeIds(h)), OneStep(h, x, y, R)
        PROVE  <<x, y>> \in R
    <3>1. OneStep(h, x, y, Leads(h))
      BY <1>1, <2>1
    <3>2. <<x, y>> \in Leads(h)
      BY <1>2, <3>1
    <3>3. <<x, y>> # <<s, o>>
      BY <1>3, <3>1
    <3> QED BY <3>2, <3>3
  <2>2. R \in SUBSET Pairs(h)
    BY DEF Leads
  <2>3. Respected(h, R)
    BY <2>1 DEF Respected
  <2>4. Leads(h) \subseteq R
    BY <2>2, <2>3, LeadsLeast
  <2> QED BY <1>3, <2>4
<1> QED BY <1>2, <1>3

\* A state leads to one order only.
LEMMA LeadsOnce ==
  ASSUME NEW h, Acyclic(h), NEW s \in SearchStates(h), NEW o, NEW p,
         <<s, o>> \in Leads(h), <<s, p>> \in Leads(h)
  PROVE  o = p
<1> DEFINE R == {q \in Pairs(h) : \A y \in Seq(NodeIds(h)) : <<q[1], y>> \in Leads(h) => y = q[2]}
<1>1. ASSUME NEW x \in SearchStates(h), NEW y \in Seq(NodeIds(h)), OneStep(h, x, y, R)
      PROVE  <<x, y>> \in R
  <2>1. ASSUME NEW z \in Seq(NodeIds(h)), <<x, z>> \in Leads(h) PROVE z = y
    <3>1. OneStep(h, x, z, Leads(h))
      BY <2>1, LeadsStep
    <3>2. CASE x[1] = <<>>
      BY <3>1, <3>2, <1>1 DEF OneStep
    <3>3. CASE x[1] # <<>>
      <4>1. <<After(h, x), y>> \in R /\ <<After(h, x), z>> \in Leads(h)
        BY <3>1, <3>3, <1>1 DEF OneStep
      <4> QED BY <4>1, <2>1
    <3> QED BY <3>2, <3>3
  <2> QED BY <2>1 DEF Pairs
<1>2. R \in SUBSET Pairs(h) /\ Respected(h, R)
  BY <1>1 DEF Respected
<1>3. Leads(h) \subseteq R
  BY <1>2, LeadsLeast
<1>4. o \in Seq(NodeIds(h)) /\ p \in Seq(NodeIds(h))
  BY DEF Leads, Pairs
<1> QED BY <1>3, <1>4

\* The search as Order writes it.
EmitOf(h) ==
  CHOOSE emit : emit = [s \in Seq(NodeIds(h)) \X Seq(NodeIds(h)) |->
    LET todo == s[1]  out == s[2]  n == Head(todo) IN
    IF todo = <<>> THEN out
    ELSE IF n \in Visited(h, out) THEN emit[<<Tail(todo), out>>]
    ELSE IF \A i \in DOMAIN Sources(h, n) : Sources(h, n)[i] \in Visited(h, out)
         THEN emit[<<Tail(todo), Append(out, n)>>]
    ELSE emit[<<Sources(h, n) \o todo, out>>]]

\* The search as steps.
Follows(h, f) == [s \in SearchStates(h) |-> IF s[1] = <<>> THEN s[2] ELSE f[After(h, s)]]

\* The order is where the least relation leads: the recursion has a solution, and
\* every solution agrees with the relation.
LEMMA OrderLeads ==
  ASSUME NEW h, Acyclic(h), NEW roots \in Seq(NodeIds(h)), NEW o,
         <<<<roots, <<>>>>, o>> \in Leads(h)
  PROVE  Order(h, roots) = o
<1> DEFINE Ends(s) == \E y \in Seq(NodeIds(h)) : <<s, y>> \in Leads(h)
           f == [s \in SearchStates(h) |->
                   IF Ends(s) THEN CHOOSE y \in Seq(NodeIds(h)) : <<s, y>> \in Leads(h) ELSE <<>>]
           emit == EmitOf(h)
<1>1. \A g : Follows(h, g) = [s \in Seq(NodeIds(h)) \X Seq(NodeIds(h)) |->
        LET todo == s[1]  out == s[2]  n == Head(todo) IN
        IF todo = <<>> THEN out
        ELSE IF n \in Visited(h, out) THEN g[<<Tail(todo), out>>]
        ELSE IF \A i \in DOMAIN Sources(h, n) : Sources(h, n)[i] \in Visited(h, out)
             THEN g[<<Tail(todo), Append(out, n)>>]
        ELSE g[<<Sources(h, n) \o todo, out>>]]
  BY Zenon DEF Follows, After, SearchStates, SourcesVisited
<1>2. f = Follows(h, f)
  <2>1. ASSUME NEW s \in SearchStates(h) PROVE f[s] = Follows(h, f)[s]
    <3>1. CASE s[1] = <<>>
      <4>1. s[2] \in Seq(NodeIds(h))
        BY DEF SearchStates
      <4>2. \A y \in Seq(NodeIds(h)) : <<s, y>> \in Leads(h) <=> y = s[2]
        BY <3>1, LeadsStep DEF OneStep
      <4> QED BY <3>1, <4>1, <4>2 DEF Follows
    <3>2. CASE s[1] # <<>>
      <4>1. After(h, s) \in SearchStates(h)
        BY <3>2, AfterIsState
      <4>2. \A y \in Seq(NodeIds(h)) : <<s, y>> \in Leads(h) <=> <<After(h, s), y>> \in Leads(h)
        BY <3>2, LeadsStep DEF OneStep
      <4>3. Ends(s) <=> Ends(After(h, s))
        BY <4>2
      <4>4. f[s] = f[After(h, s)]
        <5>1. CASE ~Ends(s)
          BY <5>1, <4>1, <4>3
        <5>2. CASE Ends(s)
          <6>1. PICK y \in Seq(NodeIds(h)) : <<s, y>> \in Leads(h)
            BY <5>2
          <6>2. <<After(h, s), y>> \in Leads(h)
            BY <6>1, <4>2
          <6>3. f[s] \in Seq(NodeIds(h)) /\ <<s, f[s]>> \in Leads(h)
            BY <5>2
          <6>4. f[After(h, s)] \in Seq(NodeIds(h)) /\ <<After(h, s), f[After(h, s)]>> \in Leads(h)
            BY <5>2, <4>1, <4>3
          <6>5. f[s] = y
            BY <6>1, <6>3, LeadsOnce
          <6>6. f[After(h, s)] = y
            BY <6>2, <6>4, <4>1, LeadsOnce
          <6> QED BY <6>5, <6>6
        <5> QED BY <5>1, <5>2
      <4> QED BY <3>2, <4>4 DEF Follows
    <3> QED BY <3>1, <3>2
  <2>2. DOMAIN f = SearchStates(h) /\ DOMAIN Follows(h, f) = SearchStates(h)
    BY DEF Follows
  <2>3. f = [s \in SearchStates(h) |-> f[s]] /\ Follows(h, f) = [s \in SearchStates(h) |-> Follows(h, f)[s]]
    BY DEF Follows
  <2> HIDE DEF f
  <2> QED BY <2>1, <2>3
<1> HIDE DEF f
<1>3. emit = Follows(h, emit)
  <2>1. \E g : g = Follows(h, g)
    BY <1>2
  <2>2. emit = CHOOSE g : g = Follows(h, g)
    BY <1>1, Zenon DEF EmitOf
  <2> QED BY <2>1, <2>2
<1>4. Order(h, roots) = emit[<<roots, <<>>>>]
  BY DEF Order, EmitOf
<1> HIDE DEF emit
<1> DEFINE R == {p \in Pairs(h) : emit[p[1]] = p[2]}
<1>5. ASSUME NEW s \in SearchStates(h), NEW y \in Seq(NodeIds(h)), OneStep(h, s, y, R)
      PROVE  <<s, y>> \in R
  <2>1. emit[s] = IF s[1] = <<>> THEN s[2] ELSE emit[After(h, s)]
    BY <1>3 DEF Follows
  <2>2. emit[s] = y
    BY <1>5, <2>1 DEF OneStep
  <2> QED BY <2>2 DEF Pairs
<1>6. R \in SUBSET Pairs(h) /\ Respected(h, R)
  BY <1>5 DEF Respected
<1>7. Leads(h) \subseteq R
  BY <1>6, LeadsLeast
<1> QED BY <1>4, <1>7

\* A set of numbers that is not empty has a least one.
LEMMA LeastExists ==
  ASSUME NEW S \in SUBSET Nat, S # {}
  PROVE  \E x \in S : \A y \in S : x <= y
<1> DEFINE Below == OpToRel(<, Nat)
<1>1. \E x \in S : \A y \in S : ~ (<<y, x>> \in Below)
  BY NatLessThanWellFounded, WFMin
<1>2. \A x, y \in Nat : <<y, x>> \in Below <=> y < x
  BY DEF OpToRel
<1> HIDE DEF Below
<1>3. PICK x \in S : \A y \in S : ~ (<<y, x>> \in Below)
  BY <1>1
<1>4. \A y \in S : ~ (y < x)
  BY <1>2, <1>3
<1> QED BY <1>4

\* The search ends: whatever follows what is to visit is reached.
Ends(h, s) == \E o \in Seq(NodeIds(h)) : <<s, o>> \in Leads(h)
Grown(h, q, out, more) ==
  /\ Visited(h, out) \subseteq Visited(h, more)
  /\ \A i \in 1 .. Len(q) : q[i] \in Visited(h, more)
Walks(h, q) ==
  \A out, rest \in Seq(NodeIds(h)) :
    (\A more \in Seq(NodeIds(h)) : Grown(h, q, out, more) => Ends(h, <<rest, more>>))
      => Ends(h, <<q \o rest, out>>)

\* A state ends when the next one does.
LEMMA EndsStep ==
  ASSUME NEW h, Acyclic(h), NEW s \in SearchStates(h), s[1] # <<>>, Ends(h, After(h, s))
  PROVE  Ends(h, s)
<1>1. PICK o \in Seq(NodeIds(h)) : <<After(h, s), o>> \in Leads(h)
  BY DEF Ends
<1>2. OneStep(h, s, o, Leads(h))
  BY <1>1 DEF OneStep
<1> QED BY <1>2, LeadsStep DEF Ends

\* Putting one element in front of a sequence.
LEMMA OneAhead ==
  ASSUME NEW S, NEW m \in S, NEW rest \in Seq(S)
  PROVE  /\ <<m>> \o rest \in Seq(S) /\ <<m>> \o rest # <<>>
         /\ Head(<<m>> \o rest) = m /\ Tail(<<m>> \o rest) = rest
<1> DEFINE one == <<m>>
           q == one \o rest
<1>1. one \in Seq(S) /\ Len(one) = 1 /\ one[1] = m
  OBVIOUS
<1> HIDE DEF one
<1>2. /\ q \in Seq(S) /\ Len(q) = 1 + Len(rest) /\ Len(rest) \in Nat
      /\ q[1] = m /\ \A i \in 1 .. Len(rest) : q[i + 1] = rest[i]
  <2>1. /\ q \in Seq(S) /\ Len(q) = Len(one) + Len(rest)
        /\ \A i \in 1 .. Len(one) + Len(rest) : q[i] = IF i <= Len(one) THEN one[i] ELSE rest[i - Len(one)]
    BY <1>1, ConcatProperties, Zenon
  <2> HIDE DEF q
  <2>2. \A i \in 1 .. 1 + Len(rest) : q[i] = IF i <= 1 THEN one[i] ELSE rest[i - 1]
    BY <1>1, <2>1
  <2>3. Len(rest) \in Nat
    OBVIOUS
  <2> QED BY <1>1, <2>1, <2>2, <2>3
<1> HIDE DEF q
<1>3. q # <<>> /\ Head(q) = m
  BY <1>2
<1>4. Tail(q) \in Seq(S) /\ Len(Tail(q)) = Len(rest) /\ \A i \in 1 .. Len(Tail(q)) : Tail(q)[i] = q[i + 1]
  BY <1>2, <1>3, HeadTailProperties
<1>5. Tail(q) = rest
  BY <1>2, <1>4, SeqEqual
<1> QED BY <1>2, <1>3, <1>5 DEF q, one

\* Taking the first element off a sequence.
LEMMA FirstOff ==
  ASSUME NEW S, NEW p \in Seq(S), p # <<>>, NEW rest \in Seq(S)
  PROVE  /\ Tail(p) \o rest \in Seq(S) /\ p \o rest = <<Head(p)>> \o (Tail(p) \o rest)
<1>1. Head(p) \in S /\ Tail(p) \in Seq(S) /\ Len(Tail(p)) = Len(p) - 1
      /\ (\A i \in 1 .. Len(Tail(p)) : Tail(p)[i] = p[i + 1]) /\ Head(p) = p[1]
  BY HeadTailProperties
<1> DEFINE one == <<Head(p)>>
<1>2. one \in Seq(S) /\ Len(one) = 1 /\ one[1] = Head(p)
  BY <1>1
<1> HIDE DEF one
<1>3. one \o Tail(p) \in Seq(S) /\ Len(one \o Tail(p)) = 1 + Len(Tail(p))
      /\ \A i \in 1 .. 1 + Len(Tail(p)) : (one \o Tail(p))[i] = IF i <= 1 THEN Head(p) ELSE Tail(p)[i - 1]
  <2>1. one \o Tail(p) \in Seq(S) /\ Len(one \o Tail(p)) = Len(one) + Len(Tail(p))
        /\ \A i \in 1 .. Len(one) + Len(Tail(p)) :
             (one \o Tail(p))[i] = IF i <= Len(one) THEN one[i] ELSE Tail(p)[i - Len(one)]
    <3>1. one \in Seq(S) /\ Tail(p) \in Seq(S)
      BY <1>1, <1>2
    <3> HIDE <1>1, <1>2
    <3> QED BY <3>1, ConcatProperties, Zenon
  <2> QED BY <1>1, <1>2, <2>1
<1>4. Len(p) \in Nat \ {0}
  BY EmptySeq
<1>5. \A i \in 1 .. Len(p) : p[i] = (one \o Tail(p))[i]
  <2> TAKE i \in 1 .. Len(p)
  <2>1. CASE i = 1
    BY <2>1, <1>1, <1>3, <1>4
  <2>2. CASE i # 1
    <3>1. i - 1 \in 1 .. Len(Tail(p)) /\ i \in 1 .. 1 + Len(Tail(p)) /\ ~(i <= 1)
      BY <2>2, <1>1, <1>4
    <3>2. Tail(p)[i - 1] = p[i - 1 + 1]
      BY <3>1, <1>1
    <3> QED BY <3>1, <3>2, <1>3, <1>4
  <2> QED BY <2>1, <2>2
<1>6. p = one \o Tail(p)
  BY <1>1, <1>3, <1>4, <1>5, SeqEqual
<1>7. (one \o Tail(p)) \o rest = one \o (Tail(p) \o rest)
  BY <1>1, <1>2, ConcatAssociative, SMTT(60)
<1> QED BY <1>1, <1>6, <1>7, ConcatProperties DEF one

\* A list is visited when each of its nodes is.
LEMMA WalksSeq ==
  ASSUME NEW h, Acyclic(h), NEW q \in Seq(NodeIds(h)), \A i \in 1 .. Len(q) : Walks(h, <<q[i]>>)
  PROVE  Walks(h, q)
<1> DEFINE Bad == {p \in Seq(NodeIds(h)) : (\A i \in 1 .. Len(p) : Walks(h, <<p[i]>>)) /\ ~Walks(h, p)}
           Long == {Len(p) : p \in Bad}
<1>1. SUFFICES ASSUME ~Walks(h, q) PROVE FALSE
  OBVIOUS
<1>2. Long \subseteq Nat /\ Long # {}
  <2>1. q \in Bad
    BY <1>1
  <2>2. \A p \in Bad : Len(p) \in Nat
    OBVIOUS
  <2> HIDE DEF Bad
  <2> QED BY <2>1, <2>2
<1>3. PICK m \in Long : \A k \in Long : m <= k
  BY <1>2, LeastExists
<1>4. PICK p \in Seq(NodeIds(h)) : /\ \A i \in 1 .. Len(p) : Walks(h, <<p[i]>>)
                                   /\ ~Walks(h, p) /\ Len(p) = m
  BY <1>3
<1>5. PICK out \in Seq(NodeIds(h)), rest \in Seq(NodeIds(h)) :
        /\ \A more \in Seq(NodeIds(h)) : Grown(h, p, out, more) => Ends(h, <<rest, more>>)
        /\ ~Ends(h, <<p \o rest, out>>)
  BY <1>4 DEF Walks
<1>6. p # <<>>
  <2>1. CASE p = <<>>
    <3>1. Grown(h, p, out, out)
      BY <2>1 DEF Grown
    <3>2. p \o rest = rest
      BY <2>1, ConcatEmptySeq
    <3> QED BY <1>5, <3>1, <3>2
  <2> QED BY <2>1
<1> DEFINE t == Tail(p)
           n == Head(p)
<1>7. /\ t \in Seq(NodeIds(h)) /\ Len(t) = Len(p) - 1 /\ n = p[1] /\ n \in NodeIds(h)
      /\ \A i \in 1 .. Len(t) : t[i] = p[i + 1]
      /\ Len(p) \in Nat \ {0}
  BY <1>6, HeadTailProperties, EmptySeq
<1>8. Walks(h, t)
  <2>1. \A i \in 1 .. Len(t) : Walks(h, <<t[i]>>)
    BY <1>4, <1>7
  <2>2. Len(t) < m
    BY <1>4, <1>7
  <2>3. t \notin Bad
    <3> HIDE DEF Bad, t
    <3> QED BY <1>2, <1>3, <2>2
  <2> QED BY <1>7, <2>1, <2>3
<1>9. Walks(h, <<n>>)
  BY <1>4, <1>7
<1>10. p \o rest = <<n>> \o (t \o rest) /\ t \o rest \in Seq(NodeIds(h))
  BY <1>6, FirstOff
<1>11. ASSUME NEW more \in Seq(NodeIds(h)), Grown(h, <<n>>, out, more)
       PROVE  Ends(h, <<t \o rest, more>>)
  <2>1. ASSUME NEW yet \in Seq(NodeIds(h)), Grown(h, t, more, yet) PROVE Ends(h, <<rest, yet>>)
    <3>1. n \in Visited(h, yet) /\ Visited(h, out) \subseteq Visited(h, yet)
      <4>1. Len(<<n>>) = 1 /\ <<n>>[1] = n
        OBVIOUS
      <4> HIDE DEF n
      <4> QED BY <1>11, <2>1, <4>1 DEF Grown
    <3>2. \A i \in 1 .. Len(p) : p[i] \in Visited(h, yet)
      <4> TAKE i \in 1 .. Len(p)
      <4>1. CASE i = 1
        BY <4>1, <3>1, <1>7
      <4>2. CASE i # 1
        <5>1. i - 1 \in 1 .. Len(t) /\ p[i] = t[i - 1]
          BY <4>2, <1>7
        <5> HIDE DEF t
        <5> QED BY <5>1, <2>1 DEF Grown
      <4> QED BY <4>1, <4>2
    <3>3. Grown(h, p, out, yet)
      BY <3>1, <3>2 DEF Grown
    <3> QED BY <1>5, <3>3
  <2> HIDE DEF t
  <2> QED BY <1>7, <1>8, <2>1 DEF Walks
<1> HIDE DEF n, t
<1>12. Ends(h, <<<<n>> \o (t \o rest), out>>)
  BY <1>9, <1>10, <1>11 DEF Walks
<1> QED BY <1>5, <1>10, <1>12

\* Every node is visited, because its sources are older.
LEMMA WalksNode ==
  ASSUME NEW h, Acyclic(h), NEW n \in NodeIds(h)
  PROVE  Walks(h, <<n>>)
<1> DEFINE Bad == {m \in NodeIds(h) : ~Walks(h, <<m>>)}
<1>1. SUFFICES ASSUME Bad # {} PROVE FALSE
  OBVIOUS
<1>2. Bad \subseteq Nat
  BY DEF Acyclic
<1>3. PICK m \in Bad : \A k \in Bad : m <= k
  BY <1>1, <1>2, LeastExists
<1> DEFINE srcs == Sources(h, m)
<1>4. srcs \in Seq(NodeIds(h)) /\ Walks(h, srcs)
  <2>1. srcs \in Seq(NodeIds(h)) /\ \A i \in 1 .. Len(srcs) : srcs[i] < m
    BY DEF Acyclic
  <2>2. \A i \in 1 .. Len(srcs) : srcs[i] \in NodeIds(h)
    BY <2>1
  <2> HIDE DEF srcs
  <2>3. ASSUME NEW i \in 1 .. Len(srcs) PROVE Walks(h, <<srcs[i]>>)
    <3>1. srcs[i] < m /\ srcs[i] \in NodeIds(h)
      BY <2>1, <2>2
    <3>2. srcs[i] \notin Bad
      BY <1>2, <1>3, <3>1
    <3> QED BY <3>1, <3>2
  <2> QED BY <2>1, <2>3, WalksSeq
<1>5. PICK out \in Seq(NodeIds(h)), rest \in Seq(NodeIds(h)) :
        /\ \A more \in Seq(NodeIds(h)) : Grown(h, <<m>>, out, more) => Ends(h, <<rest, more>>)
        /\ ~Ends(h, <<<<m>> \o rest, out>>)
  BY <1>3 DEF Walks
<1> DEFINE todo == <<m>> \o rest
<1>6. /\ todo \in Seq(NodeIds(h)) /\ todo # <<>> /\ Head(todo) = m /\ Tail(todo) = rest
      /\ \A x \in Seq(NodeIds(h)) : <<todo, x>> \in SearchStates(h)
  <2>1. todo \in Seq(NodeIds(h)) /\ todo # <<>> /\ Head(todo) = m /\ Tail(todo) = rest
    BY OneAhead
  <2> HIDE DEF todo
  <2> QED BY <2>1 DEF SearchStates
<1> HIDE DEF todo
<1>7. ASSUME NEW more \in Seq(NodeIds(h)), Visited(h, out) \subseteq Visited(h, more),
             m \in Visited(h, more) \/ SourcesVisited(h, m, more)
      PROVE  Ends(h, <<todo, more>>)
  <2>1. CASE m \in Visited(h, more)
    <3>1. After(h, <<todo, more>>) = <<rest, more>>
      BY <1>6, <2>1 DEF After
    <3>2. Grown(h, <<m>>, out, more)
      BY <1>7, <2>1 DEF Grown
    <3> QED BY <1>5, <1>6, <3>1, <3>2, EndsStep
  <2>2. CASE m \notin Visited(h, more)
    <3>1. After(h, <<todo, more>>) = <<rest, Append(more, m)>>
      BY <1>6, <1>7, <2>2 DEF After
    <3>2. Append(more, m) \in Seq(NodeIds(h)) /\ Visited(h, Append(more, m)) = Visited(h, more) \cup {m}
      <4>1. Append(more, m) \in Seq(NodeIds(h)) /\ Len(Append(more, m)) = Len(more) + 1 /\ Len(more) \in Nat
            /\ (\A i \in 1 .. Len(more) : Append(more, m)[i] = more[i]) /\ Append(more, m)[Len(more) + 1] = m
        OBVIOUS
      <4>2. DOMAIN Append(more, m) = 1 .. Len(more) + 1 /\ DOMAIN more = 1 .. Len(more)
        BY <4>1
      <4> QED BY <4>1, <4>2 DEF Visited
    <3>3. Grown(h, <<m>>, out, Append(more, m))
      BY <1>7, <3>2 DEF Grown
    <3> QED BY <1>5, <1>6, <3>1, <3>2, <3>3, EndsStep
  <2> QED BY <2>1, <2>2
<1>8. CASE m \in Visited(h, out) \/ SourcesVisited(h, m, out)
  BY <1>5, <1>7, <1>8 DEF todo
<1>9. CASE ~(m \in Visited(h, out) \/ SourcesVisited(h, m, out))
  <2>1. After(h, <<todo, out>>) = <<srcs \o todo, out>>
    BY <1>6, <1>9 DEF After
  <2>2. ASSUME NEW more \in Seq(NodeIds(h)), Grown(h, srcs, out, more) PROVE Ends(h, <<todo, more>>)
    <3>1. SourcesVisited(h, m, more)
      <4>1. DOMAIN srcs = 1 .. Len(srcs)
        BY <1>4
      <4> QED BY <2>2, <4>1 DEF SourcesVisited, Grown
    <3> QED BY <1>7, <2>2, <3>1 DEF Grown
  <2> HIDE DEF srcs
  <2>3. Ends(h, <<srcs \o todo, out>>)
    BY <1>4, <1>6, <2>2 DEF Walks
  <2> QED BY <1>5, <1>6, <2>1, <2>3, EndsStep DEF todo
<1> QED BY <1>8, <1>9

\* What an order must be: every node not computed, once, after its sources.
Sound(h, out) ==
  \A k \in 1 .. Len(out) :
    /\ out[k] \notin h.computed
    /\ \A j \in 1 .. k - 1 : out[j] # out[k]
    /\ \A i \in 1 .. Len(Sources(h, out[k])) :
         \/ Sources(h, out[k])[i] \in h.computed
         \/ \E j \in 1 .. k - 1 : out[j] = Sources(h, out[k])[i]

\* Whether an order is sound depends on the graph and its flags alone.
LEMMA SoundElsewhere ==
  ASSUME NEW h, NEW g, NEW out, Sound(h, out), g.nodes = h.nodes, g.computed = h.computed
  PROVE  Sound(g, out)
<1>1. \A n : Sources(g, n) = Sources(h, n)
  BY DEF Sources
<1> SUFFICES ASSUME NEW k \in 1 .. Len(out)
             PROVE  /\ out[k] \notin g.computed
                    /\ \A j \in 1 .. k - 1 : out[j] # out[k]
                    /\ \A i \in 1 .. Len(Sources(g, out[k])) :
                         \/ Sources(g, out[k])[i] \in g.computed
                         \/ \E j \in 1 .. k - 1 : out[j] = Sources(g, out[k])[i]
  BY DEF Sound
<1> DEFINE s == Sources(g, out[k])
<1>2. s = Sources(h, out[k])
  BY <1>1
<1> HIDE DEF s
<1> QED BY <1>2 DEF Sound, s

\* Appending a node whose sources have been visited keeps an order sound.
LEMMA AppendSound ==
  ASSUME NEW h, Acyclic(h), NEW out \in Seq(NodeIds(h)), NEW n \in NodeIds(h),
         Sound(h, out), n \notin Visited(h, out), SourcesVisited(h, n, out)
  PROVE  /\ Sound(h, Append(out, n))
         /\ Visited(h, Append(out, n)) = Visited(h, out) \cup {n}
<1> DEFINE more == Append(out, n)
<1>1. /\ Len(out) \in Nat /\ Len(more) = Len(out) + 1 /\ more[Len(out) + 1] = n
      /\ \A i \in 1 .. Len(out) : more[i] = out[i]
  OBVIOUS
<1>2. DOMAIN out = 1 .. Len(out) /\ DOMAIN more = 1 .. Len(out) + 1
      /\ DOMAIN Sources(h, n) = 1 .. Len(Sources(h, n))
  BY DEF Acyclic
<1> HIDE DEF more
<1>3. Visited(h, more) = Visited(h, out) \cup {n}
  BY <1>1, <1>2 DEF Visited
<1>4. \A x : x \in Visited(h, out) <=> x \in h.computed \/ \E j \in 1 .. Len(out) : out[j] = x
  BY <1>2 DEF Visited
<1>5. ASSUME NEW k \in 1 .. Len(more)
      PROVE  /\ more[k] \notin h.computed
             /\ \A j \in 1 .. k - 1 : more[j] # more[k]
             /\ \A i \in 1 .. Len(Sources(h, more[k])) :
                  \/ Sources(h, more[k])[i] \in h.computed
                  \/ \E j \in 1 .. k - 1 : more[j] = Sources(h, more[k])[i]
  <2>1. CASE k = Len(out) + 1
    <3>1. more[k] = n /\ \A j \in 1 .. k - 1 : j \in 1 .. Len(out) /\ more[j] = out[j]
      BY <1>1, <2>1
    <3>2. \A j \in 1 .. Len(out) : j \in 1 .. k - 1
      BY <1>1, <2>1
    <3>3. n \notin h.computed /\ \A j \in 1 .. Len(out) : out[j] # n
      BY <1>4
    <3>4. \A i \in 1 .. Len(Sources(h, n)) :
            Sources(h, n)[i] \in h.computed \/ \E j \in 1 .. Len(out) : out[j] = Sources(h, n)[i]
      BY <1>2, <1>4 DEF SourcesVisited
    <3> QED BY <3>1, <3>2, <3>3, <3>4, SMTT(60)
  <2>2. CASE k # Len(out) + 1
    <3>1. k \in 1 .. Len(out) /\ more[k] = out[k] /\ \A j \in 1 .. k - 1 : more[j] = out[j]
      BY <1>1, <2>2
    <3> QED BY <3>1, SMTT(60) DEF Sound
  <2> QED BY <2>1, <2>2
<1> QED BY <1>3, <1>5 DEF Sound, more

\* What is known when the search has ended: all it had to visit is visited.
Settled(h, s, o) ==
  Sound(h, s[2]) =>
    /\ Sound(h, o) /\ Visited(h, s[2]) \subseteq Visited(h, o)
    /\ \A i \in 1 .. Len(s[1]) : s[1][i] \in Visited(h, o)

\* Where the search ends from each state.
LEMMA LeadsSettled ==
  ASSUME NEW h, Acyclic(h), NEW s \in SearchStates(h), NEW o \in Seq(NodeIds(h)), <<s, o>> \in Leads(h)
  PROVE  Settled(h, s, o)
<1> DEFINE R == {p \in Pairs(h) : Settled(h, p[1], p[2])}
<1>1. ASSUME NEW x \in SearchStates(h), NEW y \in Seq(NodeIds(h)), OneStep(h, x, y, R)
      PROVE  <<x, y>> \in R
  <2> DEFINE todo == x[1]
             out == x[2]
             n == Head(todo)
  <2>1. todo \in Seq(NodeIds(h)) /\ out \in Seq(NodeIds(h))
    BY DEF SearchStates
  <2>2. Settled(h, x, y)
    <3>1. CASE todo = <<>>
      BY <1>1, <3>1 DEF OneStep, Settled
    <3>2. CASE todo # <<>>
      <4>1. Settled(h, After(h, x), y)
        BY <1>1, <3>2 DEF OneStep
      <4>2. /\ n \in NodeIds(h) /\ n = todo[1] /\ Tail(todo) \in Seq(NodeIds(h))
            /\ Len(Tail(todo)) = Len(todo) - 1 /\ Len(todo) \in Nat
            /\ \A i \in 1 .. Len(Tail(todo)) : Tail(todo)[i] = todo[i + 1]
        BY <2>1, <3>2, HeadTailProperties
      <4>3. SUFFICES ASSUME Sound(h, out)
                     PROVE  /\ Sound(h, y) /\ Visited(h, out) \subseteq Visited(h, y)
                            /\ \A i \in 1 .. Len(todo) : todo[i] \in Visited(h, y)
        BY DEF Settled
      <4> HIDE DEF n, todo, out
      <4>4. ASSUME NEW V, n \in V, \A i \in 1 .. Len(Tail(todo)) : Tail(todo)[i] \in V
            PROVE  \A i \in 1 .. Len(todo) : todo[i] \in V
        <5> TAKE i \in 1 .. Len(todo)
        <5>1. CASE i = 1
          BY <5>1, <4>2, <4>4
        <5>2. CASE i # 1
          <6>1. i - 1 \in 1 .. Len(Tail(todo)) /\ i - 1 + 1 = i
            BY <5>2, <4>2
          <6> QED BY <6>1, <4>2, <4>4
        <5> QED BY <5>1, <5>2
      <4>5. CASE n \in Visited(h, out)
        <5>1. After(h, x) = <<Tail(todo), out>>
          BY <4>5 DEF After, n, todo, out
        <5>2. /\ Sound(h, y) /\ Visited(h, out) \subseteq Visited(h, y)
              /\ \A i \in 1 .. Len(Tail(todo)) : Tail(todo)[i] \in Visited(h, y)
          BY <4>1, <4>3, <5>1 DEF Settled
        <5> QED BY <4>4, <4>5, <5>2
      <4>6. CASE n \notin Visited(h, out) /\ SourcesVisited(h, n, out)
        <5>1. After(h, x) = <<Tail(todo), Append(out, n)>>
          BY <4>6 DEF After, n, todo, out
        <5>2. Sound(h, Append(out, n)) /\ Visited(h, Append(out, n)) = Visited(h, out) \cup {n}
          BY <2>1, <4>2, <4>3, <4>6, AppendSound
        <5>3. /\ Sound(h, y) /\ Visited(h, out) \cup {n} \subseteq Visited(h, y)
              /\ \A i \in 1 .. Len(Tail(todo)) : Tail(todo)[i] \in Visited(h, y)
          BY <4>1, <5>1, <5>2 DEF Settled
        <5> QED BY <4>4, <5>3
      <4>7. CASE n \notin Visited(h, out) /\ ~SourcesVisited(h, n, out)
        <5> DEFINE srcs == Sources(h, n)
        <5>1. After(h, x) = <<srcs \o todo, out>>
          BY <4>7 DEF After, n, todo, out
        <5>2. srcs \in Seq(NodeIds(h))
          BY <4>2 DEF Acyclic
        <5> HIDE DEF srcs
        <5>3. Len(srcs \o todo) = Len(srcs) + Len(todo)
              /\ \A i \in 1 .. Len(srcs) + Len(todo) :
                   (srcs \o todo)[i] = IF i <= Len(srcs) THEN srcs[i] ELSE todo[i - Len(srcs)]
          <6>1. todo \in Seq(NodeIds(h))
            BY <2>1
          <6> QED BY <5>2, <6>1, ConcatProperties, Zenon
        <5>4. /\ Sound(h, y) /\ Visited(h, out) \subseteq Visited(h, y)
              /\ \A i \in 1 .. Len(srcs \o todo) : (srcs \o todo)[i] \in Visited(h, y)
          BY <4>1, <4>3, <5>1 DEF Settled
        <5>5. ASSUME NEW i \in 1 .. Len(todo) PROVE todo[i] \in Visited(h, y)
          <6>1. /\ i + Len(srcs) \in 1 .. Len(srcs) + Len(todo) /\ ~(i + Len(srcs) <= Len(srcs))
                /\ i + Len(srcs) - Len(srcs) = i
            BY <4>2, <5>2
          <6>2. (srcs \o todo)[i + Len(srcs)] = todo[i]
            BY <5>3, <6>1
          <6> QED BY <5>3, <5>4, <6>1, <6>2
        <5> QED BY <5>4, <5>5
      <4> QED BY <4>5, <4>6, <4>7
    <3> QED BY <3>1, <3>2
  <2> QED BY <2>2 DEF Pairs
<1>2. R \in SUBSET Pairs(h) /\ Respected(h, R)
  BY <1>1 DEF Respected
<1>3. Leads(h) \subseteq R
  BY <1>2, LeadsLeast
<1> QED BY <1>3

\* topological_order() over the whole heap: every node not computed, once, after
\* its sources, and all of what was asked.
LEMMA OrderSound ==
  ASSUME NEW h, Acyclic(h), NEW roots \in Seq(NodeIds(h))
  PROVE  /\ Order(h, roots) \in Seq(NodeIds(h)) /\ Sound(h, Order(h, roots))
         /\ \A i \in 1 .. Len(roots) : roots[i] \in Visited(h, Order(h, roots))
<1>1. Walks(h, roots)
  <2>1. \A i \in 1 .. Len(roots) : Walks(h, <<roots[i]>>)
    BY WalksNode
  <2> QED BY <2>1, WalksSeq
<1>2. \A out \in Seq(NodeIds(h)) : Ends(h, <<<<>>, out>>)
  <2> TAKE out \in Seq(NodeIds(h))
  <2> DEFINE s == <<<<>>, out>>
  <2>1. s \in SearchStates(h) /\ s[1] = <<>> /\ s[2] = out
    BY EmptySeq DEF SearchStates
  <2> HIDE DEF s
  <2>2. <<s, out>> \in Leads(h)
    BY <2>1, LeadsStep DEF OneStep
  <2> QED BY <2>2 DEF Ends, s
<1>3. roots \o <<>> = roots /\ <<>> \in Seq(NodeIds(h))
  BY ConcatEmptySeq
<1> DEFINE s == <<roots, <<>>>>
<1>4. Ends(h, s)
  BY <1>1, <1>2, <1>3 DEF Walks
<1>5. s \in SearchStates(h) /\ s[1] = roots /\ s[2] = <<>>
  BY <1>3 DEF SearchStates
<1>6. PICK o \in Seq(NodeIds(h)) : <<s, o>> \in Leads(h)
  BY <1>4 DEF Ends
<1>7. Order(h, roots) = o
  BY <1>6, OrderLeads
<1> HIDE DEF s
<1>8. Sound(h, <<>>)
  BY DEF Sound
<1>9. Settled(h, s, o)
  BY <1>5, <1>6, LeadsSettled
<1> QED BY <1>5, <1>7, <1>8, <1>9 DEF Settled

-----------------------------------------------------------------------------
(* The folds, step by step.                                                *)

\* What one step of each fold of the module does to what it has so far.
FoldStep(what, ds, fs, x, n) ==
  CASE what = "bind" -> Placed(x, n)
    [] what = "compute" -> Computed(x, n)
    [] what = "flatten" -> LET f == Flattened(x.heap, n)
                           IN  [heap |-> f.heap, nodes |-> Append(x.nodes, f.node)]
    [] what = "copy" -> Copy(x, ds[n], fs[n])
    [] what = "batch" -> BatchCopy(x, ds[n], fs[n])
    [] what = "staged" -> IF Overlap(ds.heap, ds.dst[n], fs[n]) THEN Append(x, n) ELSE x
    [] what = "batched" -> IF Overlap(ds.heap, ds.dst[n], fs[n]) THEN x ELSE Append(x, n)

IterRule(what, ds, fs, base, seq, it) ==
  [s \in SUBSET DOMAIN seq |->
     IF s = {} THEN base ELSE FoldStep(what, ds, fs, it[s \ {Max(s)}], seq[Max(s)])]

\* The states a fold goes through.
Steps(what, ds, fs, base, seq, g) ==
  /\ g[0] = base
  /\ \A k \in 1 .. Len(seq) : g[k] = FoldStep(what, ds, fs, g[k - 1], seq[k])

\* The last of the first numbers.
LEMMA MaxOfTop ==
  ASSUME NEW m \in Nat, NEW s \in SUBSET (1 .. m + 1), m + 1 \in s
  PROVE  Max(s) = m + 1
<1>1. \A x \in s : x \in Nat /\ x <= m + 1
  OBVIOUS
<1>2. \A x \in s : (\A y \in s : x >= y) <=> x = m + 1
  BY <1>1
<1> QED BY <1>2 DEF Max

\* The recursion of a fold has a solution.
LEMMA IterExists ==
  ASSUME NEW what, NEW ds, NEW fs, NEW base, NEW seq, Len(seq) \in Nat, DOMAIN seq = 1 .. Len(seq)
  PROVE  \E it : it = IterRule(what, ds, fs, base, seq, it)
<1> DEFINE Rule(m, it) == [s \in SUBSET (1 .. m) |->
                 IF s = {} THEN base ELSE FoldStep(what, ds, fs, it[s \ {Max(s)}], seq[Max(s)])]
           Bad == {m \in 0 .. Len(seq) : ~ \E it : it = Rule(m, it)}
<1>1. \E it : it = Rule(0, it)
  <2> DEFINE it == [s \in SUBSET (1 .. 0) |-> base]
  <2>1. it = Rule(0, it)
    OBVIOUS
  <2> QED BY <2>1
<1>2. ASSUME NEW m \in Nat, NEW f, f = Rule(m, f) PROVE \E it : it = Rule(m + 1, it)
  <2> DEFINE it == [s \in SUBSET (1 .. m + 1) |->
                      IF m + 1 \in s THEN FoldStep(what, ds, fs, f[s \ {m + 1}], seq[m + 1]) ELSE f[s]]
  <2>1. ASSUME NEW s \in SUBSET (1 .. m + 1) PROVE it[s] = Rule(m + 1, it)[s]
    <3>1. CASE m + 1 \in s
      <4>1. Max(s) = m + 1 /\ s # {}
        BY <3>1, MaxOfTop
      <4>2. s \ {m + 1} \in SUBSET (1 .. m) /\ s \ {m + 1} \in SUBSET (1 .. m + 1)
        OBVIOUS
      <4>3. it[s \ {m + 1}] = f[s \ {m + 1}]
        BY <4>2
      <4>4. it[s] = FoldStep(what, ds, fs, f[s \ {m + 1}], seq[m + 1])
        BY <3>1
      <4>5. Rule(m + 1, it)[s] = FoldStep(what, ds, fs, it[s \ {Max(s)}], seq[Max(s)])
        BY <4>1
      <4> HIDE DEF it, Rule
      <4> QED BY <4>1, <4>3, <4>4, <4>5
    <3>2. CASE m + 1 \notin s
      <4>1. s \in SUBSET (1 .. m)
        BY <3>2
      <4>2. it[s] = f[s] /\ f[s] = Rule(m, f)[s]
        BY <1>2, <3>2
      <4>3. CASE s = {}
        BY <4>1, <4>2, <4>3
      <4>4. CASE s # {}
        <5>1. Max(s) \in s
          <6>1. s \in SUBSET Nat /\ \A y \in s : y <= m
            BY <4>1
          <6>2. \E x \in s : \A y \in s : x >= y
            <7> DEFINE Above == {u \in Nat : \A y \in s : y <= u}
            <7>1. m \in Above /\ Above \in SUBSET Nat
              BY <6>1
            <7>2. PICK u \in Above : \A v \in Above : u <= v
              BY <7>1, LeastExists
            <7>3. u \in s
              <8>1. CASE u = 0
                <9>1. PICK y \in s : TRUE
                  BY <4>4
                <9>2. y <= 0 /\ y \in 1 .. m
                  BY <4>1, <7>2, <8>1, <9>1
                <9> QED BY <9>2
              <8>2. CASE u # 0
                <9>1. u - 1 \in Nat /\ u - 1 \notin Above
                  BY <7>2, <8>2
                <9>2. PICK y \in s : ~(y <= u - 1)
                  BY <9>1
                <9>3. y <= u /\ y \in Nat /\ u \in Nat
                  BY <6>1, <7>2
                <9> QED BY <9>2, <9>3
              <8> QED BY <8>1, <8>2
            <7> QED BY <6>1, <7>2, <7>3
          <6> QED BY <6>2 DEF Max
        <5>2. s \ {Max(s)} \in SUBSET (1 .. m) /\ m + 1 \notin s \ {Max(s)}
          BY <3>2, <4>1
        <5>3. s \ {Max(s)} \in SUBSET (1 .. m + 1)
          OBVIOUS
        <5>4. it[s \ {Max(s)}] = f[s \ {Max(s)}]
          BY <5>2, <5>3
        <5>5. Rule(m, f)[s] = FoldStep(what, ds, fs, f[s \ {Max(s)}], seq[Max(s)])
          BY <4>1, <4>4
        <5>6. Rule(m + 1, it)[s] = FoldStep(what, ds, fs, it[s \ {Max(s)}], seq[Max(s)])
          BY <4>4
        <5> HIDE DEF it, Rule
        <5> QED BY <4>2, <5>4, <5>5, <5>6
      <4> QED BY <4>3, <4>4
    <3> QED BY <3>1, <3>2
  <2>2. it = Rule(m + 1, it)
    <3>1. it = [s \in SUBSET (1 .. m + 1) |-> it[s]]
          /\ Rule(m + 1, it) = [s \in SUBSET (1 .. m + 1) |-> Rule(m + 1, it)[s]]
      OBVIOUS
    <3> HIDE DEF it, Rule
    <3> QED BY <2>1, <3>1
  <2> QED BY <2>2
<1>3. Bad = {}
  <2> HIDE DEF Rule
  <2> SUFFICES ASSUME Bad # {} PROVE FALSE
    OBVIOUS
  <2>1. Bad \in SUBSET Nat
    OBVIOUS
  <2>2. PICK m \in Bad : \A k \in Bad : m <= k
    BY <2>1, LeastExists
  <2>3. m # 0 /\ m \in Nat /\ m - 1 \in 0 .. Len(seq) /\ m - 1 \in Nat /\ m - 1 + 1 = m
    BY <1>1, <2>2
  <2>4. m - 1 \notin Bad
    BY <2>2, <2>3
  <2>5. PICK f : f = Rule(m - 1, f)
    BY <2>3, <2>4
  <2>6. \E it : it = Rule(m - 1 + 1, it)
    BY <1>2, <2>3, <2>5
  <2> QED BY <2>2, <2>3, <2>6
<1>4. PICK it : it = Rule(Len(seq), it)
  <2> HIDE DEF Rule
  <2>1. Len(seq) \in 0 .. Len(seq)
    OBVIOUS
  <2> QED BY <1>3, <2>1
<1> QED BY <1>4 DEF IterRule

\* A solution of it gives the states the fold goes through.
LEMMA IterSteps ==
  ASSUME NEW what, NEW ds, NEW fs, NEW base, NEW seq, Len(seq) \in Nat, DOMAIN seq = 1 .. Len(seq),
         NEW it, it = IterRule(what, ds, fs, base, seq, it)
  PROVE  \E g : Steps(what, ds, fs, base, seq, g) /\ g[Len(seq)] = it[DOMAIN seq]
<1> DEFINE g == [k \in 0 .. Len(seq) |-> it[1 .. k]]
<1>1. \A s \in SUBSET DOMAIN seq :
        it[s] = IF s = {} THEN base ELSE FoldStep(what, ds, fs, it[s \ {Max(s)}], seq[Max(s)])
  BY DEF IterRule
<1>2. g[0] = base
  <2>1. 1 .. 0 = {} /\ {} \in SUBSET DOMAIN seq /\ g[0] = it[1 .. 0]
    OBVIOUS
  <2>2. it[{}] = base
    BY <1>1, <2>1
  <2> HIDE DEF g
  <2> QED BY <2>1, <2>2
<1>3. ASSUME NEW k \in 1 .. Len(seq) PROVE g[k] = FoldStep(what, ds, fs, g[k - 1], seq[k])
  <2>1. k - 1 \in Nat /\ 1 .. k \in SUBSET (1 .. k - 1 + 1) /\ k - 1 + 1 \in 1 .. k /\ k - 1 + 1 = k
    OBVIOUS
  <2>2. Max(1 .. k) = k
    BY <2>1, MaxOfTop
  <2>3. (1 .. k) \ {k} = 1 .. k - 1 /\ 1 .. k # {} /\ 1 .. k \in SUBSET DOMAIN seq
    OBVIOUS
  <2>4. it[1 .. k] = FoldStep(what, ds, fs, it[1 .. k - 1], seq[k])
    BY <1>1, <2>2, <2>3
  <2>5. g[k] = it[1 .. k] /\ g[k - 1] = it[1 .. k - 1]
    OBVIOUS
  <2> HIDE DEF g
  <2> QED BY <2>4, <2>5
<1>4. g[Len(seq)] = it[DOMAIN seq]
  OBVIOUS
<1> HIDE DEF g
<1> QED BY <1>2, <1>3, <1>4 DEF Steps

\* bind_storage() for each node of an order, in turn.
BindIter(h, order) ==
  CHOOSE iter : iter = [s \in SUBSET DOMAIN order |->
    IF s = {} THEN h ELSE LET x == Max(s) IN Placed(iter[s \ {x}], order[x])]

\* Binding an order goes through the states after each node.
LEMMA BindSteps ==
  ASSUME NEW h, NEW order, Len(order) \in Nat, DOMAIN order = 1 .. Len(order)
  PROVE  \E g : Steps("bind", <<>>, <<>>, h, order, g) /\ g[Len(order)] = BindAll(h, order)
<1> DEFINE it == BindIter(h, order)
<1>1. BindAll(h, order) = it[DOMAIN order]
  BY DEF BindAll, FoldLeft, MapThenFoldSet, BindIter
<1>2. \A f : IterRule("bind", <<>>, <<>>, h, order, f) =
        [s \in SUBSET DOMAIN order |-> IF s = {} THEN h ELSE LET x == Max(s) IN Placed(f[s \ {x}], order[x])]
  BY DEF IterRule, FoldStep
<1>3. it = CHOOSE f : f = IterRule("bind", <<>>, <<>>, h, order, f)
  BY <1>2, ZenonT(60) DEF BindIter
<1>4. it = IterRule("bind", <<>>, <<>>, h, order, it)
  BY <1>3, IterExists
<1> HIDE DEF it
<1> QED BY <1>1, <1>4, IterSteps

\* The kernels of an order, in turn.
ComputeIter(h, order) ==
  CHOOSE iter : iter = [s \in SUBSET DOMAIN order |->
    IF s = {} THEN h ELSE LET x == Max(s) IN Computed(iter[s \ {x}], order[x])]

\* Evaluating an order goes through the states of its kernels.
LEMMA ComputeSteps ==
  ASSUME NEW h, NEW order, Len(order) \in Nat, DOMAIN order = 1 .. Len(order)
  PROVE  \E g : Steps("compute", <<>>, <<>>, h, order, g) /\ g[Len(order)] = ComputeAll(h, order)
<1> DEFINE it == ComputeIter(h, order)
<1>1. ComputeAll(h, order) = it[DOMAIN order]
  BY DEF ComputeAll, FoldLeft, MapThenFoldSet, ComputeIter
<1>2. \A f : IterRule("compute", <<>>, <<>>, h, order, f) =
        [s \in SUBSET DOMAIN order |-> IF s = {} THEN h ELSE LET x == Max(s) IN Computed(f[s \ {x}], order[x])]
  BY DEF IterRule, FoldStep
<1>3. it = CHOOSE f : f = IterRule("compute", <<>>, <<>>, h, order, f)
  BY <1>2, ZenonT(60) DEF ComputeIter
<1>4. it = IterRule("compute", <<>>, <<>>, h, order, it)
  BY <1>3, IterExists
<1> HIDE DEF it
<1> QED BY <1>1, <1>4, IterSteps

\* The copies of an assign(), in turn.
CopyRule(h, ds, fs, ks, iter) ==
  [s \in SUBSET DOMAIN ks |->
    IF s = {} THEN h ELSE LET x == Max(s) IN Copy(iter[s \ {x}], ds[ks[x]], fs[ks[x]])]
CopyIter(h, ds, fs, ks) == CHOOSE iter : iter = CopyRule(h, ds, fs, ks, iter)

\* Copying goes through the states after each copy.
LEMMA CopySteps ==
  ASSUME NEW h, NEW ds, NEW fs, NEW ks, Len(ks) \in Nat, DOMAIN ks = 1 .. Len(ks)
  PROVE  \E g : Steps("copy", ds, fs, h, ks, g) /\ g[Len(ks)] = CopyAll(h, ds, fs, ks)
<1> DEFINE it == CopyIter(h, ds, fs, ks)
<1>1. CopyAll(h, ds, fs, ks) = it[DOMAIN ks]
  BY DEF CopyAll, FoldLeft, MapThenFoldSet, CopyIter, CopyRule
<1>2. \A f : IterRule("copy", ds, fs, h, ks, f) = CopyRule(h, ds, fs, ks, f)
  BY DEF IterRule, FoldStep, CopyRule
<1>3. it = CHOOSE f : f = IterRule("copy", ds, fs, h, ks, f)
  BY <1>2, Zenon DEF CopyIter
<1>4. it = IterRule("copy", ds, fs, h, ks, it)
  BY <1>3, IterExists
<1> HIDE DEF it
<1> QED BY <1>1, <1>4, IterSteps

\* The copies of a batch, in the order they happen.
BatchRule(h, ds, fs, ks, iter) ==
  [s \in SUBSET DOMAIN ks |->
    IF s = {} THEN h ELSE LET x == Max(s) IN BatchCopy(iter[s \ {x}], ds[ks[x]], fs[ks[x]])]
BatchIter(h, ds, fs, ks) == CHOOSE iter : iter = BatchRule(h, ds, fs, ks, iter)

\* So does a batch.
LEMMA BatchSteps ==
  ASSUME NEW h, NEW ds, NEW fs, NEW ks, Len(ks) \in Nat, DOMAIN ks = 1 .. Len(ks)
  PROVE  \E g : Steps("batch", ds, fs, h, ks, g) /\ g[Len(ks)] = BatchAll(h, ds, fs, ks)
<1> DEFINE it == BatchIter(h, ds, fs, ks)
<1>1. BatchAll(h, ds, fs, ks) = it[DOMAIN ks]
  BY DEF BatchAll, FoldLeft, MapThenFoldSet, BatchIter, BatchRule
<1>2. \A f : IterRule("batch", ds, fs, h, ks, f) = BatchRule(h, ds, fs, ks, f)
  BY DEF IterRule, FoldStep, BatchRule
<1>3. it = CHOOSE f : f = IterRule("batch", ds, fs, h, ks, f)
  BY <1>2, Zenon DEF BatchIter
<1>4. it = IterRule("batch", ds, fs, h, ks, it)
  BY <1>3, IterExists
<1> HIDE DEF it
<1> QED BY <1>1, <1>4, IterSteps

\* contiguous() of every source.
FlattenRule(h, ss, iter) ==
  [s \in SUBSET DOMAIN ss |->
    IF s = {} THEN [heap |-> h, nodes |-> <<>>] ELSE LET x == Max(s) IN LET f == Flattened(iter[s \ {x}].heap, ss[x])
                                           IN  [heap |-> f.heap, nodes |-> Append(iter[s \ {x}].nodes, f.node)]]
FlattenIter(h, ss) == CHOOSE iter : iter = FlattenRule(h, ss, iter)

\* Flattening goes through the states after each source.
LEMMA FlattenSteps ==
  ASSUME NEW h, NEW ss, Len(ss) \in Nat, DOMAIN ss = 1 .. Len(ss)
  PROVE  \E g : Steps("flatten", <<>>, <<>>, [heap |-> h, nodes |-> <<>>], ss, g) /\ g[Len(ss)] = FlattenAll(h, ss)
<1> DEFINE it == FlattenIter(h, ss)
<1>1. FlattenAll(h, ss) = it[DOMAIN ss]
  BY DEF FlattenAll, FoldLeft, MapThenFoldSet, FlattenIter, FlattenRule
<1>2. \A f : IterRule("flatten", <<>>, <<>>, [heap |-> h, nodes |-> <<>>], ss, f) = FlattenRule(h, ss, f)
  BY DEF IterRule, FoldStep, FlattenRule
<1>3. it = CHOOSE f : f = IterRule("flatten", <<>>, <<>>, [heap |-> h, nodes |-> <<>>], ss, f)
  BY <1>2, Zenon DEF FlattenIter
<1>4. it = IterRule("flatten", <<>>, <<>>, [heap |-> h, nodes |-> <<>>], ss, it)
  BY <1>3, IterExists
<1> HIDE DEF it
<1> QED BY <1>1, <1>4, IterSteps

Numbers(ds) == [k \in DOMAIN ds |-> k]

\* The pairs that overlap.
StagedRule(h, ds, fs, iter) ==
  [s \in SUBSET DOMAIN Numbers(ds) |->
    IF s = {} THEN <<>> ELSE LET x == Max(s) IN IF Overlap(h, ds[Numbers(ds)[x]], fs[Numbers(ds)[x]]) THEN Append(iter[s \ {x}], Numbers(ds)[x]) ELSE iter[s \ {x}]]
StagedIter(h, ds, fs) == CHOOSE iter : iter = StagedRule(h, ds, fs, iter)

\* Selecting the overlapping pairs goes through the pairs.
LEMMA StagedSteps ==
  ASSUME NEW h, NEW ds, NEW fs, Len(Numbers(ds)) \in Nat, DOMAIN Numbers(ds) = 1 .. Len(Numbers(ds))
  PROVE  \E g : Steps("staged", [heap |-> h, dst |-> ds], fs, <<>>, Numbers(ds), g) /\ g[Len(Numbers(ds))] = StagedPairs(h, ds, fs)
<1> DEFINE it == StagedIter(h, ds, fs)
<1>1. StagedPairs(h, ds, fs) = it[DOMAIN Numbers(ds)]
  BY DEF StagedPairs, Numbers, FoldLeft, MapThenFoldSet, StagedIter, StagedRule
<1>2. \A f : IterRule("staged", [heap |-> h, dst |-> ds], fs, <<>>, Numbers(ds), f) = StagedRule(h, ds, fs, f)
  BY DEF IterRule, FoldStep, StagedRule
<1>3. it = CHOOSE f : f = IterRule("staged", [heap |-> h, dst |-> ds], fs, <<>>, Numbers(ds), f)
  BY <1>2, Zenon DEF StagedIter
<1>4. it = IterRule("staged", [heap |-> h, dst |-> ds], fs, <<>>, Numbers(ds), it)
  BY <1>3, IterExists
<1> HIDE DEF it
<1> QED BY <1>1, <1>4, IterSteps

\* The pairs that do not.
BatchedRule(h, ds, fs, iter) ==
  [s \in SUBSET DOMAIN Numbers(ds) |->
    IF s = {} THEN <<>> ELSE LET x == Max(s) IN IF Overlap(h, ds[Numbers(ds)[x]], fs[Numbers(ds)[x]]) THEN iter[s \ {x}] ELSE Append(iter[s \ {x}], Numbers(ds)[x])]
BatchedIter(h, ds, fs) == CHOOSE iter : iter = BatchedRule(h, ds, fs, iter)

\* So does selecting the others.
LEMMA BatchedSteps ==
  ASSUME NEW h, NEW ds, NEW fs, Len(Numbers(ds)) \in Nat, DOMAIN Numbers(ds) = 1 .. Len(Numbers(ds))
  PROVE  \E g : Steps("batched", [heap |-> h, dst |-> ds], fs, <<>>, Numbers(ds), g) /\ g[Len(Numbers(ds))] = BatchPairs(h, ds, fs)
<1> DEFINE it == BatchedIter(h, ds, fs)
<1>1. BatchPairs(h, ds, fs) = it[DOMAIN Numbers(ds)]
  BY DEF BatchPairs, Numbers, FoldLeft, MapThenFoldSet, BatchedIter, BatchedRule
<1>2. \A f : IterRule("batched", [heap |-> h, dst |-> ds], fs, <<>>, Numbers(ds), f) = BatchedRule(h, ds, fs, f)
  BY DEF IterRule, FoldStep, BatchedRule
<1>3. it = CHOOSE f : f = IterRule("batched", [heap |-> h, dst |-> ds], fs, <<>>, Numbers(ds), f)
  BY <1>2, Zenon DEF BatchedIter
<1>4. it = IterRule("batched", [heap |-> h, dst |-> ds], fs, <<>>, Numbers(ds), it)
  BY <1>3, IterExists
<1> HIDE DEF it
<1> QED BY <1>1, <1>4, IterSteps

-----------------------------------------------------------------------------
(* Heaps the calls can leave.                                              *)

IsList(q) == Len(q) \in Nat /\ q = [i \in 1 .. Len(q) |-> q[i]]

IsHeap(h) ==
  /\ h = [f \in {"nodes", "place", "computed", "mem"} |-> h[f]]
  /\ IsList(h.nodes) /\ IsList(h.place) /\ IsList(h.mem)
  /\ Len(h.place) = Len(h.nodes) /\ Len(h.mem) = Len(h.nodes)
  /\ h.computed \subseteq NodeIds(h)

\* A view's elements are elements of its base, and its root owns what it shows.
ViewOK(h, n) ==
  LET v == h.nodes[n]  b == h.nodes[v.src[1]]  r == h.nodes[v.root] IN
  /\ Len(v.src) = 1
  /\ v.root \in NodeIds(h) /\ v.root < n /\ r.kind # "view"
  /\ v.root = IF b.kind = "view" THEN b.root ELSE v.src[1]
  /\ v.pick[1] \in Nat /\ v.pick[2] \in Nat
  /\ v.pick[1] + (v.len - 1) * v.pick[2] < b.len
  /\ v.off = b.off + v.pick[1] * b.step /\ v.step = v.pick[2] * b.step
  /\ v.off + (v.len - 1) * v.step <= (r.len - 1) * r.step

NodeOK(h, n) ==
  /\ h.nodes[n].kind \in {"leaf", "op", "contiguous", "view"}
  /\ Sources(h, n) \in Seq(NodeIds(h)) /\ \A i \in 1 .. Len(Sources(h, n)) : Sources(h, n)[i] < n
  /\ h.nodes[n].len \in 1 .. MaxLen /\ h.nodes[n].step \in Nat /\ h.nodes[n].off \in Nat
  /\ IsView(h, n) => ViewOK(h, n)
  /\ ~IsView(h, n) => h.nodes[n].off = 0
  /\ HasKernel(h, n) => h.nodes[n].step = 1

Built(h) == IsHeap(h) /\ \A n \in NodeIds(h) : NodeOK(h, n)

\* Where a node is bound.  What is computed is in memory of what is computed.
PlaceOK(h, n) ==
  /\ h.place[n] = [at |-> h.place[n].at, off |-> h.place[n].off]
  /\ h.place[n].at \in 0 .. n /\ h.place[n].off \in Nat
  /\ n \in h.computed => /\ Bound(h, n) /\ h.place[n].at \in h.computed
                         /\ \A i \in 1 .. Len(Sources(h, n)) : Sources(h, n)[i] \in h.computed
  /\ h.nodes[n].kind = "leaf" => n \in h.computed
  /\ Bound(h, n) /\ IsView(h, n) =>
       /\ Bound(h, h.nodes[n].root) /\ h.place[n].at = h.place[h.nodes[n].root].at
       /\ h.place[n].off = h.place[h.nodes[n].root].off + h.nodes[n].off
  /\ Bound(h, n) /\ HasKernel(h, n) => h.place[n] = [at |-> n, off |-> 0]
  /\ Bound(h, n) /\ ~IsView(h, n) => h.place[n].off + (h.nodes[n].len - 1) * h.nodes[n].step < MaxLen

Stored(h) == \A n \in NodeIds(h) : PlaceOK(h, n)

\* The inductive invariant.
LazyInv == Built(heap) /\ Stored(heap)

-----------------------------------------------------------------------------
(* Lists and heaps.                                                        *)

\* A list with one element more.
LEMMA ListAppend ==
  ASSUME NEW q, NEW e, IsList(q)
  PROVE  /\ IsList(Append(q, e)) /\ Len(Append(q, e)) = Len(q) + 1
         /\ \A i \in 1 .. Len(q) : Append(q, e)[i] = q[i]
         /\ Append(q, e)[Len(q) + 1] = e
<1> DEFINE S == {q[i] : i \in 1 .. Len(q)} \cup {e}
<1>1. q \in Seq(S)
  BY IsASeq DEF IsList
<1>2. Append(q, e) \in Seq(S) /\ Len(Append(q, e)) = Len(q) + 1
      /\ (\A i \in 1 .. Len(q) : Append(q, e)[i] = q[i]) /\ Append(q, e)[Len(q) + 1] = e
  <2>1. e \in S
    OBVIOUS
  <2> HIDE DEF S
  <2> QED BY <1>1, <2>1, AppendProperties
<1>3. Len(Append(q, e)) \in Nat
      /\ Append(q, e) = [i \in 1 .. Len(Append(q, e)) |-> Append(q, e)[i]]
  <2> DEFINE p == Append(q, e)
  <2>1. p \in Seq(S)
    BY <1>2
  <2> HIDE DEF S, p
  <2>2. p \in [1 .. Len(p) -> S] /\ Len(p) \in Nat
    BY <2>1, LenProperties
  <2>3. p = [i \in 1 .. Len(p) |-> p[i]]
    BY <2>2
  <2> QED BY <2>2, <2>3 DEF p
<1> QED BY <1>2, <1>3 DEF IsList

Replaced(q, k, e) == [q EXCEPT ![k] = e]

\* A list with one element replaced.
LEMMA ListExcept ==
  ASSUME NEW q, NEW e, IsList(q), NEW k \in 1 .. Len(q)
  PROVE  /\ IsList(Replaced(q, k, e)) /\ Len(Replaced(q, k, e)) = Len(q)
         /\ Replaced(q, k, e)[k] = e
         /\ \A i \in 1 .. Len(q) : i # k => Replaced(q, k, e)[i] = q[i]
<1> DEFINE S == {q[i] : i \in 1 .. Len(q)} \cup {e}
           p == Replaced(q, k, e)
<1>1. q \in Seq(S) /\ e \in S
  BY IsASeq DEF IsList
<1>2. q = [i \in 1 .. Len(q) |-> q[i]] /\ Len(q) \in Nat
  BY DEF IsList
<1>3. p = [i \in 1 .. Len(q) |-> IF i = k THEN e ELSE q[i]]
  BY <1>2 DEF Replaced
<1>4. p \in Seq(S) /\ Len(p) = Len(q)
  <2> HIDE DEF S
  <2> QED BY <1>1, ExceptSeq DEF Replaced
<1> HIDE DEF p
<1>5. IsList(p)
  BY <1>2, <1>3, <1>4 DEF IsList
<1> QED BY <1>3, <1>4, <1>5 DEF p

\* A list cut short.
LEMMA ListPrefix ==
  ASSUME NEW q, IsList(q), NEW m \in 0 .. Len(q)
  PROVE  /\ IsList(SubSeq(q, 1, m)) /\ Len(SubSeq(q, 1, m)) = m
         /\ \A i \in 1 .. m : SubSeq(q, 1, m)[i] = q[i]
<1> DEFINE S == {q[i] : i \in 1 .. Len(q)}
           p == SubSeq(q, 1, m)
<1>1. q \in Seq(S) /\ Len(q) \in Nat
  BY IsASeq DEF IsList
<1>2. \A i \in 1 .. m : q[i] \in S
  OBVIOUS
<1> HIDE DEF S
<1>3. /\ p \in Seq(S) /\ Len(p) = IF 1 <= m THEN m - 1 + 1 ELSE 0
      /\ \A i \in 1 .. m - 1 + 1 : p[i] = q[1 + i - 1]
  BY <1>1, <1>2, SubSeqProperties
<1>4. p \in Seq(S) /\ Len(p) = m /\ m \in Nat
  BY <1>3
<1>5. \A i \in 1 .. m : p[i] = q[i]
  BY <1>3
<1>6. p = [i \in 1 .. Len(p) |-> p[i]]
  <2> HIDE DEF p
  <2> QED BY <1>4
<1> QED BY <1>4, <1>5, <1>6 DEF IsList

\* The nodes of a heap are numbered, and so are their places and memories.
LEMMA HeapIds ==
  ASSUME NEW h, IsHeap(h)
  PROVE  /\ Len(h.nodes) \in Nat /\ NodeIds(h) = 1 .. Len(h.nodes)
         /\ DOMAIN h.place = 1 .. Len(h.nodes) /\ DOMAIN h.mem = 1 .. Len(h.nodes)
<1>1. IsList(h.nodes) /\ IsList(h.place) /\ IsList(h.mem)
      /\ Len(h.place) = Len(h.nodes) /\ Len(h.mem) = Len(h.nodes)
  BY DEF IsHeap
<1>2. \A q : IsList(q) => Len(q) \in Nat /\ DOMAIN q = 1 .. Len(q)
  BY DEF IsList
<1> QED BY <1>1, <1>2 DEF NodeIds

\* The next node is not there yet.
LEMMA FreshId == ASSUME NEW h, IsHeap(h) PROVE Len(h.nodes) + 1 \notin NodeIds(h) /\ Len(h.nodes) + 1 \notin h.computed
<1>1. h.computed \subseteq NodeIds(h) /\ NodeIds(h) = 1 .. Len(h.nodes) /\ Len(h.nodes) \in Nat
  BY HeapIds DEF IsHeap
<1>2. Len(h.nodes) + 1 \notin NodeIds(h)
  BY <1>1
<1> QED BY <1>1, <1>2

\* A graph that was built is acyclic.
LEMMA BuiltAcyclic == ASSUME NEW h, Built(h) PROVE Acyclic(h)
BY HeapIds DEF Built, NodeOK, Acyclic

\* One node more.
Grows(h, g, x) ==
  /\ IsHeap(g) /\ Len(g.nodes) = Len(h.nodes) + 1 /\ g.nodes[Len(h.nodes) + 1] = x
  /\ \A n \in NodeIds(h) : g.nodes[n] = h.nodes[n] /\ g.place[n] = h.place[n] /\ g.mem[n] = h.mem[n]

\* Building a node adds it and changes nothing else.
LEMMA WithNodeGrows ==
  ASSUME NEW h, NEW x, IsHeap(h)
  PROVE  /\ Grows(h, WithNode(h, x), x) /\ WithNode(h, x).computed = h.computed
         /\ WithNode(h, x).place[Len(h.nodes) + 1] = Unbound
         /\ WithNode(h, x).mem[Len(h.nodes) + 1] = Blank
<1> DEFINE g == WithNode(h, x)
           N == Len(h.nodes)
<1>1. IsList(h.nodes) /\ IsList(h.place) /\ IsList(h.mem) /\ Len(h.place) = N /\ Len(h.mem) = N
      /\ N \in Nat /\ NodeIds(h) = 1 .. N
  BY HeapIds DEF IsHeap
<1>2. h = [f \in {"nodes", "place", "computed", "mem"} |-> h[f]]
  BY DEF IsHeap
<1>3. /\ g.nodes = Append(h.nodes, x) /\ g.place = Append(h.place, Unbound) /\ g.computed = h.computed
      /\ g.mem = Append(h.mem, Blank)
      /\ g = [f \in {"nodes", "place", "computed", "mem"} |-> g[f]]
  <2> DEFINE u == Unbound
             b == Blank
  <2>1. g = [h EXCEPT !.nodes = Append(@, x), !.place = Append(@, u), !.mem = Append(@, b)]
    BY DEF WithNode
  <2> HIDE DEF u, b, g
  <2>2. g.nodes = Append(h.nodes, x) /\ g.place = Append(h.place, u)
    BY <1>2, <2>1
  <2>3. g.computed = h.computed /\ g.mem = Append(h.mem, b)
    BY <1>2, <2>1
  <2>4. g = [f \in {"nodes", "place", "computed", "mem"} |-> g[f]]
    BY <1>2, <2>1
  <2> QED BY <2>2, <2>3, <2>4 DEF u, b
<1> HIDE DEF g
<1>4. /\ IsList(g.nodes) /\ Len(g.nodes) = N + 1 /\ g.nodes[N + 1] = x
      /\ \A i \in 1 .. N : g.nodes[i] = h.nodes[i]
  BY <1>1, <1>3, ListAppend
<1>5. /\ IsList(g.place) /\ Len(g.place) = N + 1 /\ g.place[N + 1] = Unbound
      /\ \A i \in 1 .. N : g.place[i] = h.place[i]
  BY <1>1, <1>3, ListAppend
<1>6. /\ IsList(g.mem) /\ Len(g.mem) = N + 1 /\ g.mem[N + 1] = Blank
      /\ \A i \in 1 .. N : g.mem[i] = h.mem[i]
  BY <1>1, <1>3, ListAppend
<1>7. NodeIds(g) = 1 .. N + 1
  BY <1>4 DEF NodeIds, IsList
<1>8. IsHeap(g)
  <2>1. g.computed \subseteq NodeIds(g)
    <3>1. h.computed \subseteq 1 .. N
      BY <1>1 DEF IsHeap
    <3>2. g.computed \subseteq 1 .. N
      BY <1>3, <3>1
    <3> QED BY <1>1, <1>7, <3>2
  <2> QED BY <1>3, <1>4, <1>5, <1>6, <2>1 DEF IsHeap
<1> QED BY <1>1, <1>3, <1>4, <1>5, <1>6, <1>8 DEF Grows, g

\* The old nodes of a heap that has grown are as they were.
LEMMA GrownNodes ==
  ASSUME NEW h, Built(h), NEW g, NEW x, Grows(h, g, x), NEW n \in NodeIds(h)
  PROVE  NodeOK(g, n)
<1>1. IsHeap(h) /\ NodeOK(h, n) /\ IsHeap(g)
  BY DEF Built, Grows
<1>2. NodeIds(h) = 1 .. Len(h.nodes) /\ NodeIds(g) = 1 .. Len(h.nodes) + 1 /\ Len(h.nodes) \in Nat
  BY <1>1, HeapIds DEF Grows
<1>3. NodeIds(h) \subseteq NodeIds(g) /\ \A m \in NodeIds(h) : g.nodes[m] = h.nodes[m]
  BY <1>2 DEF Grows
<1>4. Sources(h, n) \in Seq(NodeIds(h)) /\ Sources(g, n) = Sources(h, n)
      /\ Seq(NodeIds(h)) \subseteq Seq(NodeIds(g))
  <2>1. Seq(NodeIds(h)) \subseteq Seq(NodeIds(g))
    BY <1>3, SeqMonotonic
  <2> QED BY <1>1, <1>3, <2>1 DEF NodeOK, Sources
<1>5. IsView(h, n) => ViewOK(g, n)
  <2> SUFFICES ASSUME IsView(h, n) PROVE ViewOK(g, n)
    OBVIOUS
  <2>1. ViewOK(h, n)
    BY <1>1 DEF NodeOK
  <2>2. h.nodes[n].root \in NodeIds(h) /\ h.nodes[n].src[1] \in NodeIds(h)
    <3>1. Len(h.nodes[n].src) = 1 /\ h.nodes[n].src \in Seq(NodeIds(h)) /\ 1 \in 1 .. Len(h.nodes[n].src)
      <4>1. Len(h.nodes[n].src) = 1
        BY <2>1 DEF ViewOK
      <4>2. h.nodes[n].src \in Seq(NodeIds(h))
        BY <1>1 DEF NodeOK, Sources
      <4> QED BY <4>1, <4>2
    <3>2. h.nodes[n].src[1] \in NodeIds(h)
      BY <3>1, ElementOfSeq
    <3> QED BY <2>1, <3>2 DEF ViewOK
  <2> QED BY <1>3, <2>1, <2>2 DEF ViewOK
<1> QED BY <1>1, <1>3, <1>4, <1>5 DEF NodeOK, IsView, HasKernel, Sources

\* A heap with a well-formed node more is well formed.
LEMMA GrownBuilt ==
  ASSUME NEW h, Built(h), NEW g, NEW x, Grows(h, g, x), NodeOK(g, Len(h.nodes) + 1)
  PROVE  Built(g)
<1>1. IsHeap(h) /\ IsHeap(g)
  BY DEF Built, Grows
<1>2. NodeIds(h) = 1 .. Len(h.nodes) /\ NodeIds(g) = 1 .. Len(h.nodes) + 1 /\ Len(h.nodes) \in Nat
  BY <1>1, HeapIds DEF Grows
<1>3. \A n \in NodeIds(g) : n \in NodeIds(h) \/ n = Len(h.nodes) + 1
  BY <1>2
<1> QED BY <1>1, <1>3, GrownNodes DEF Built

\* What is where it was reads as it did.
LEMMA SameRead ==
  ASSUME NEW h, NEW g, NEW n, g.nodes[n] = h.nodes[n], g.place[n] = h.place[n],
         g.mem[h.place[n].at] = h.mem[h.place[n].at]
  PROVE  Read(g, n) = Read(h, n)
BY DEF Read, Cell

\* No result is lost.
Keeps(h, g) == \A n \in h.computed : Read(g, n) = Read(h, n)

\* Building a node loses no result.
LEMMA GrownKeeps ==
  ASSUME NEW h, Built(h), Stored(h), NEW g, NEW x, Grows(h, g, x)
  PROVE  Keeps(h, g)
<1> SUFFICES ASSUME NEW n \in h.computed PROVE Read(g, n) = Read(h, n)
  BY DEF Keeps
<1>1. h.computed \subseteq NodeIds(h)
  BY DEF Built, IsHeap
<1>2. h.place[n].at \in h.computed
  BY <1>1 DEF Stored, PlaceOK
<1> QED BY <1>1, <1>2, SameRead DEF Grows

\* The old nodes of a heap that has grown are where they were.
LEMMA GrownStored ==
  ASSUME NEW h, Built(h), Stored(h), NEW g, NEW x, Grows(h, g, x), PlaceOK(g, Len(h.nodes) + 1),
         g.computed = h.computed \/ g.computed = h.computed \cup {Len(h.nodes) + 1}
  PROVE  Stored(g)
<1>1. IsHeap(h) /\ IsHeap(g)
  BY DEF Built, Grows
<1>2. NodeIds(h) = 1 .. Len(h.nodes) /\ NodeIds(g) = 1 .. Len(h.nodes) + 1 /\ Len(h.nodes) \in Nat
  BY <1>1, HeapIds DEF Grows
<1>3. \A m \in NodeIds(h) : /\ g.nodes[m] = h.nodes[m] /\ g.place[m] = h.place[m]
                            /\ m \in g.computed <=> m \in h.computed
  BY <1>2 DEF Grows
<1>4. ASSUME NEW n \in NodeIds(h) PROVE PlaceOK(g, n)
  <2>1. PlaceOK(h, n) /\ NodeOK(h, n)
    BY DEF Stored, Built
  <2>2. IsView(h, n) => h.nodes[n].root \in NodeIds(h)
    BY <2>1 DEF NodeOK, ViewOK
  <2>3. h.computed \subseteq g.computed
    OBVIOUS
  <2> QED BY <1>3, <2>1, <2>2, <2>3 DEF PlaceOK, Bound, IsView, HasKernel, Sources
<1>5. \A n \in NodeIds(g) : n \in NodeIds(h) \/ n = Len(h.nodes) + 1
  BY <1>2
<1> QED BY <1>4, <1>5 DEF Stored

\* What a call that builds a node leaves.
Good(h) == Built(h) /\ Stored(h)

\* An operation or a contiguous copy.
LEMMA OwningGood ==
  ASSUME NEW h, Good(h), NEW kind \in {"op", "contiguous"}, NEW srcs \in Seq(NodeIds(h)),
         NEW len \in 1 .. MaxLen
  PROVE  LET g == WithNode(h, Owning(kind, srcs, len, 1)) IN
         Good(g) /\ Keeps(h, g) /\ g.computed = h.computed /\ Grows(h, g, Owning(kind, srcs, len, 1))
<1> DEFINE x == Owning(kind, srcs, len, 1)
           g == WithNode(h, x)
           N == Len(h.nodes) + 1
<1>0. Built(h) /\ Stored(h) /\ IsHeap(h)
  BY DEF Good, Built
<1>1. Grows(h, g, x) /\ g.computed = h.computed /\ g.place[N] = Unbound
  BY <1>0, WithNodeGrows
<1>2. /\ x.kind = kind /\ x.src = srcs /\ x.root = 0 /\ x.off = 0 /\ x.len = len /\ x.step = 1
  BY DEF Owning
<1>3. NodeIds(h) = 1 .. Len(h.nodes) /\ Len(h.nodes) \in Nat /\ NodeIds(g) = 1 .. N
      /\ g.nodes[N] = x
  BY <1>0, <1>1, HeapIds DEF Grows
<1> HIDE DEF x, g
<1>4. NodeOK(g, N)
  <2>1. srcs \in Seq(NodeIds(g))
    <3>1. NodeIds(h) \subseteq NodeIds(g)
      BY <1>3
    <3> QED BY <3>1, SeqMonotonic
  <2>2. \A i \in 1 .. Len(srcs) : srcs[i] < N
    <3>1. \A i \in 1 .. Len(srcs) : srcs[i] \in NodeIds(h)
      BY ElementOfSeq
    <3> QED BY <1>3, <3>1
  <2> QED BY <1>2, <1>3, <2>1, <2>2 DEF NodeOK, IsView, HasKernel, Sources
<1>5. PlaceOK(g, N)
  <2>1. N \notin g.computed
    BY <1>0, <1>1, FreshId
  <2> QED BY <1>1, <1>2, <1>3, <2>1 DEF PlaceOK, Unbound, Bound
<1>6. Built(g) /\ Stored(g) /\ Keeps(h, g)
  BY <1>0, <1>1, <1>4, <1>5, GrownBuilt, GrownStored, GrownKeeps
<1> QED BY <1>1, <1>6 DEF Good, x, g

\* The elements of a view are elements of the root of its base.
LEMMA WithinBase ==
  ASSUME NEW start \in Nat, NEW stride \in Nat, NEW len \in Nat \ {0}, NEW step \in Nat, NEW off \in Nat,
         NEW blen \in Nat, NEW most \in Nat, start + (len - 1) * stride < blen, off + (blen - 1) * step <= most
  PROVE  /\ off + start * step + (len - 1) * (stride * step) <= most
         /\ off + start * step \in Nat /\ stride * step \in Nat
<1> DEFINE e == start + (len - 1) * stride
<1>1. e \in Nat /\ e <= blen - 1 /\ blen - 1 \in Nat
  <2>1. (len - 1) * stride \in Nat
    OBVIOUS
  <2> QED BY <2>1
<1>2. start * step + (len - 1) * (stride * step) = e * step
  OBVIOUS
<1>3. start * step \in Nat /\ stride * step \in Nat /\ (len - 1) * (stride * step) \in Nat
  OBVIOUS
<1> HIDE DEF e
<1>4. e * step <= (blen - 1) * step /\ e * step \in Nat /\ (blen - 1) * step \in Nat
  <2> DEFINE k == blen - 1 - e
  <2>1. k \in Nat /\ blen - 1 = e + k
    BY <1>1
  <2> HIDE DEF k
  <2>2. (e + k) * step = e * step + k * step /\ k * step \in Nat /\ e * step \in Nat
    BY <1>1, <2>1
  <2> QED BY <2>1, <2>2
<1> QED BY <1>2, <1>3, <1>4

\* A view.
LEMMA ViewGood ==
  ASSUME NEW h, Good(h), NEW b \in NodeIds(h), NEW start \in Nat, NEW stride \in Nat, NEW len \in 1 .. MaxLen,
         start + (len - 1) * stride < h.nodes[b].len
  PROVE  LET g == WithNode(h, View(h, b, start, stride, len)) IN
         Good(g) /\ Keeps(h, g) /\ g.computed = h.computed
<1> DEFINE x == View(h, b, start, stride, len)
           g == WithNode(h, x)
           N == Len(h.nodes) + 1
           r == ViewRoot(h, b)
           y == h.nodes[b]
<1>0. Built(h) /\ Stored(h) /\ IsHeap(h) /\ NodeOK(h, b)
  BY DEF Good, Built
<1>1. Grows(h, g, x) /\ g.computed = h.computed /\ g.place[N] = Unbound
  BY <1>0, WithNodeGrows
<1>2. /\ x.kind = "view" /\ x.src = <<b>> /\ x.root = r /\ x.off = y.off + start * y.step /\ x.len = len
      /\ x.step = stride * y.step /\ x.pick = <<start, stride>>
  BY DEF View, ViewOffset
<1>3. NodeIds(h) = 1 .. Len(h.nodes) /\ Len(h.nodes) \in Nat /\ NodeIds(g) = 1 .. N
      /\ g.nodes[N] = x /\ \A n \in NodeIds(h) : g.nodes[n] = h.nodes[n]
  BY <1>0, <1>1, HeapIds DEF Grows
<1>4. y.len \in Nat /\ y.step \in Nat /\ y.off \in Nat
  BY <1>0 DEF NodeOK
<1>5. /\ r \in NodeIds(h) /\ h.nodes[r].kind # "view" /\ NodeOK(h, r)
      /\ r = IF y.kind = "view" THEN y.root ELSE b
      /\ y.off + (y.len - 1) * y.step <= (h.nodes[r].len - 1) * h.nodes[r].step
  <2>1. CASE y.kind = "view"
    <3>1. ViewOK(h, b) /\ r = y.root
      BY <1>0, <2>1 DEF NodeOK, IsView, ViewRoot
    <3> QED BY <1>0, <2>1, <3>1 DEF ViewOK, Built
  <2>2. CASE y.kind # "view"
    <3>1. r = b /\ y.off = 0
      BY <1>0, <2>2 DEF NodeOK, IsView, ViewRoot
    <3>2. (y.len - 1) * y.step \in Int
      BY <1>4
    <3> QED BY <1>0, <2>2, <3>1, <3>2
  <2> QED BY <2>1, <2>2
<1> DEFINE most == (h.nodes[r].len - 1) * h.nodes[r].step
<1>6. most \in Nat
  <2>1. h.nodes[r].len - 1 \in Nat /\ h.nodes[r].step \in Nat
    <3>1. h.nodes[r].len \in 1 .. MaxLen /\ h.nodes[r].step \in Nat
      BY <1>5 DEF NodeOK
    <3>2. MaxLen \in Nat
      BY GraphBoundsAssumption
    <3> QED BY <3>1, <3>2
  <2> QED BY <2>1
<1>7. len \in Nat \ {0}
  BY GraphBoundsAssumption
<1> HIDE DEF x, g, y, r
<1>8. /\ x.off + (x.len - 1) * x.step <= most
      /\ x.off \in Nat /\ x.step \in Nat
  <2>1. start + (len - 1) * stride < y.len
    BY DEF y
  <2>2. y.off + (y.len - 1) * y.step <= most
    BY <1>5
  <2> HIDE DEF most
  <2>3. /\ y.off + start * y.step + (len - 1) * (stride * y.step) <= most
        /\ y.off + start * y.step \in Nat /\ stride * y.step \in Nat
    BY <1>4, <1>6, <1>7, <2>1, <2>2, WithinBase
  <2> QED BY <1>2, <2>3
<1>9. ViewOK(g, N)
  <2>1. g.nodes[N] = x /\ g.nodes[b] = y /\ g.nodes[r] = h.nodes[r]
    BY <1>3, <1>5 DEF y
  <2>2. x.src[1] = b /\ Len(x.src) = 1 /\ x.pick[1] = start /\ x.pick[2] = stride
    BY <1>2
  <2>3. r \in NodeIds(g) /\ r < N
    BY <1>3, <1>5
  <2>4. x.pick[1] + (x.len - 1) * x.pick[2] < y.len
    BY <1>2, <2>2 DEF y
  <2>5. x.root = r /\ x.root = (IF y.kind = "view" THEN y.root ELSE x.src[1]) /\ h.nodes[r].kind # "view"
    BY <1>2, <1>5, <2>2
  <2>6. x.off + (x.len - 1) * x.step <= (g.nodes[r].len - 1) * g.nodes[r].step
    BY <1>8, <2>1
  <2>7. x.off = y.off + x.pick[1] * y.step /\ x.step = x.pick[2] * y.step
    BY <1>2, <2>2
  <2> HIDE DEF N
  <2>8. g.nodes[g.nodes[N].src[1]] = y /\ g.nodes[g.nodes[N].root] = g.nodes[r] /\ g.nodes[r].kind # "view"
    BY <2>1, <2>2, <2>5
  <2> QED BY <2>1, <2>2, <2>3, <2>4, <2>5, <2>6, <2>7, <2>8 DEF ViewOK
<1>10. NodeOK(g, N)
  <2>1. x.src \in Seq(NodeIds(g)) /\ \A i \in 1 .. Len(x.src) : x.src[i] < N
    <3>1. b \in NodeIds(g) /\ b < N
      BY <1>3
    <3> QED BY <1>2, <3>1
  <2> HIDE DEF N
  <2> QED BY <1>2, <1>3, <1>8, <1>9, <2>1 DEF NodeOK, IsView, HasKernel, Sources
<1>11. PlaceOK(g, N)
  <2>1. N \notin g.computed
    BY <1>0, <1>1, FreshId
  <2> QED BY <1>1, <1>2, <1>3, <2>1 DEF PlaceOK, Unbound, Bound
<1>12. Built(g) /\ Stored(g) /\ Keeps(h, g)
  BY <1>0, <1>1, <1>10, <1>11, GrownBuilt, GrownStored, GrownKeeps
<1> QED BY <1>1, <1>12 DEF Good, x, g

\* A node filled and computed at once, in memory of its own or of another.
LEMMA LeafGood ==
  ASSUME NEW h, Good(h), NEW g, NEW len \in 1 .. MaxLen, NEW step \in Nat,
         Grows(h, g, Owning("leaf", <<>>, len, step)), g.computed = h.computed \cup {Len(h.nodes) + 1},
         LET p == g.place[Len(h.nodes) + 1] IN
           /\ p = [at |-> p.at, off |-> p.off] /\ p.off \in Nat
           /\ p.at \in h.computed \/ p.at = Len(h.nodes) + 1
           /\ p.off + (len - 1) * step < MaxLen
  PROVE  Good(g) /\ Keeps(h, g)
<1> DEFINE x == Owning("leaf", <<>>, len, step)
           N == Len(h.nodes) + 1
           p == g.place[N]
<1>0. Built(h) /\ Stored(h) /\ IsHeap(h)
  BY DEF Good, Built
<1>2. /\ x.kind = "leaf" /\ x.src = <<>> /\ x.root = 0 /\ x.off = 0 /\ x.len = len /\ x.step = step
  BY DEF Owning
<1>3. NodeIds(h) = 1 .. Len(h.nodes) /\ Len(h.nodes) \in Nat /\ NodeIds(g) = 1 .. N
      /\ g.nodes[N] = x
  BY <1>0, HeapIds DEF Grows
<1> HIDE DEF x
<1>4. NodeOK(g, N)
  <2>1. Sources(g, N) \in Seq(NodeIds(g)) /\ \A i \in 1 .. Len(Sources(g, N)) : Sources(g, N)[i] < N
    <3>1. Sources(g, N) = <<>>
      BY <1>2, <1>3 DEF Sources
    <3> HIDE DEF N
    <3> QED BY <3>1, EmptySeq
  <2> HIDE DEF N
  <2> QED BY <1>2, <1>3, <2>1 DEF NodeOK, IsView, HasKernel
<1>5. PlaceOK(g, N)
  <2>1. p.at \in g.computed /\ N \in g.computed
    OBVIOUS
  <2>2. p.at \in 0 .. N /\ p.at # 0
    <3>1. h.computed \subseteq 1 .. Len(h.nodes)
      BY <1>0, <1>3 DEF IsHeap
    <3> QED BY <1>3, <3>1
  <2> HIDE DEF N
  <2>3. g.place[N] = [at |-> g.place[N].at, off |-> g.place[N].off] /\ g.place[N].off \in Nat
        /\ g.place[N].off + (len - 1) * step < MaxLen
    BY DEF N
  <2> QED BY <1>2, <1>3, <2>1, <2>2, <2>3 DEF PlaceOK, Bound, IsView, HasKernel, Sources
<1>6. Built(g) /\ Stored(g) /\ Keeps(h, g)
  BY <1>0, <1>4, <1>5, GrownBuilt, GrownStored, GrownKeeps DEF x
<1> QED BY <1>6 DEF Good

-----------------------------------------------------------------------------
(* Evaluating.                                                             *)

\* In an order, a view comes after the root it shows.
LEMMA RootsFirst ==
  ASSUME NEW h, Good(h), NEW order \in Seq(NodeIds(h)), Sound(h, order)
  PROVE  \A k \in 1 .. Len(order) : IsView(h, order[k]) =>
           \/ h.nodes[order[k]].root \in h.computed
           \/ \E j \in 1 .. k - 1 : order[j] = h.nodes[order[k]].root
<1> DEFINE Root(k) == h.nodes[order[k]].root
           Late == {k \in 1 .. Len(order) : /\ IsView(h, order[k]) /\ Root(k) \notin h.computed
                                            /\ \A j \in 1 .. k - 1 : order[j] # Root(k)}
<1>1. SUFFICES ASSUME Late # {} PROVE FALSE
  OBVIOUS
<1>2. Late \in SUBSET Nat
  OBVIOUS
<1>3. PICK k \in Late : \A j \in Late : k <= j
  BY <1>1, <1>2, LeastExists
<1> DEFINE n == order[k]
           b == h.nodes[n].src[1]
<1>4. /\ k \in 1 .. Len(order) /\ n \in NodeIds(h) /\ IsView(h, n) /\ ViewOK(h, n)
      /\ Root(k) \notin h.computed /\ \A j \in 1 .. k - 1 : order[j] # Root(k)
  <2>1. n \in NodeIds(h)
    BY ElementOfSeq
  <2> QED BY <1>3, <2>1 DEF Good, Built, NodeOK
<1>5. Len(h.nodes[n].src) = 1 /\ Root(k) = IF h.nodes[b].kind = "view" THEN h.nodes[b].root ELSE b
  BY <1>4 DEF ViewOK
<1>6. b \in h.computed \/ \E j \in 1 .. k - 1 : order[j] = b
  <2>1. 1 \in 1 .. Len(Sources(h, n)) /\ Sources(h, n)[1] = b
    BY <1>5 DEF Sources
  <2> HIDE DEF b
  <2> QED BY <1>4, <2>1 DEF Sound
<1>7. h.nodes[b].kind = "view" /\ Root(k) = h.nodes[b].root
  BY <1>4, <1>5, <1>6
<1>8. CASE b \in h.computed
  <2>1. b \in NodeIds(h) /\ h.computed \subseteq NodeIds(h)
    BY <1>8 DEF Good, Built, IsHeap
  <2>2. PlaceOK(h, b) /\ NodeOK(h, b)
    BY <2>1 DEF Good, Stored, Built
  <2>3. h.nodes[b].root \in h.computed
    <3> DEFINE Far == {m \in h.computed : IsView(h, m) /\ h.nodes[m].root \notin h.computed}
    <3>1. SUFFICES ASSUME Far # {} PROVE FALSE
      BY <1>7, <1>8 DEF IsView
    <3>2. Far \in SUBSET Nat
      BY <2>1, HeapIds DEF Good, Built
    <3>3. PICK m \in Far : \A j \in Far : m <= j
      BY <3>1, <3>2, LeastExists
    <3>4. PlaceOK(h, m) /\ NodeOK(h, m) /\ ViewOK(h, m) /\ m \in h.computed
      BY <2>1, <3>3 DEF Good, Stored, Built, NodeOK
    <3> DEFINE c == h.nodes[m].src[1]
    <3>5. 1 \in 1 .. Len(Sources(h, m)) /\ Sources(h, m)[1] = c
      <4>1. Len(h.nodes[m].src) = 1
        BY <3>4 DEF ViewOK
      <4> QED BY <4>1 DEF Sources
    <3>6. c \in h.computed /\ c < m
      BY <3>4, <3>5 DEF PlaceOK, NodeOK
    <3>7. h.nodes[m].root = IF h.nodes[c].kind = "view" THEN h.nodes[c].root ELSE c
      BY <3>4 DEF ViewOK
    <3>8. c \in Far
      BY <3>3, <3>6, <3>7 DEF IsView
    <3> HIDE DEF c, Far
    <3> QED BY <3>2, <3>3, <3>6, <3>8
  <2> QED BY <1>4, <1>7, <2>3
<1>9. CASE \E j \in 1 .. k - 1 : order[j] = b
  <2>1. PICK j \in 1 .. k - 1 : order[j] = b
    BY <1>9
  <2>2. j \in 1 .. Len(order) /\ j < k
    BY <1>4, <2>1
  <2>3. j \notin Late
    BY <1>2, <1>3, <2>2
  <2>4. IsView(h, order[j]) /\ Root(j) = Root(k)
    BY <1>7, <2>1 DEF IsView
  <2>5. PICK i \in 1 .. j - 1 : order[i] = Root(k)
    BY <1>4, <2>2, <2>3, <2>4
  <2>6. i \in 1 .. k - 1
    BY <2>2, <2>5
  <2> QED BY <1>4, <2>5, <2>6
<1> QED BY <1>6, <1>8, <1>9

\* A heap with the same graph.
LEMMA SameBuilt ==
  ASSUME NEW h, Built(h), NEW g, IsHeap(g), g.nodes = h.nodes
  PROVE  Built(g) /\ NodeIds(g) = NodeIds(h)
<1>1. NodeIds(g) = NodeIds(h)
  BY DEF NodeIds
<1>2. ASSUME NEW n \in NodeIds(g) PROVE NodeOK(g, n)
  <2>1. NodeOK(h, n)
    BY <1>1 DEF Built
  <2>2. IsView(h, n) => ViewOK(g, n)
    <3>1. IsView(h, n) => ViewOK(h, n)
      BY <2>1 DEF NodeOK
    <3> QED BY <1>1, <3>1 DEF ViewOK
  <2> QED BY <1>1, <2>1, <2>2 DEF NodeOK, IsView, HasKernel, Sources
<1> QED BY <1>1, <1>2 DEF Built

\* Binding moves nothing and writes nothing.
Binds(h, g) ==
  /\ Good(g) /\ g.nodes = h.nodes /\ g.computed = h.computed /\ g.mem = h.mem
  /\ \A n \in NodeIds(h) : Bound(h, n) => g.place[n] = h.place[n]

\* Replacing one field of a heap.
LEMMA FieldPlace ==
  ASSUME NEW h, IsHeap(h), NEW n \in NodeIds(h), NEW x
  PROVE  LET g == [h EXCEPT !.place[n] = x] IN
         /\ IsHeap(g) /\ g.nodes = h.nodes /\ g.computed = h.computed /\ g.mem = h.mem
         /\ g.place[n] = x /\ \A m \in NodeIds(h) : m # n => g.place[m] = h.place[m]
<1> DEFINE g == [h EXCEPT !.place[n] = x]
           q == [h.place EXCEPT ![n] = x]
<1>1. h = [f \in {"nodes", "place", "computed", "mem"} |-> h[f]]
  BY DEF IsHeap
<1>2. /\ g = [f \in {"nodes", "place", "computed", "mem"} |-> g[f]]
      /\ g.nodes = h.nodes /\ g.computed = h.computed /\ g.mem = h.mem /\ g.place = q
  <2>1. g = [f \in {"nodes", "place", "computed", "mem"} |-> IF f = "place" THEN q ELSE h[f]]
    BY <1>1
  <2> HIDE DEF g, q
  <2> QED BY <2>1
<1>3. IsList(h.place) /\ NodeIds(h) = 1 .. Len(h.place)
  BY HeapIds DEF IsHeap
<1>4. IsList(q) /\ Len(q) = Len(h.place) /\ q[n] = x /\ \A m \in NodeIds(h) : m # n => q[m] = h.place[m]
  <2>1. n \in 1 .. Len(h.place) /\ q = Replaced(h.place, n, x)
    BY <1>3 DEF Replaced
  <2> HIDE DEF q
  <2> QED BY <1>3, <2>1, ListExcept
<1> HIDE DEF g, q
<1>5. IsHeap(g)
  <2>1. NodeIds(g) = NodeIds(h)
    BY <1>2 DEF NodeIds
  <2> QED BY <1>2, <1>4, <2>1 DEF IsHeap
<1> QED BY <1>2, <1>4, <1>5 DEF g

\* bind_storage() of one node whose root, when it is a view, is bound.
LEMMA PlacedGood ==
  ASSUME NEW h, Good(h), NEW n \in NodeIds(h), n \notin h.computed,
         IsView(h, n) => Bound(h, h.nodes[n].root)
  PROVE  Binds(h, Placed(h, n)) /\ Bound(Placed(h, n), n)
<1> DEFINE r == h.nodes[n].root
           x == IF IsView(h, n) THEN [at |-> h.place[r].at, off |-> h.place[r].off + h.nodes[n].off]
                ELSE [at |-> n, off |-> 0]
           g == [h EXCEPT !.place[n] = x]
<1>0. Built(h) /\ Stored(h) /\ IsHeap(h) /\ NodeOK(h, n) /\ PlaceOK(h, n)
  BY DEF Good, Built, Stored
<1>1. CASE Bound(h, n)
  <2>1. Placed(h, n) = h
    BY <1>1 DEF Placed
  <2> QED BY <1>1, <2>1 DEF Binds
<1>2. CASE ~Bound(h, n)
  <2>1. Placed(h, n) = g
    BY <1>2 DEF Placed
  <2>2. /\ IsHeap(g) /\ g.nodes = h.nodes /\ g.computed = h.computed /\ g.mem = h.mem
        /\ g.place[n] = x /\ \A m \in NodeIds(h) : m # n => g.place[m] = h.place[m]
    BY <1>0, FieldPlace, SMTT(60)
  <2> HIDE DEF g
  <2>3. Built(g) /\ NodeIds(g) = NodeIds(h)
    BY <1>0, <2>2, SameBuilt
  <2>4. n \in Nat \ {0} /\ h.nodes[n].kind # "leaf"
    BY <1>0, HeapIds DEF PlaceOK
  <2>5. IsView(h, n) => /\ r \in NodeIds(h) /\ r # n /\ h.place[r].at \in 1 .. n /\ h.place[r].off \in Nat
                        /\ g.place[r] = h.place[r]
    <3> SUFFICES ASSUME IsView(h, n)
                 PROVE  /\ r \in NodeIds(h) /\ r # n /\ h.place[r].at \in 1 .. n /\ h.place[r].off \in Nat
                        /\ g.place[r] = h.place[r]
      OBVIOUS
    <3>1. r \in NodeIds(h) /\ r < n
      BY <1>0 DEF NodeOK, ViewOK
    <3>2. PlaceOK(h, r) /\ r # n /\ r \in Nat
      BY <1>0, <2>4, <3>1, HeapIds DEF Stored
    <3>3. h.place[r].at \in 0 .. r /\ h.place[r].at # 0 /\ h.place[r].off \in Nat
      <4>1. h.place[r].at \in 0 .. r /\ h.place[r].off \in Nat
        BY <3>2 DEF PlaceOK
      <4> QED BY <4>1 DEF Bound
    <3>4. h.place[r].at \in 1 .. n
      BY <2>4, <3>1, <3>2, <3>3
    <3> QED BY <2>2, <3>1, <3>2, <3>3, <3>4
  <2>6. h.nodes[n].off \in Nat /\ h.nodes[n].len \in 1 .. MaxLen /\ MaxLen \in Nat
    BY <1>0, GraphBoundsAssumption DEF NodeOK
  <2>7. x = [at |-> x.at, off |-> x.off] /\ x.at \in 0 .. n /\ x.at # 0 /\ x.off \in Nat
    <3>1. CASE IsView(h, n)
      <4>1. x = [at |-> h.place[r].at, off |-> h.place[r].off + h.nodes[n].off]
        BY <3>1
      <4>2. x = [at |-> x.at, off |-> x.off] /\ x.at = h.place[r].at /\ x.off = h.place[r].off + h.nodes[n].off
        BY <4>1
      <4> HIDE DEF x
      <4>3. h.place[r].at \in 1 .. n /\ h.place[r].off \in Nat /\ h.nodes[n].off \in Nat /\ n \in Nat
        BY <2>4, <2>5, <2>6, <3>1
      <4>4. x.at \in 0 .. n /\ x.at # 0 /\ x.off \in Nat
        BY <4>2, <4>3, SMTT(60)
      <4> QED BY <4>2, <4>4, Zenon
    <3>2. CASE ~IsView(h, n)
      <4>1. x = [at |-> n, off |-> 0]
        BY <3>2
      <4>2. x = [at |-> x.at, off |-> x.off] /\ x.at = n /\ x.off = 0
        BY <4>1
      <4> HIDE DEF x
      <4> QED BY <2>4, <4>2
    <3> QED BY <3>1, <3>2
  <2>8. PlaceOK(g, n)
    <3>1. CASE IsView(h, n)
      <4>1. x.at = h.place[r].at /\ x.off = h.place[r].off + h.nodes[n].off
        BY <3>1
      <4>2. h.nodes[n].kind = "view"
        BY <3>1 DEF IsView
      <4>3. Bound(g, r)
        BY <2>5, <3>1 DEF Bound
      <4> HIDE DEF x
      <4> QED BY <2>2, <2>4, <2>5, <2>7, <3>1, <4>1, <4>2, <4>3 DEF PlaceOK, IsView, HasKernel
    <3>2. CASE ~IsView(h, n)
      <4>1. x = [at |-> n, off |-> 0] /\ x.off = 0
        BY <3>2
      <4>2. h.nodes[n].kind \in {"op", "contiguous"} /\ h.nodes[n].kind # "view"
        BY <1>0, <2>4, <3>2 DEF NodeOK, IsView
      <4>3. h.nodes[n].step = 1
        BY <1>0, <4>2 DEF NodeOK, HasKernel
      <4>4. x.off + (h.nodes[n].len - 1) * h.nodes[n].step < MaxLen
        BY <2>6, <4>1, <4>3
      <4> HIDE DEF x
      <4> QED BY <2>2, <2>4, <2>7, <4>1, <4>2, <4>4 DEF PlaceOK, IsView, HasKernel
    <3> QED BY <3>1, <3>2
  <2> HIDE DEF x
  <2>9. ASSUME NEW m \in NodeIds(h), m # n PROVE PlaceOK(g, m)
    <3>1. PlaceOK(h, m) /\ NodeOK(h, m) /\ g.place[m] = h.place[m]
      BY <1>0, <2>2, <2>9 DEF Stored, Built
    <3>2. Bound(h, m) /\ IsView(h, m) => /\ Bound(h, h.nodes[m].root)
                                         /\ g.place[h.nodes[m].root] = h.place[h.nodes[m].root]
      <4>1. IsView(h, m) => h.nodes[m].root \in NodeIds(h)
        BY <3>1 DEF NodeOK, ViewOK
      <4>2. Bound(h, m) /\ IsView(h, m) => Bound(h, h.nodes[m].root)
        BY <3>1 DEF PlaceOK
      <4> QED BY <1>2, <2>2, <4>1, <4>2
    <3> QED BY <2>2, <3>1, <3>2 DEF PlaceOK, Bound, IsView, HasKernel, Sources
  <2>10. Good(g)
    BY <2>3, <2>8, <2>9 DEF Good, Stored
  <2>11. Bound(g, n) /\ \A m \in NodeIds(h) : Bound(h, m) => g.place[m] = h.place[m]
    BY <1>2, <2>2, <2>7 DEF Bound
  <2> QED BY <2>1, <2>2, <2>10, <2>11 DEF Binds
<1> QED BY <1>1, <1>2

\* What holds at first and is kept by each step holds at every step of a fold.
LEMMA StepsHold ==
  ASSUME NEW good, NEW n \in Nat, 0 \in good, \A k \in 1 .. n : k - 1 \in good => k \in good
  PROVE  \A k \in 0 .. n : k \in good
<1> DEFINE Bad == {k \in 0 .. n : k \notin good}
<1>1. SUFFICES ASSUME Bad # {} PROVE FALSE
  OBVIOUS
<1>2. Bad \in SUBSET Nat
  OBVIOUS
<1>3. PICK k \in Bad : \A j \in Bad : k <= j
  BY <1>1, <1>2, LeastExists
<1>4. k \in 1 .. n /\ k - 1 \in 0 .. n
  BY <1>3
<1>5. k - 1 \notin Bad
  BY <1>3, <1>4
<1> QED BY <1>3, <1>4, <1>5

\* bind_storage() of a whole order.
LEMMA BindAllGood ==
  ASSUME NEW h, Good(h), NEW order \in Seq(NodeIds(h)), Sound(h, order)
  PROVE  /\ Binds(h, BindAll(h, order))
         /\ \A k \in 1 .. Len(order) : Bound(BindAll(h, order), order[k])
<1>1. Len(order) \in Nat /\ DOMAIN order = 1 .. Len(order)
  BY LenProperties
<1>2. PICK g : Steps("bind", <<>>, <<>>, h, order, g) /\ g[Len(order)] = BindAll(h, order)
  BY <1>1, BindSteps
<1> DEFINE Inv(k) == Binds(h, g[k]) /\ \A j \in 1 .. k : Bound(g[k], order[j])
           good == {k \in 0 .. Len(order) : Inv(k)}
<1>3. 0 \in good
  <2>1. g[0] = h
    BY <1>2 DEF Steps
  <2>2. Inv(0)
    BY <2>1 DEF Binds
  <2> QED BY <1>1, <2>2
<1>4. ASSUME NEW k \in 1 .. Len(order), k - 1 \in good PROVE k \in good
  <2> DEFINE a == g[k - 1]
             n == order[k]
  <2>1. Binds(h, a) /\ \A j \in 1 .. k - 1 : Bound(a, order[j])
    BY <1>4
  <2>2. g[k] = Placed(a, n)
    BY <1>2 DEF Steps, FoldStep
  <2>3. Good(a) /\ a.nodes = h.nodes /\ a.computed = h.computed /\ a.mem = h.mem /\ NodeIds(a) = NodeIds(h)
        /\ \A m \in NodeIds(h) : Bound(h, m) => a.place[m] = h.place[m]
    BY <2>1 DEF Binds, NodeIds
  <2>4. n \in NodeIds(h) /\ n \notin h.computed
    <3>1. n \in NodeIds(h)
      BY ElementOfSeq
    <3> QED BY <3>1 DEF Sound
  <2> HIDE DEF a
  <2>5. IsView(h, n) => Bound(a, h.nodes[n].root)
    <3> SUFFICES ASSUME IsView(h, n) PROVE Bound(a, h.nodes[n].root)
      OBVIOUS
    <3>1. CASE h.nodes[n].root \in h.computed
      <4>1. h.nodes[n].root \in NodeIds(a)
        BY <2>3, <3>1 DEF Good, Built, IsHeap
      <4>2. PlaceOK(a, h.nodes[n].root)
        BY <2>3, <4>1 DEF Good, Stored
      <4> QED BY <2>3, <3>1, <4>2 DEF PlaceOK
    <3>2. CASE \E j \in 1 .. k - 1 : order[j] = h.nodes[n].root
      BY <2>1, <3>2
    <3> QED BY <3>1, <3>2, RootsFirst
  <2>6. Binds(a, g[k]) /\ Bound(g[k], n)
    BY <2>2, <2>3, <2>4, <2>5, PlacedGood DEF IsView
  <2>7. Binds(h, g[k])
    BY <2>3, <2>6 DEF Binds, Bound
  <2>8. \A j \in 1 .. k : Bound(g[k], order[j])
    <3> SUFFICES ASSUME NEW j \in 1 .. k PROVE Bound(g[k], order[j])
      OBVIOUS
    <3>1. CASE j = k
      BY <2>6, <3>1
    <3>2. CASE j # k
      <4>1. j \in 1 .. k - 1 /\ j \in 1 .. Len(order)
        BY <1>1, <3>2
      <4>2. order[j] \in NodeIds(a) /\ Bound(a, order[j])
        BY <2>1, <2>3, <4>1, ElementOfSeq DEF a
      <4> QED BY <2>6, <4>2 DEF Binds, Bound
    <3> QED BY <3>1, <3>2
  <2> QED BY <1>1, <2>7, <2>8
<1> HIDE DEF good
<1>5. Len(order) \in good
  <2>1. Len(order) \in 0 .. Len(order)
    BY <1>1
  <2> QED BY <1>1, <1>3, <1>4, <2>1, StepsHold
<1>6. Inv(Len(order))
  BY <1>5 DEF good
<1> QED BY <1>2, <1>6

-----------------------------------------------------------------------------
(* Writing.                                                                *)

\* The graph and the places are kept, and so is all memory but that of `at`.
Writes(h, g, at) ==
  /\ IsHeap(g) /\ g.nodes = h.nodes /\ g.place = h.place /\ g.computed = h.computed
  /\ \A m \in NodeIds(h) \ at : g.mem[m] = h.mem[m]

\* Replacing the memory of one node.
LEMMA FieldMem ==
  ASSUME NEW h, IsHeap(h), NEW n \in NodeIds(h), NEW x
  PROVE  LET g == [h EXCEPT !.mem[n] = x] IN Writes(h, g, {n}) /\ g.mem[n] = x
<1> DEFINE g == [h EXCEPT !.mem[n] = x]
           q == [h.mem EXCEPT ![n] = x]
<1>1. h = [f \in {"nodes", "place", "computed", "mem"} |-> h[f]]
  BY DEF IsHeap
<1>2. /\ g = [f \in {"nodes", "place", "computed", "mem"} |-> g[f]]
      /\ g.nodes = h.nodes /\ g.computed = h.computed /\ g.place = h.place /\ g.mem = q
  <2>1. g = [f \in {"nodes", "place", "computed", "mem"} |-> IF f = "mem" THEN q ELSE h[f]]
    BY <1>1
  <2> HIDE DEF g, q
  <2> QED BY <2>1
<1>3. IsList(h.mem) /\ NodeIds(h) = 1 .. Len(h.mem)
  BY HeapIds DEF IsHeap
<1>4. IsList(q) /\ Len(q) = Len(h.mem) /\ q[n] = x /\ \A m \in NodeIds(h) : m # n => q[m] = h.mem[m]
  <2>1. n \in 1 .. Len(h.mem) /\ q = Replaced(h.mem, n, x)
    BY <1>3 DEF Replaced
  <2> HIDE DEF q
  <2> QED BY <1>3, <2>1, ListExcept
<1> HIDE DEF g, q
<1>5. IsHeap(g)
  <2>1. NodeIds(g) = NodeIds(h)
    BY <1>2 DEF NodeIds
  <2> QED BY <1>2, <1>4, <2>1 DEF IsHeap
<1> QED BY <1>2, <1>4, <1>5 DEF g, Writes

\* One write after another.
LEMMA WritesOn ==
  ASSUME NEW h, NEW g, NEW f, NEW S, NEW T, Writes(h, g, S), Writes(g, f, T)
  PROVE  Writes(h, f, S \cup T)
BY DEF Writes, NodeIds

\* Writing leaves what is bound as it was, and what is computed if it is elsewhere.
LEMMA WritesGood ==
  ASSUME NEW h, Good(h), NEW g, NEW S, Writes(h, g, S)
  PROVE  /\ Good(g) /\ NodeIds(g) = NodeIds(h)
         /\ \A n \in NodeIds(h) : h.place[n].at \in NodeIds(h) \ S => Read(g, n) = Read(h, n)
         /\ S \cap h.computed = {} => Keeps(h, g)
<1>1. /\ IsHeap(g) /\ g.nodes = h.nodes /\ g.place = h.place /\ g.computed = h.computed
      /\ \A m \in NodeIds(h) \ S : g.mem[m] = h.mem[m]
  BY DEF Writes
<1>2. Built(g) /\ NodeIds(g) = NodeIds(h)
  BY <1>1, SameBuilt DEF Good
<1>3. Stored(g)
  <2> SUFFICES ASSUME NEW n \in NodeIds(h) PROVE PlaceOK(g, n)
    BY <1>2 DEF Stored
  <2>1. PlaceOK(h, n)
    BY DEF Good, Stored
  <2> QED BY <1>1, <2>1 DEF PlaceOK, Bound, IsView, HasKernel, Sources
<1>4. ASSUME NEW n \in NodeIds(h), h.place[n].at \in NodeIds(h) \ S PROVE Read(g, n) = Read(h, n)
  <2>1. g.mem[h.place[n].at] = h.mem[h.place[n].at]
    BY <1>1, <1>4
  <2>2. g.nodes[n] = h.nodes[n] /\ g.place[n] = h.place[n]
    BY <1>1
  <2> QED BY <2>1, <2>2, SameRead
<1>5. ASSUME S \cap h.computed = {}, NEW n \in h.computed PROVE Read(g, n) = Read(h, n)
  <2>1. n \in NodeIds(h) /\ h.computed \subseteq NodeIds(h)
    BY DEF Good, Built, IsHeap
  <2>2. h.place[n].at \in h.computed
    BY <2>1 DEF Good, Stored, PlaceOK
  <2> QED BY <1>4, <1>5, <2>1, <2>2
<1> QED BY <1>2, <1>3, <1>4, <1>5 DEF Good, Keeps

\* A kernel writes the memory of its node.
LEMMA ComputedWrites ==
  ASSUME NEW h, IsHeap(h), NEW n \in NodeIds(h)
  PROVE  Writes(h, Computed(h, n), {n})
<1>1. CASE ~HasKernel(h, n)
  BY <1>1 DEF Computed, Writes
<1>2. CASE HasKernel(h, n)
  <2> DEFINE v == Combine(h, n, [k \in DOMAIN Sources(h, n) |-> Read(h, Sources(h, n)[k])])
             x == [i \in 1 .. MaxLen |-> IF i \in DOMAIN v THEN v[i] ELSE h.mem[n][i]]
  <2>1. Computed(h, n) = [h EXCEPT !.mem[n] = x]
    BY <1>2 DEF Computed
  <2> HIDE DEF x
  <2> QED BY <2>1, FieldMem
<1> QED BY <1>1, <1>2

\* The kernels of an order write the memory of its nodes.
LEMMA ComputeAllWrites ==
  ASSUME NEW h, IsHeap(h), NEW order \in Seq(NodeIds(h))
  PROVE  Writes(h, ComputeAll(h, order), {order[k] : k \in 1 .. Len(order)})
<1>1. Len(order) \in Nat /\ DOMAIN order = 1 .. Len(order)
  BY LenProperties
<1>2. PICK g : Steps("compute", <<>>, <<>>, h, order, g) /\ g[Len(order)] = ComputeAll(h, order)
  BY <1>1, ComputeSteps
<1> DEFINE S == {order[k] : k \in 1 .. Len(order)}
           good == {k \in 0 .. Len(order) : Writes(h, g[k], S)}
<1>3. 0 \in good
  <2>1. g[0] = h
    BY <1>2 DEF Steps
  <2>2. Writes(h, g[0], S)
    BY <2>1 DEF Writes
  <2> QED BY <1>1, <2>2
<1>4. ASSUME NEW k \in 1 .. Len(order), k - 1 \in good PROVE k \in good
  <2>1. Writes(h, g[k - 1], S)
    BY <1>4
  <2>2. g[k] = Computed(g[k - 1], order[k])
    BY <1>2 DEF Steps, FoldStep
  <2>3. IsHeap(g[k - 1]) /\ order[k] \in NodeIds(g[k - 1])
    BY <2>1, ElementOfSeq DEF Writes, NodeIds
  <2>4. Writes(g[k - 1], g[k], {order[k]})
    BY <2>2, <2>3, ComputedWrites
  <2>5. S \cup {order[k]} = S
    OBVIOUS
  <2> HIDE DEF S
  <2>6. Writes(h, g[k], S)
    BY <2>1, <2>4, <2>5, WritesOn
  <2> QED BY <2>6
<1> HIDE DEF good
<1>5. Len(order) \in good
  <2>1. Len(order) \in 0 .. Len(order)
    BY <1>1
  <2> QED BY <1>1, <1>3, <1>4, <2>1, StepsHold
<1> QED BY <1>2, <1>5 DEF good

-----------------------------------------------------------------------------
(* realize().                                                              *)

\* The nodes of an order are in memory of theirs, or of what is computed.
LEMMA Anchored ==
  ASSUME NEW h, Good(h), NEW order \in Seq(NodeIds(h)), Sound(h, order),
         NEW k \in 1 .. Len(order), Bound(h, order[k])
  PROVE  \/ h.place[order[k]].at \in h.computed
         \/ \E j \in 1 .. k : order[j] = h.place[order[k]].at /\ HasKernel(h, order[j])
<1> DEFINE n == order[k]
<1>1. n \in NodeIds(h) /\ Len(order) \in Nat
  BY ElementOfSeq, LenProperties
<1>2. PlaceOK(h, n) /\ NodeOK(h, n) /\ n \notin h.computed
  BY <1>1 DEF Good, Built, Stored, Sound
<1>3. CASE IsView(h, n)
  <2> DEFINE r == h.nodes[n].root
  <2>1. r \in NodeIds(h) /\ h.nodes[r].kind # "view" /\ Bound(h, r) /\ h.place[n].at = h.place[r].at
    BY <1>2, <1>3 DEF NodeOK, ViewOK, PlaceOK
  <2>2. PlaceOK(h, r) /\ NodeOK(h, r)
    BY <2>1 DEF Good, Built, Stored
  <2>3. CASE r \in h.computed
    BY <2>1, <2>2, <2>3 DEF PlaceOK
  <2>4. CASE r \notin h.computed
    <3>1. PICK j \in 1 .. k - 1 : order[j] = r
      BY <1>3, <2>4, RootsFirst
    <3>2. HasKernel(h, r)
      BY <2>1, <2>2, <2>4 DEF NodeOK, PlaceOK, HasKernel
    <3>3. h.place[r].at = r
      <4>1. h.place[r] = [at |-> r, off |-> 0]
        BY <2>1, <2>2, <3>2 DEF PlaceOK
      <4> QED BY <4>1
    <3>4. j \in 1 .. k
      BY <1>1, <3>1
    <3> QED BY <2>1, <3>1, <3>2, <3>3, <3>4
  <2> QED BY <2>3, <2>4
<1>4. CASE ~IsView(h, n)
  <2>1. HasKernel(h, n)
    BY <1>2, <1>4 DEF NodeOK, PlaceOK, HasKernel, IsView
  <2>2. h.place[n].at = n
    BY <1>2, <2>1 DEF PlaceOK
  <2>3. k \in 1 .. k
    BY <1>1
  <2> QED BY <2>1, <2>2, <2>3
<1> QED BY <1>3, <1>4

\* What is bound and evaluated may be flagged.
Flagged(h, new) == [h EXCEPT !.computed = @ \cup new]

\* Flagging an order that is bound leaves what is flagged in memory of what is flagged.
LEMMA FlaggedGood ==
  ASSUME NEW h, Good(h), NEW order \in Seq(NodeIds(h)), Sound(h, order),
         \A k \in 1 .. Len(order) : Bound(h, order[k])
  PROVE  LET g == Flagged(h, {order[i] : i \in DOMAIN order}) IN
         /\ Good(g) /\ Keeps(h, g) /\ g.nodes = h.nodes /\ g.place = h.place /\ g.mem = h.mem
         /\ g.computed = Visited(h, order)
<1> DEFINE S == {order[i] : i \in DOMAIN order}
           g == Flagged(h, S)
<1>0. Built(h) /\ Stored(h) /\ IsHeap(h) /\ Len(order) \in Nat /\ DOMAIN order = 1 .. Len(order)
  BY LenProperties DEF Good, Built
<1>1. h = [f \in {"nodes", "place", "computed", "mem"} |-> h[f]]
  BY <1>0 DEF IsHeap
<1>2. /\ g = [f \in {"nodes", "place", "computed", "mem"} |-> g[f]]
      /\ g.nodes = h.nodes /\ g.mem = h.mem /\ g.place = h.place /\ g.computed = h.computed \cup S
  <2>1. g = [f \in {"nodes", "place", "computed", "mem"} |-> IF f = "computed" THEN h.computed \cup S ELSE h[f]]
    BY <1>1 DEF Flagged
  <2> HIDE DEF g, S
  <2> QED BY <2>1
<1>3. S \subseteq NodeIds(h)
  BY <1>0, ElementOfSeq
<1>4. g.computed = Visited(h, order)
  BY <1>2 DEF Visited
<1>5. \A k \in 1 .. Len(order) : order[k] \in S
  BY <1>0
<1>6. \A n \in S : \E k \in 1 .. Len(order) : n = order[k]
  BY <1>0
<1> HIDE DEF g, S
<1>7. IsHeap(g) /\ NodeIds(g) = NodeIds(h)
  BY <1>0, <1>2, <1>3 DEF IsHeap, NodeIds
<1>8. Built(g)
  BY <1>0, <1>2, <1>7, SameBuilt
<1>9. ASSUME NEW n \in NodeIds(h) PROVE PlaceOK(g, n)
  <2>1. PlaceOK(h, n)
    BY <1>0 DEF Stored
  <2>2. CASE n \notin S
    BY <1>2, <2>1, <2>2 DEF PlaceOK, Bound, IsView, HasKernel, Sources
  <2>3. CASE n \in S
    <3>1. PICK k \in 1 .. Len(order) : n = order[k]
      BY <1>6, <2>3
    <3>2. Bound(h, n)
      BY <3>1
    <3>3. h.place[n].at \in g.computed
      <4>1. h.place[n].at \in h.computed \/ \E j \in 1 .. k : order[j] = h.place[n].at
        BY <3>1, <3>2, Anchored
      <4>2. \A j \in 1 .. k : j \in 1 .. Len(order)
        BY <1>0
      <4> QED BY <1>2, <1>5, <4>1, <4>2
    <3>4. \A i \in 1 .. Len(Sources(h, n)) : Sources(h, n)[i] \in g.computed
      <4>1. \A i \in 1 .. Len(Sources(h, n)) :
              Sources(h, n)[i] \in h.computed \/ \E j \in 1 .. k - 1 : order[j] = Sources(h, n)[i]
        BY <3>1 DEF Sound
      <4>2. \A j \in 1 .. k - 1 : j \in 1 .. Len(order)
        BY <1>0
      <4> QED BY <1>2, <1>5, <4>1, <4>2
    <3>5. n \in g.computed
      BY <1>2, <2>3
    <3> QED BY <1>2, <2>1, <3>2, <3>3, <3>4, <3>5 DEF PlaceOK, Bound, IsView, HasKernel, Sources
  <2> QED BY <2>2, <2>3
<1>10. Stored(g)
  BY <1>7, <1>9 DEF Stored
<1>11. Keeps(h, g)
  BY <1>2 DEF Keeps, Read, Cell
<1> QED BY <1>2, <1>4, <1>8, <1>10, <1>11 DEF Good, g, S

\* A heap whose graph begins with h's and where h's results are.
Extends(h, g) ==
  /\ Good(g) /\ Keeps(h, g) /\ h.computed \subseteq g.computed
  /\ Len(h.nodes) <= Len(g.nodes) /\ \A n \in NodeIds(h) : g.nodes[n] = h.nodes[n]

\* realize() loses no result and leaves what it was asked for computed.
LEMMA RealizedGood ==
  ASSUME NEW h, Good(h), NEW roots \in Seq(NodeIds(h))
  PROVE  /\ Extends(h, Realized(h, roots)) /\ Realized(h, roots).nodes = h.nodes
         /\ \A i \in 1 .. Len(roots) : roots[i] \in Realized(h, roots).computed
<1> DEFINE order == Order(h, roots)
           b == BindAll(h, order)
           c == ComputeAll(b, order)
           g == Flagged(c, {order[i] : i \in DOMAIN order})
<1>0. Realized(h, roots) = g
  BY DEF Realized, Flagged
<1>1. order \in Seq(NodeIds(h)) /\ Sound(h, order) /\ \A i \in 1 .. Len(roots) : roots[i] \in Visited(h, order)
  BY BuiltAcyclic, OrderSound DEF Good
<1> HIDE DEF order
<1>2. Binds(h, b) /\ \A k \in 1 .. Len(order) : Bound(b, order[k])
  BY <1>1, BindAllGood
<1>3. /\ Good(b) /\ b.nodes = h.nodes /\ b.computed = h.computed /\ b.mem = h.mem
      /\ \A n \in NodeIds(h) : Bound(h, n) => b.place[n] = h.place[n]
  BY <1>2 DEF Binds
<1>4. NodeIds(b) = NodeIds(h) /\ h.computed \subseteq NodeIds(h) /\ IsHeap(b)
  BY <1>3 DEF NodeIds, Good, Built, IsHeap
<1>5. Keeps(h, b)
  <2> SUFFICES ASSUME NEW n \in h.computed PROVE Read(b, n) = Read(h, n)
    BY DEF Keeps
  <2>1. PlaceOK(h, n) /\ n \in NodeIds(h)
    BY <1>4 DEF Good, Stored
  <2>2. b.place[n] = h.place[n]
    BY <1>3, <2>1 DEF PlaceOK
  <2> HIDE DEF b
  <2> QED BY <1>3, <2>2, SameRead
<1> HIDE DEF b
<1>6. Writes(b, c, {order[k] : k \in 1 .. Len(order)})
  BY <1>1, <1>4, ComputeAllWrites
<1>7. {order[k] : k \in 1 .. Len(order)} \cap b.computed = {}
  BY <1>1, <1>3 DEF Sound
<1>8. Good(c) /\ Keeps(b, c) /\ NodeIds(c) = NodeIds(h)
  BY <1>3, <1>4, <1>6, <1>7, WritesGood
<1>9. c.nodes = h.nodes /\ c.computed = h.computed /\ \A n : Bound(c, n) <=> Bound(b, n)
  BY <1>3, <1>6 DEF Writes, Bound
<1>10. Sound(c, order) /\ Visited(c, order) = Visited(h, order)
  BY <1>1, <1>9 DEF Sound, Sources, Visited
<1> HIDE DEF c
<1>11. Good(g) /\ Keeps(c, g) /\ g.nodes = c.nodes /\ g.computed = Visited(h, order)
  BY <1>1, <1>2, <1>8, <1>9, <1>10, FlaggedGood
<1> HIDE DEF g
<1>12. Keeps(h, g) /\ h.computed \subseteq g.computed
  BY <1>3, <1>5, <1>8, <1>9, <1>11 DEF Keeps, Visited
<1>13. Len(h.nodes) <= Len(g.nodes)
  <2>1. Len(h.nodes) \in Nat
    BY HeapIds DEF Good, Built
  <2> QED BY <1>9, <1>11, <2>1
<1> QED BY <1>0, <1>1, <1>9, <1>11, <1>12, <1>13 DEF Extends

\* The beginnings of a list.
LEMMA PrefixesOf ==
  ASSUME NEW S, NEW q \in Seq(S), NEW p \in Prefixes(q)
  PROVE  /\ p \in Seq(S) /\ Len(p) \in Nat /\ Len(p) <= Len(q)
         /\ \A i \in 1 .. Len(p) : p[i] = q[i]
<1>1. PICK l \in 0 .. Len(q) : p = SubSeq(q, 1, l)
  BY DEF Prefixes
<1>2. Len(q) \in Nat /\ \A i \in 1 .. Len(q) : q[i] \in S
  BY LenProperties, ElementOfSeq
<1>3. \A i \in 1 .. l : q[i] \in S
  BY <1>2
<1>4. /\ SubSeq(q, 1, l) \in Seq(S) /\ Len(SubSeq(q, 1, l)) = IF 1 <= l THEN l - 1 + 1 ELSE 0
      /\ \A i \in 1 .. l - 1 + 1 : SubSeq(q, 1, l)[i] = q[1 + i - 1]
  BY <1>3, SubSeqProperties
<1>5. p \in Seq(S) /\ Len(p) = l /\ \A i \in 1 .. l : p[i] = q[i]
  BY <1>1, <1>2, <1>4
<1> QED BY <1>2, <1>5

\* A realize() that fails flags nothing and loses no result.
LEMMA FailedGood ==
  ASSUME NEW h, Good(h), NEW roots \in Seq(NodeIds(h)), NEW g \in FailedRealizes(h, roots)
  PROVE  Extends(h, g) /\ g.nodes = h.nodes /\ g.computed = h.computed
<1> DEFINE order == Order(h, roots)
           before == {p \in Prefixes(order) \ {order} : HasKernel(h, order[Len(p) + 1])}
<1>1. order \in Seq(NodeIds(h)) /\ Sound(h, order) /\ Len(order) \in Nat
  BY BuiltAcyclic, OrderSound, LenProperties DEF Good
<1>2. \/ \E p \in before : g = BindAll(h, p)
      \/ \E p \in before \cup {<<>>} : g = ComputeAll(BindAll(h, order), p)
  BY DEF FailedRealizes, UnsupportedAt
<1>3. \A p \in before : p \in Prefixes(order)
  OBVIOUS
<1> HIDE DEF order, before
<1>4. \A p \in before \cup {<<>>} :
        /\ p \in Seq(NodeIds(h)) /\ Len(p) \in Nat /\ Len(p) <= Len(order)
        /\ \A i \in 1 .. Len(p) : p[i] = order[i]
  <2>1. \A p \in before : /\ p \in Seq(NodeIds(h)) /\ Len(p) \in Nat /\ Len(p) <= Len(order)
                          /\ \A i \in 1 .. Len(p) : p[i] = order[i]
    BY <1>1, <1>3, PrefixesOf
  <2>2. ASSUME NEW p, p = <<>>
        PROVE  /\ p \in Seq(NodeIds(h)) /\ Len(p) \in Nat /\ Len(p) <= Len(order)
               /\ \A i \in 1 .. Len(p) : p[i] = order[i]
    <3>1. p \in Seq(NodeIds(h)) /\ Len(p) = 0
      BY <2>2, EmptySeq
    <3> QED BY <1>1, <3>1
  <2> QED BY <2>1, <2>2
<1>5. ASSUME NEW p \in before \cup {<<>>} PROVE Sound(h, p)
  <2>1. /\ Len(p) \in Nat /\ Len(p) <= Len(order) /\ \A i \in 1 .. Len(p) : p[i] = order[i]
    BY <1>4
  <2>2. \A i \in 1 .. Len(p) : i \in 1 .. Len(order) /\ \A j \in 1 .. i - 1 : j \in 1 .. Len(p)
    BY <1>1, <2>1
  <2> QED BY <1>1, <2>1, <2>2, SMTT(60) DEF Sound
<1>6. ASSUME NEW b, Binds(h, b)
      PROVE  Keeps(h, b) /\ Good(b) /\ b.nodes = h.nodes /\ b.computed = h.computed /\ NodeIds(b) = NodeIds(h)
  <2>1. /\ Good(b) /\ b.nodes = h.nodes /\ b.computed = h.computed /\ b.mem = h.mem
        /\ \A n \in NodeIds(h) : Bound(h, n) => b.place[n] = h.place[n]
    BY <1>6 DEF Binds
  <2>2. ASSUME NEW n \in h.computed PROVE Read(b, n) = Read(h, n)
    <3>1. n \in NodeIds(h)
      BY DEF Good, Built, IsHeap
    <3>2. Bound(h, n)
      BY <3>1 DEF Good, Stored, PlaceOK
    <3>3. b.place[n] = h.place[n]
      BY <2>1, <3>1, <3>2
    <3> QED BY <2>1, <3>3, SameRead
  <2> QED BY <2>1, <2>2 DEF Keeps, NodeIds
<1>7. Keeps(h, g) /\ Good(g) /\ g.nodes = h.nodes /\ g.computed = h.computed
  <2>1. CASE \E p \in before : g = BindAll(h, p)
    <3>1. PICK p \in before : g = BindAll(h, p)
      BY <2>1
    <3>2. p \in Seq(NodeIds(h)) /\ Sound(h, p)
      BY <1>4, <1>5
    <3>3. Binds(h, g)
      BY <3>1, <3>2, BindAllGood
    <3> QED BY <1>6, <3>3
  <2>2. CASE \E p \in before \cup {<<>>} : g = ComputeAll(BindAll(h, order), p)
    <3>1. PICK p \in before \cup {<<>>} : g = ComputeAll(BindAll(h, order), p)
      BY <2>2
    <3> DEFINE b == BindAll(h, order)
    <3>2. p \in Seq(NodeIds(h)) /\ Sound(h, p)
      BY <1>4, <1>5
    <3>3. Binds(h, b)
      BY <1>1, BindAllGood
    <3> HIDE DEF b
    <3>4. Keeps(h, b) /\ Good(b) /\ b.nodes = h.nodes /\ b.computed = h.computed /\ NodeIds(b) = NodeIds(h)
      BY <1>6, <3>3
    <3>5. Writes(b, g, {p[k] : k \in 1 .. Len(p)})
      BY <3>1, <3>2, <3>4, ComputeAllWrites DEF Good, Built, b
    <3>6. {p[k] : k \in 1 .. Len(p)} \cap b.computed = {}
      BY <3>2, <3>4 DEF Sound
    <3>7. Good(g) /\ Keeps(b, g)
      BY <3>4, <3>5, <3>6, WritesGood
    <3>8. g.nodes = h.nodes /\ g.computed = h.computed
      BY <3>4, <3>5 DEF Writes
    <3> QED BY <3>4, <3>7, <3>8 DEF Keeps
  <2> QED BY <1>2, <2>1, <2>2
<1>8. Len(h.nodes) <= Len(g.nodes)
  <2>1. Len(h.nodes) \in Nat
    BY HeapIds DEF Good, Built
  <2> QED BY <1>7, <2>1
<1> QED BY <1>7, <1>8 DEF Extends

-----------------------------------------------------------------------------
(* Copying.                                                                *)

\* The elements of a node are in order in memory.
LEMMA Spread ==
  ASSUME NEW step \in Nat, NEW len \in Nat, NEW i \in 1 .. len
  PROVE  (i - 1) * step \in Nat /\ (len - 1) * step \in Nat /\ (i - 1) * step <= (len - 1) * step
<1> DEFINE a == i - 1
           b == len - i
<1>1. a \in Nat /\ b \in Nat /\ len - 1 = a + b
  OBVIOUS
<1> HIDE DEF a, b
<1>2. (a + b) * step = a * step + b * step /\ a * step \in Nat /\ b * step \in Nat
  BY <1>1
<1>3. (len - 1) * step = (a + b) * step
  BY <1>1
<1>4. a * step \in Nat /\ (a + b) * step \in Nat /\ a * step <= (a + b) * step
  BY <1>2
<1> QED BY <1>3, <1>4 DEF a

\* The cells of a bound node are cells there are.
LEMMA CellBounds ==
  ASSUME NEW h, Good(h), NEW n \in NodeIds(h), Bound(h, n), NEW i \in 1 .. h.nodes[n].len
  PROVE  Cell(h, n, i) \in 1 .. MaxLen
<1> DEFINE r == h.nodes[n].root
           LastAt(m) == (h.nodes[m].len - 1) * h.nodes[m].step
<1>1. PlaceOK(h, n) /\ NodeOK(h, n) /\ MaxLen \in Nat
  BY GraphBoundsAssumption DEF Good, Built, Stored
<1>2. /\ h.place[n].off \in Nat /\ h.nodes[n].step \in Nat /\ h.nodes[n].len \in Nat
  <2>1. h.place[n].off \in Nat
    BY <1>1 DEF PlaceOK
  <2>2. h.nodes[n].step \in Nat /\ h.nodes[n].len \in 1 .. MaxLen
    BY <1>1 DEF NodeOK
  <2> QED BY <1>1, <2>1, <2>2
<1>3. h.place[n].off + LastAt(n) < MaxLen
  <2>1. CASE ~IsView(h, n)
    BY <1>1, <2>1 DEF PlaceOK
  <2>2. CASE IsView(h, n)
    <3>1. /\ r \in NodeIds(h) /\ h.nodes[r].kind # "view"
          /\ h.nodes[n].off + LastAt(n) <= LastAt(r)
      BY <1>1, <2>2 DEF NodeOK, ViewOK
    <3>2. Bound(h, r) /\ h.place[n].off = h.place[r].off + h.nodes[n].off
      BY <1>1, <2>2 DEF PlaceOK
    <3>3. PlaceOK(h, r) /\ NodeOK(h, r)
      BY <3>1 DEF Good, Built, Stored
    <3>4. h.place[r].off + LastAt(r) < MaxLen /\ h.place[r].off \in Nat
      BY <3>1, <3>2, <3>3 DEF PlaceOK, IsView
    <3>5. h.nodes[r].step \in Nat /\ h.nodes[r].len - 1 \in Nat
      <4>1. h.nodes[r].step \in Nat /\ h.nodes[r].len \in 1 .. MaxLen
        BY <3>3 DEF NodeOK
      <4> QED BY <1>1, <4>1
    <3>6. LastAt(r) \in Nat
      BY <3>5
    <3>7. LastAt(n) \in Nat /\ h.nodes[n].off \in Nat
      <4>1. h.nodes[n].off \in Nat
        BY <1>1 DEF NodeOK
      <4>2. LastAt(n) \in Nat
        BY <1>2, Spread
      <4> QED BY <4>1, <4>2
    <3> HIDE DEF LastAt, r
    <3> QED BY <1>1, <1>2, <3>1, <3>2, <3>4, <3>6, <3>7
  <2> QED BY <2>1, <2>2
<1>4. /\ (i - 1) * h.nodes[n].step \in Nat /\ LastAt(n) \in Nat
      /\ (i - 1) * h.nodes[n].step <= LastAt(n)
  BY <1>2, Spread
<1> DEFINE e == (i - 1) * h.nodes[n].step
<1>5. Cell(h, n, i) = h.place[n].off + 1 + e
  BY DEF Cell
<1> HIDE DEF LastAt, e
<1> QED BY <1>1, <1>2, <1>3, <1>4, <1>5 DEF e

\* Only cells of the destinations are written.
Overwrites(h, g, D) ==
  /\ IsHeap(g) /\ g.nodes = h.nodes /\ g.place = h.place /\ g.computed = h.computed
  /\ \A m \in NodeIds(h) : \A i \in 1 .. MaxLen :
       (\A d \in D : <<m, i>> \notin Cells(h, d)) => g.mem[m][i] = h.mem[m][i]

\* One copy after another.
LEMMA OverwritesOn ==
  ASSUME NEW h, NEW g, NEW f, NEW D, Overwrites(h, g, D), Overwrites(g, f, D)
  PROVE  Overwrites(h, f, D)
BY DEF Overwrites, NodeIds, Cells, Cell

\* What shares no cell with a destination reads as it did.
LEMMA OverwritesGood ==
  ASSUME NEW h, Good(h), NEW g, NEW D, Overwrites(h, g, D)
  PROVE  /\ Good(g)
         /\ \A n \in h.computed : (\A d \in D : Cells(h, d) \cap Cells(h, n) = {}) => Read(g, n) = Read(h, n)
<1>1. Writes(h, g, NodeIds(h))
  BY DEF Overwrites, Writes
<1>2. Good(g)
  BY <1>1, WritesGood
<1>3. ASSUME NEW n \in h.computed, \A d \in D : Cells(h, d) \cap Cells(h, n) = {}
      PROVE  Read(g, n) = Read(h, n)
  <2>1. n \in NodeIds(h) /\ h.computed \subseteq NodeIds(h)
    BY DEF Good, Built, IsHeap
  <2>2. Bound(h, n) /\ h.place[n].at \in NodeIds(h)
    BY <2>1 DEF Good, Stored, PlaceOK
  <2>3. g.nodes[n] = h.nodes[n] /\ g.place[n] = h.place[n]
    BY DEF Overwrites
  <2>4. ASSUME NEW i \in 1 .. h.nodes[n].len
        PROVE  g.mem[h.place[n].at][Cell(h, n, i)] = h.mem[h.place[n].at][Cell(h, n, i)]
    <3>1. Cell(h, n, i) \in 1 .. MaxLen
      BY <2>1, <2>2, CellBounds
    <3>2. <<h.place[n].at, Cell(h, n, i)>> \in Cells(h, n)
      BY DEF Cells
    <3>3. \A d \in D : <<h.place[n].at, Cell(h, n, i)>> \notin Cells(h, d)
      BY <1>3, <3>2
    <3> QED BY <2>2, <3>1, <3>3 DEF Overwrites
  <2>5. \A i \in 1 .. h.nodes[n].len : Cell(g, n, i) = Cell(h, n, i)
    BY <2>3 DEF Cell
  <2> QED BY <2>3, <2>4, <2>5 DEF Read
<1> QED BY <1>2, <1>3

\* The cells of a contiguous node are a run.
LEMMA RunOfCells ==
  ASSUME NEW h, Good(h), NEW d \in NodeIds(h), IsContiguous(h, d), NEW i \in 1 .. MaxLen,
         i > h.place[d].off, i <= h.place[d].off + h.nodes[d].len
  PROVE  <<h.place[d].at, i>> \in Cells(h, d)
<1> DEFINE k == i - h.place[d].off
<1>1. h.place[d].off \in Nat /\ h.nodes[d].len \in Nat /\ h.nodes[d].step \in Nat
  <2>1. PlaceOK(h, d) /\ NodeOK(h, d)
    BY DEF Good, Built, Stored
  <2>2. h.place[d].off \in Nat
    BY <2>1 DEF PlaceOK
  <2>3. h.nodes[d].len \in 1 .. MaxLen /\ h.nodes[d].step \in Nat /\ MaxLen \in Nat
    BY <2>1, GraphBoundsAssumption DEF NodeOK
  <2> QED BY <2>2, <2>3
<1>2. k \in 1 .. h.nodes[d].len /\ i = h.place[d].off + 1 + (k - 1)
  BY <1>1
<1> HIDE DEF k
<1>3. (k - 1) * h.nodes[d].step = k - 1
  <2>1. CASE h.nodes[d].len = 1
    <3>1. k - 1 = 0
      BY <1>2, <2>1
    <3>2. 0 * h.nodes[d].step = 0
      BY <1>1
    <3> QED BY <3>1, <3>2
  <2>2. CASE h.nodes[d].step = 1
    BY <1>2, <2>2
  <2> QED BY <2>1, <2>2 DEF IsContiguous
<1>4. Cell(h, d, k) = i
  BY <1>2, <1>3 DEF Cell
<1> QED BY <1>2, <1>4 DEF Cells

\* A copy writes cells of its destination.
LEMMA CopyOverwrites ==
  ASSUME NEW h, Good(h), NEW d \in h.computed, IsContiguous(h, d), NEW s
  PROVE  Overwrites(h, Copy(h, d, s), {d}) /\ Overwrites(h, BatchCopy(h, d, s), {d})
<1> DEFINE at == h.place[d].at
           x == [i \in 1 .. MaxLen |->
                   IF i > h.place[d].off /\ i <= h.place[d].off + h.nodes[d].len
                   THEN h.mem[h.place[s].at][h.place[s].off + (i - h.place[d].off)] ELSE h.mem[at][i]]
           y == [i \in 1 .. MaxLen |-> IF <<at, i>> \in Cells(h, d) THEN Undefined ELSE h.mem[at][i]]
<1>1. Copy(h, d, s) = [h EXCEPT !.mem[at] = x]
  BY DEF Copy
<1>2. BatchCopy(h, d, s) \in {Copy(h, d, s), [h EXCEPT !.mem[at] = y]}
  BY DEF BatchCopy
<1>3. at \in NodeIds(h) /\ IsHeap(h) /\ d \in NodeIds(h)
  <2>1. d \in NodeIds(h) /\ h.computed \subseteq NodeIds(h) /\ IsHeap(h)
    BY DEF Good, Built, IsHeap
  <2> QED BY <2>1 DEF Good, Stored, PlaceOK
<1>4. \A i \in 1 .. MaxLen : <<at, i>> \notin Cells(h, d) => x[i] = h.mem[at][i] /\ y[i] = h.mem[at][i]
  <2> SUFFICES ASSUME NEW i \in 1 .. MaxLen, <<at, i>> \notin Cells(h, d)
               PROVE  x[i] = h.mem[at][i] /\ y[i] = h.mem[at][i]
    OBVIOUS
  <2>1. ~(i > h.place[d].off /\ i <= h.place[d].off + h.nodes[d].len)
    BY <1>3, RunOfCells
  <2> QED BY <2>1
<1>5. ASSUME NEW z, \A i \in 1 .. MaxLen : <<at, i>> \notin Cells(h, d) => z[i] = h.mem[at][i]
      PROVE  Overwrites(h, [h EXCEPT !.mem[at] = z], {d})
  <2> DEFINE g == [h EXCEPT !.mem[at] = z]
  <2>1. Writes(h, g, {at}) /\ g.mem[at] = z
    <3> HIDE DEF at
    <3> QED BY <1>3, FieldMem, Zenon
  <2> HIDE DEF g, at
  <2>2. ASSUME NEW m \in NodeIds(h), NEW i \in 1 .. MaxLen, <<m, i>> \notin Cells(h, d)
        PROVE  g.mem[m][i] = h.mem[m][i]
    <3>1. CASE m = at
      BY <1>5, <2>1, <2>2, <3>1
    <3>2. CASE m # at
      BY <2>1, <3>2 DEF Writes
    <3> QED BY <3>1, <3>2
  <2>3. Overwrites(h, g, {d})
    BY <2>1, <2>2 DEF Writes, Overwrites
  <2> QED BY <2>3 DEF g
<1>6. Overwrites(h, [h EXCEPT !.mem[at] = x], {d})
  <2> HIDE DEF x, at
  <2> QED BY <1>4, <1>5
<1>7. Overwrites(h, [h EXCEPT !.mem[at] = y], {d})
  <2> HIDE DEF y, at
  <2> QED BY <1>4, <1>5
<1> HIDE DEF x, y, at
<1> QED BY <1>1, <1>2, <1>6, <1>7

\* What an assign() may write: destinations that are computed and contiguous.
Writable(h, ds, ks) ==
  /\ Len(ks) \in Nat /\ DOMAIN ks = 1 .. Len(ks)
  /\ \A i \in 1 .. Len(ks) : ks[i] \in DOMAIN ds
  /\ \A k \in DOMAIN ds : ds[k] \in h.computed /\ IsContiguous(h, ds[k])

\* Copies in turn, by copy() or in a batch, write cells of the destinations.
LEMMA StepsOverwrite ==
  ASSUME NEW h, Good(h), NEW ds, NEW fs, NEW ks, Writable(h, ds, ks), NEW what \in {"copy", "batch"},
         NEW g, Steps(what, ds, fs, h, ks, g)
  PROVE  Overwrites(h, g[Len(ks)], {ds[k] : k \in DOMAIN ds})
<1> DEFINE D == {ds[k] : k \in DOMAIN ds}
           good == {k \in 0 .. Len(ks) : Overwrites(h, g[k], D)}
<1>1. Len(ks) \in Nat
  BY DEF Writable
<1>2. 0 \in good
  <2>1. g[0] = h
    BY DEF Steps
  <2>2. IsHeap(h)
    BY DEF Good, Built
  <2>3. Overwrites(h, g[0], D)
    BY <2>1, <2>2 DEF Overwrites
  <2> QED BY <1>1, <2>3
<1>3. ASSUME NEW k \in 1 .. Len(ks), k - 1 \in good PROVE k \in good
  <2> DEFINE a == g[k - 1]
             d == ds[ks[k]]
             s == fs[ks[k]]
  <2>1. Overwrites(h, a, D)
    BY <1>3
  <2>2. ks[k] \in DOMAIN ds
    BY DEF Writable
  <2>3. d \in D /\ d \in h.computed /\ IsContiguous(h, d)
    BY <2>2 DEF Writable
  <2>4. g[k] \in {Copy(a, d, s), BatchCopy(a, d, s)}
    <3>1. g[k] = FoldStep(what, ds, fs, a, ks[k])
      BY DEF Steps
    <3> HIDE DEF a
    <3>2. CASE what = "copy"
      BY <3>1, <3>2 DEF FoldStep
    <3>3. CASE what = "batch"
      BY <3>1, <3>3 DEF FoldStep
    <3> QED BY <3>2, <3>3
  <2> HIDE DEF D, a, d, s
  <2>5. Good(a)
    BY <2>1, OverwritesGood
  <2>6. d \in a.computed /\ IsContiguous(a, d)
    BY <2>1, <2>3 DEF Overwrites, IsContiguous
  <2>7. Overwrites(a, g[k], {d})
    BY <2>4, <2>5, <2>6, CopyOverwrites
  <2>8. Overwrites(a, g[k], D)
    BY <2>3, <2>7 DEF Overwrites
  <2>9. Overwrites(h, g[k], D)
    BY <2>1, <2>8, OverwritesOn
  <2> QED BY <1>1, <2>9 DEF D
<1> HIDE DEF good
<1>4. Len(ks) \in good
  <2>1. Len(ks) \in 0 .. Len(ks)
    BY <1>1
  <2> QED BY <1>1, <1>2, <1>3, <2>1, StepsHold
<1> QED BY <1>4 DEF good

\* The copies that follow one another, and those of a batch.
LEMMA CopiesOverwrite ==
  ASSUME NEW h, Good(h), NEW ds, NEW fs, NEW ks, Writable(h, ds, ks)
  PROVE  /\ Overwrites(h, CopyAll(h, ds, fs, ks), {ds[k] : k \in DOMAIN ds})
         /\ Overwrites(h, BatchAll(h, ds, fs, ks), {ds[k] : k \in DOMAIN ds})
<1>1. Len(ks) \in Nat /\ DOMAIN ks = 1 .. Len(ks)
  BY DEF Writable
<1>2. PICK g : Steps("copy", ds, fs, h, ks, g) /\ g[Len(ks)] = CopyAll(h, ds, fs, ks)
  BY <1>1, CopySteps
<1>3. PICK f : Steps("batch", ds, fs, h, ks, f) /\ f[Len(ks)] = BatchAll(h, ds, fs, ks)
  BY <1>1, BatchSteps
<1>4. Overwrites(h, g[Len(ks)], {ds[k] : k \in DOMAIN ds})
  BY <1>2, StepsOverwrite
<1>5. Overwrites(h, f[Len(ks)], {ds[k] : k \in DOMAIN ds})
  BY <1>3, StepsOverwrite
<1> QED BY <1>2, <1>3, <1>4, <1>5

\* The pairs of a batch, staged or not, are among the pairs of the call.
LEMMA PairsOf ==
  ASSUME NEW h, NEW ds, NEW fs, Len(ds) \in Nat, DOMAIN ds = 1 .. Len(ds)
  PROVE  StagedPairs(h, ds, fs) \in Seq(DOMAIN ds) /\ BatchPairs(h, ds, fs) \in Seq(DOMAIN ds)
<1>1. Len(Numbers(ds)) = Len(ds) /\ DOMAIN Numbers(ds) = 1 .. Len(Numbers(ds))
      /\ \A k \in DOMAIN ds : Numbers(ds)[k] = k
  BY DEF Numbers
<1> DEFINE ctx == [heap |-> h, dst |-> ds]
<1>2. PICK g : Steps("staged", ctx, fs, <<>>, Numbers(ds), g) /\ g[Len(ds)] = StagedPairs(h, ds, fs)
  BY <1>1, StagedSteps
<1>3. PICK f : Steps("batched", ctx, fs, <<>>, Numbers(ds), f) /\ f[Len(ds)] = BatchPairs(h, ds, fs)
  BY <1>1, BatchedSteps
<1> HIDE DEF ctx
<1>4. ASSUME NEW what \in {"staged", "batched"}, NEW e, Steps(what, ctx, fs, <<>>, Numbers(ds), e)
      PROVE  e[Len(ds)] \in Seq(DOMAIN ds)
  <2> DEFINE good == {k \in 0 .. Len(ds) : e[k] \in Seq(DOMAIN ds)}
  <2>1. 0 \in good
    <3>1. e[0] = <<>>
      BY <1>4 DEF Steps
    <3>2. e[0] \in Seq(DOMAIN ds)
      BY <3>1, EmptySeq
    <3> QED BY <3>2
  <2>2. ASSUME NEW k \in 1 .. Len(ds), k - 1 \in good PROVE k \in good
    <3>1. e[k - 1] \in Seq(DOMAIN ds) /\ k \in DOMAIN ds
      BY <2>2
    <3>2. e[k] = FoldStep(what, ctx, fs, e[k - 1], k)
      BY <1>1, <1>4 DEF Steps
    <3>3. e[k] \in {e[k - 1], Append(e[k - 1], k)}
      <4>1. CASE what = "staged"
        BY <3>2, <4>1 DEF FoldStep
      <4>2. CASE what = "batched"
        BY <3>2, <4>2 DEF FoldStep
      <4> QED BY <1>4, <4>1, <4>2
    <3>4. Append(e[k - 1], k) \in Seq(DOMAIN ds)
      BY <3>1, AppendProperties
    <3>5. e[k] \in Seq(DOMAIN ds)
      BY <3>1, <3>3, <3>4, Zenon
    <3>6. k \in 0 .. Len(ds)
      OBVIOUS
    <3> QED BY <3>5, <3>6
  <2> HIDE DEF good
  <2>3. Len(ds) \in good
    <3>1. Len(ds) \in 0 .. Len(ds)
      OBVIOUS
    <3> QED BY <2>1, <2>2, <3>1, StepsHold
  <2> QED BY <2>3 DEF good
<1> QED BY <1>2, <1>3, <1>4

-----------------------------------------------------------------------------
(* assign().                                                               *)

\* Heaps that only grew.
LEMMA ExtendsOn ==
  ASSUME NEW h, Good(h), NEW g, NEW f, Extends(h, g), Extends(g, f)
  PROVE  Extends(h, f) /\ NodeIds(h) \subseteq NodeIds(g) /\ NodeIds(g) \subseteq NodeIds(f)
<1>1. /\ Good(g) /\ Keeps(h, g) /\ h.computed \subseteq g.computed
      /\ Len(h.nodes) <= Len(g.nodes) /\ \A n \in NodeIds(h) : g.nodes[n] = h.nodes[n]
      /\ Good(f) /\ Keeps(g, f) /\ g.computed \subseteq f.computed
      /\ Len(g.nodes) <= Len(f.nodes) /\ \A n \in NodeIds(g) : f.nodes[n] = g.nodes[n]
  BY DEF Extends
<1>2. /\ NodeIds(h) = 1 .. Len(h.nodes) /\ NodeIds(g) = 1 .. Len(g.nodes) /\ NodeIds(f) = 1 .. Len(f.nodes)
      /\ Len(h.nodes) \in Nat /\ Len(g.nodes) \in Nat /\ Len(f.nodes) \in Nat
  BY <1>1, HeapIds DEF Good, Built
<1>3. Len(h.nodes) <= Len(f.nodes) /\ NodeIds(h) \subseteq NodeIds(g) /\ NodeIds(g) \subseteq NodeIds(f)
  BY <1>1, <1>2
<1>4. Keeps(h, f)
  BY <1>1 DEF Keeps
<1>5. h.computed \subseteq f.computed /\ \A n \in NodeIds(h) : f.nodes[n] = h.nodes[n]
  BY <1>1, <1>3
<1> QED BY <1>1, <1>3, <1>4, <1>5 DEF Extends

\* Nothing changed.
LEMMA ExtendsSelf ==
  ASSUME NEW h, Good(h)
  PROVE  Extends(h, h)
<1>1. Len(h.nodes) \in Nat
  BY HeapIds DEF Good, Built
<1> QED BY <1>1 DEF Extends, Keeps

\* A node more, or the computed flag of it.
LEMMA ExtendsGrown ==
  ASSUME NEW h, Good(h), NEW g, NEW x, Grows(h, g, x), Good(g), Keeps(h, g), h.computed \subseteq g.computed
  PROVE  Extends(h, g)
<1>1. Len(h.nodes) \in Nat /\ Len(g.nodes) = Len(h.nodes) + 1
  BY HeapIds DEF Good, Built, Grows
<1>2. Len(h.nodes) <= Len(g.nodes)
  BY <1>1
<1> QED BY <1>2 DEF Extends, Grows

\* contiguous().
LEMMA FlattenedGood ==
  ASSUME NEW h, Good(h), NEW s \in NodeIds(h)
  PROVE  LET f == Flattened(h, s) IN
         Extends(h, f.heap) /\ f.heap.computed = h.computed /\ f.node \in NodeIds(f.heap)
<1> DEFINE f == Flattened(h, s)
           x == Owning("contiguous", <<s>>, h.nodes[s].len, 1)
           g == WithNode(h, x)
<1>1. CASE IsContiguous(h, s)
  <2>1. f.heap = h /\ f.node = s
    BY <1>1 DEF Flattened
  <2> HIDE DEF f
  <2>2. Extends(h, f.heap) /\ f.heap.computed = h.computed /\ f.node \in NodeIds(f.heap)
    BY <2>1, ExtendsSelf
  <2> QED BY <2>2 DEF f
<1>2. CASE ~IsContiguous(h, s)
  <2>1. f.heap = g /\ f.node = Len(h.nodes) + 1
    BY <1>2 DEF Flattened
  <2>2. h.nodes[s].len \in 1 .. MaxLen /\ <<s>> \in Seq(NodeIds(h))
    BY DEF Good, Built, NodeOK
  <2>3. Good(g) /\ Keeps(h, g) /\ g.computed = h.computed /\ Grows(h, g, x)
    BY <2>2, OwningGood
  <2> HIDE DEF f, g, x
  <2>4. Extends(h, g)
    BY <2>3, ExtendsGrown
  <2>5. Len(h.nodes) + 1 \in NodeIds(g)
    <3>1. NodeIds(g) = 1 .. Len(h.nodes) + 1 /\ Len(h.nodes) \in Nat
      BY <2>3, HeapIds DEF Good, Built, Grows
    <3> QED BY <3>1
  <2>6. Extends(h, f.heap) /\ f.heap.computed = h.computed /\ f.node \in NodeIds(f.heap)
    BY <2>1, <2>3, <2>4, <2>5
  <2> QED BY <2>6 DEF f
<1> QED BY <1>1, <1>2

\* The flattened sources of an assign().
LEMMA FlattenAllGood ==
  ASSUME NEW h, Good(h), NEW ss \in Seq(NodeIds(h))
  PROVE  LET f == FlattenAll(h, ss) IN
         /\ Extends(h, f.heap) /\ f.heap.computed = h.computed
         /\ f.nodes \in Seq(NodeIds(f.heap)) /\ Len(f.nodes) = Len(ss)
<1>1. Len(ss) \in Nat /\ DOMAIN ss = 1 .. Len(ss)
  BY LenProperties
<1>2. PICK g : Steps("flatten", <<>>, <<>>, [heap |-> h, nodes |-> <<>>], ss, g)
               /\ g[Len(ss)] = FlattenAll(h, ss)
  BY <1>1, FlattenSteps
<1> DEFINE Inv(a, k) == /\ Extends(h, a.heap) /\ a.heap.computed = h.computed
                        /\ a.nodes \in Seq(NodeIds(a.heap)) /\ Len(a.nodes) = k
           good == {k \in 0 .. Len(ss) : Inv(g[k], k)}
<1>3. 0 \in good
  <2>1. g[0] = [heap |-> h, nodes |-> <<>>]
    BY <1>2 DEF Steps
  <2>2. g[0].heap = h /\ g[0].nodes = <<>>
    BY <2>1
  <2>3. g[0].nodes \in Seq(NodeIds(g[0].heap)) /\ Len(g[0].nodes) = 0
    BY <2>2, EmptySeq
  <2>4. Inv(g[0], 0)
    BY <2>2, <2>3, ExtendsSelf
  <2> HIDE DEF Inv
  <2> QED BY <1>1, <2>4
<1>4. ASSUME NEW k \in 1 .. Len(ss), k - 1 \in good PROVE k \in good
  <2> DEFINE a == g[k - 1]
             f == Flattened(a.heap, ss[k])
  <2>1. Inv(a, k - 1)
    BY <1>4
  <2>2. g[k] = FoldStep("flatten", <<>>, <<>>, a, ss[k])
    BY <1>2 DEF Steps
  <2> HIDE DEF a
  <2>3. g[k] = [heap |-> f.heap, nodes |-> Append(a.nodes, f.node)]
    BY <2>2 DEF FoldStep
  <2>4. g[k].heap = f.heap /\ g[k].nodes = Append(a.nodes, f.node)
    BY <2>3
  <2>5. Good(a.heap) /\ NodeIds(h) \subseteq NodeIds(a.heap)
    <3>1. Extends(a.heap, a.heap)
      BY <2>1, ExtendsSelf DEF Extends
    <3> QED BY <2>1, <3>1, ExtendsOn DEF Extends
  <2>6. ss[k] \in NodeIds(a.heap)
    BY <2>5, ElementOfSeq
  <2>7. Extends(a.heap, f.heap) /\ f.heap.computed = a.heap.computed /\ f.node \in NodeIds(f.heap)
    BY <2>5, <2>6, FlattenedGood
  <2> HIDE DEF f
  <2>8. Extends(h, f.heap) /\ NodeIds(a.heap) \subseteq NodeIds(f.heap)
    BY <2>1, <2>7, ExtendsOn
  <2>9. Append(a.nodes, f.node) \in Seq(NodeIds(f.heap)) /\ Len(Append(a.nodes, f.node)) = k
    <3>1. a.nodes \in Seq(NodeIds(f.heap))
      BY <2>1, <2>8, SeqMonotonic
    <3>2. Append(a.nodes, f.node) \in Seq(NodeIds(f.heap)) /\ Len(Append(a.nodes, f.node)) = Len(a.nodes) + 1
      BY <2>7, <3>1, AppendProperties
    <3>3. Len(a.nodes) = k - 1
      BY <2>1
    <3> HIDE DEF Inv
    <3> QED BY <3>2, <3>3
  <2>10. Inv(g[k], k)
    BY <2>1, <2>4, <2>7, <2>8, <2>9
  <2> HIDE DEF Inv
  <2> QED BY <1>1, <2>10
<1> HIDE DEF good
<1>5. Len(ss) \in good
  <2>1. Len(ss) \in 0 .. Len(ss)
    BY <1>1
  <2> QED BY <1>1, <1>3, <1>4, <2>1, StepsHold
<1>6. Inv(g[Len(ss)], Len(ss))
  BY <1>5 DEF good
<1> QED BY <1>2, <1>6

\* The roots of an assign() are its destinations and its flattened sources.
LEMMA RootsOfAssign ==
  ASSUME NEW S, NEW ds \in Seq(S), NEW fs \in Seq(S), Len(fs) = Len(ds)
  PROVE  /\ AssignRoots(ds, fs) \in Seq(S)
         /\ \A k \in 1 .. Len(ds) : \E i \in 1 .. Len(AssignRoots(ds, fs)) : AssignRoots(ds, fs)[i] = ds[k]
<1> DEFINE q == AssignRoots(ds, fs)
           n == Len(ds)
<1>1. n \in Nat /\ (\A i \in 1 .. n : ds[i] \in S) /\ \A i \in 1 .. n : fs[i] \in S
  BY LenProperties, ElementOfSeq
<1>2. ASSUME NEW i \in 1 .. 2 * n
      PROVE  (i % 2 = 1 => (i + 1) \div 2 \in 1 .. n) /\ (i % 2 # 1 => i \div 2 \in 1 .. n)
  BY <1>1
<1>3. q = [i \in 1 .. 2 * n |-> IF i % 2 = 1 THEN ds[(i + 1) \div 2] ELSE fs[i \div 2]]
  BY DEF AssignRoots
<1>4. \A i \in 1 .. 2 * n : q[i] \in S
  BY <1>1, <1>2, <1>3
<1>5. q \in [1 .. 2 * n -> S] /\ 2 * n \in Nat
  <2> HIDE DEF n
  <2> QED BY <1>1, <1>3, <1>4
<1>6. q \in Seq(S)
  <2> HIDE DEF q, n
  <2> QED BY <1>5, IsASeq
<1>7. Len(q) = 2 * n
  <2> HIDE DEF q, n
  <2>1. DOMAIN q = 1 .. 2 * n /\ DOMAIN q = 1 .. Len(q) /\ Len(q) \in Nat
    BY <1>5, <1>6, LenProperties
  <2> QED BY <1>5, <2>1
<1>8. ASSUME NEW k \in 1 .. n PROVE \E i \in 1 .. 2 * n : q[i] = ds[k]
  <2>1. 2 * k - 1 \in 1 .. 2 * n /\ (2 * k - 1) % 2 = 1 /\ (2 * k - 1 + 1) \div 2 = k
    BY <1>1
  <2>2. q[2 * k - 1] = ds[k]
    BY <1>3, <2>1
  <2> QED BY <2>1, <2>2
<1> QED BY <1>6, <1>7, <1>8

\* A heap whose graph begins with h's.
Begins(h, g) ==
  /\ Good(g) /\ h.computed \subseteq g.computed
  /\ Len(h.nodes) <= Len(g.nodes) /\ \A n \in NodeIds(h) : g.nodes[n] = h.nodes[n]

\* What an assign() leaves when its flattened sources die.
LEMMA OnReturnGood ==
  ASSUME NEW h, Good(h), NEW g, Begins(h, g)
  PROVE  LET o == OnReturn(h, g) IN
         /\ Good(o) /\ (Keeps(h, g) => Keeps(h, o)) /\ NodeIds(o) = NodeIds(h) /\ o.nodes = h.nodes
         /\ o.computed = g.computed \cap NodeIds(h)
         /\ \A n \in NodeIds(h) : o.place[n] = g.place[n]
         /\ \A n \in NodeIds(h) : Bound(g, n) => Read(o, n) = Read(g, n)
<1> DEFINE o == OnReturn(h, g)
           N == Len(h.nodes)
<1>0. /\ Good(g) /\ h.computed \subseteq g.computed
      /\ Len(h.nodes) <= Len(g.nodes) /\ \A n \in NodeIds(h) : g.nodes[n] = h.nodes[n]
  BY DEF Begins
<1>1. /\ IsHeap(g) /\ IsHeap(h) /\ NodeIds(h) = 1 .. N /\ N \in Nat /\ NodeIds(g) = 1 .. Len(g.nodes)
      /\ Len(g.nodes) \in Nat
  BY <1>0, HeapIds DEF Good, Built
<1>2. IsList(g.nodes) /\ IsList(g.place) /\ IsList(g.mem) /\ Len(g.place) = Len(g.nodes)
      /\ Len(g.mem) = Len(g.nodes) /\ IsList(h.nodes)
  BY <1>1 DEF IsHeap
<1>3. N \in 0 .. Len(g.nodes)
  BY <1>0, <1>1
<1>4. /\ o = [f \in {"nodes", "place", "computed", "mem"} |-> o[f]]
      /\ o.nodes = SubSeq(g.nodes, 1, N) /\ o.place = SubSeq(g.place, 1, N)
      /\ o.computed = g.computed \cap NodeIds(h) /\ o.mem = SubSeq(g.mem, 1, N)
  BY DEF OnReturn
<1> HIDE DEF o, N
<1>5. /\ IsList(o.nodes) /\ Len(o.nodes) = N /\ \A i \in 1 .. N : o.nodes[i] = g.nodes[i]
      /\ IsList(o.place) /\ Len(o.place) = N /\ \A i \in 1 .. N : o.place[i] = g.place[i]
      /\ IsList(o.mem) /\ Len(o.mem) = N /\ \A i \in 1 .. N : o.mem[i] = g.mem[i]
  <2>1. N \in 0 .. Len(g.nodes) /\ N \in 0 .. Len(g.place) /\ N \in 0 .. Len(g.mem)
    BY <1>2, <1>3
  <2>2. ASSUME NEW q, IsList(q), N \in 0 .. Len(q), NEW p, p = SubSeq(q, 1, N)
        PROVE  IsList(p) /\ Len(p) = N /\ \A i \in 1 .. N : p[i] = q[i]
    BY <2>2, ListPrefix
  <2>3. IsList(o.nodes) /\ Len(o.nodes) = N /\ \A i \in 1 .. N : o.nodes[i] = g.nodes[i]
    BY <1>2, <1>4, <2>1, <2>2, ZenonT(60)
  <2>4. IsList(o.place) /\ Len(o.place) = N /\ \A i \in 1 .. N : o.place[i] = g.place[i]
    BY <1>2, <1>4, <2>1, <2>2, ZenonT(60)
  <2>5. IsList(o.mem) /\ Len(o.mem) = N /\ \A i \in 1 .. N : o.mem[i] = g.mem[i]
    <3>1. IsList(g.mem) /\ N \in 0 .. Len(g.mem) /\ o.mem = SubSeq(g.mem, 1, N)
      BY <1>2, <1>4, <2>1
    <3> QED BY <2>2, <3>1
  <2> QED BY <2>3, <2>4, <2>5
<1>6. o.nodes = h.nodes
  <2>1. o.nodes = [i \in 1 .. N |-> o.nodes[i]] /\ h.nodes = [i \in 1 .. N |-> h.nodes[i]]
    BY <1>2, <1>5 DEF IsList, N
  <2>2. \A i \in 1 .. N : o.nodes[i] = h.nodes[i]
    BY <1>0, <1>1, <1>5
  <2> QED BY <2>1, <2>2
<1>7. NodeIds(o) = NodeIds(h)
  BY <1>6 DEF NodeIds
<1>8. IsHeap(o)
  <2>1. o.computed \subseteq NodeIds(o)
    BY <1>4, <1>7
  <2> QED BY <1>4, <1>5, <2>1 DEF IsHeap
<1>9. Built(o)
  BY <1>6, <1>8, SameBuilt DEF Good
<1>10. ASSUME NEW n \in NodeIds(h) PROVE PlaceOK(o, n) /\ (Bound(g, n) => g.place[n].at \in NodeIds(h))
  <2>1. n \in NodeIds(g) /\ n \in 1 .. N /\ n \in Nat
    BY <1>1, <1>3
  <2>2. PlaceOK(g, n) /\ NodeOK(h, n)
    BY <1>0, <2>1 DEF Good, Built, Stored
  <2>3. o.place[n] = g.place[n] /\ o.nodes[n] = h.nodes[n] /\ g.nodes[n] = h.nodes[n]
    BY <1>0, <1>5, <1>6, <2>1
  <2>4. Bound(g, n) => g.place[n].at \in NodeIds(h)
    <3>1. g.place[n].at \in 0 .. n
      BY <2>2 DEF PlaceOK
    <3> QED BY <1>1, <2>1, <3>1 DEF Bound
  <2>5. IsView(h, n) => h.nodes[n].root \in NodeIds(h) /\ o.place[h.nodes[n].root] = g.place[h.nodes[n].root]
    <3>1. IsView(h, n) => h.nodes[n].root \in NodeIds(h)
      BY <2>2 DEF NodeOK, ViewOK
    <3> QED BY <1>1, <1>5, <3>1
  <2>6. \A i \in 1 .. Len(Sources(h, n)) : Sources(h, n)[i] \in NodeIds(h)
    <3>1. Sources(h, n) \in Seq(NodeIds(h))
      BY <2>2 DEF NodeOK
    <3> QED BY <3>1, ElementOfSeq
  <2>7. n \in o.computed => /\ Bound(g, n) /\ g.place[n].at \in o.computed
                            /\ \A i \in 1 .. Len(Sources(h, n)) : Sources(h, n)[i] \in o.computed
    <3>1. n \in g.computed => /\ Bound(g, n) /\ g.place[n].at \in g.computed
                              /\ \A i \in 1 .. Len(Sources(h, n)) : Sources(h, n)[i] \in g.computed
      BY <2>2, <2>3 DEF PlaceOK, Sources
    <3> QED BY <1>4, <2>4, <2>6, <3>1
  <2>8. h.nodes[n].kind = "leaf" => n \in o.computed
    BY <1>4, <2>2, <2>3 DEF PlaceOK
  <2>9. PlaceOK(o, n)
    BY <2>2, <2>3, <2>5, <2>7, <2>8 DEF PlaceOK, Bound, IsView, HasKernel, Sources
  <2> QED BY <2>4, <2>9
<1>11. ASSUME NEW n \in NodeIds(h), Bound(g, n) PROVE Read(o, n) = Read(g, n)
  <2>1. g.place[n].at \in NodeIds(h)
    BY <1>10, <1>11
  <2>2. o.nodes[n] = g.nodes[n] /\ o.place[n] = g.place[n] /\ o.mem[g.place[n].at] = g.mem[g.place[n].at]
    BY <1>1, <1>5, <2>1
  <2> QED BY <2>2, SameRead
<1>12. ASSUME Keeps(h, g) PROVE Keeps(h, o)
  <2> SUFFICES ASSUME NEW n \in h.computed PROVE Read(o, n) = Read(h, n)
    BY DEF Keeps
  <2>1. n \in NodeIds(h) /\ n \in g.computed /\ NodeIds(h) \subseteq NodeIds(g)
    <3>1. NodeIds(h) \subseteq NodeIds(g)
      BY <1>1, <1>3
    <3>2. n \in NodeIds(h)
      BY <1>1 DEF IsHeap
    <3> QED BY <1>0, <3>1, <3>2
  <2>2. Bound(g, n)
    BY <1>0, <2>1 DEF Good, Stored, PlaceOK
  <2>3. Read(g, n) = Read(h, n)
    BY <1>12 DEF Keeps
  <2> QED BY <1>11, <2>1, <2>2, <2>3
<1>13. Good(o)
  BY <1>7, <1>9, <1>10 DEF Good, Stored
<1>14. \A n \in NodeIds(h) : o.place[n] = g.place[n]
  BY <1>1, <1>5
<1> QED BY <1>4, <1>6, <1>7, <1>11, <1>12, <1>13, <1>14 DEF o

\* A result is kept, or shares a cell with a destination.
Spared(h, g, ds) ==
  /\ Good(g)
  /\ \A n \in h.computed : \/ Read(g, n) = Read(h, n)
                           \/ \E k \in DOMAIN ds : Cells(g, ds[k]) \cap Cells(g, n) # {}

\* The heap an assign() copies in: sources flattened, everything realized.
Prepared(h, ds, ss) ==
  LET flat == FlattenAll(h, ss) IN Realized(flat.heap, AssignRoots(ds, flat.nodes))

\* Preparing an assign() loses no result and leaves its destinations computed.
LEMMA PreparedGood ==
  ASSUME NEW h, Good(h), NEW ds \in Seq(NodeIds(h)), NEW ss \in Seq(NodeIds(h)), Len(ds) = Len(ss)
  PROVE  LET flat == FlattenAll(h, ss)
             roots == AssignRoots(ds, flat.nodes) IN
         /\ Extends(h, flat.heap) /\ Good(flat.heap) /\ roots \in Seq(NodeIds(flat.heap))
         /\ Extends(h, Prepared(h, ds, ss))
         /\ \A k \in 1 .. Len(ds) : ds[k] \in Prepared(h, ds, ss).computed
<1> DEFINE flat == FlattenAll(h, ss)
           f == flat.heap
           fs == flat.nodes
           roots == AssignRoots(ds, fs)
           r == Realized(f, roots)
<1>1. Extends(h, f) /\ fs \in Seq(NodeIds(f)) /\ Len(fs) = Len(ds)
  BY FlattenAllGood
<1>2. Good(f) /\ NodeIds(h) \subseteq NodeIds(f)
  <2>1. Good(f)
    BY <1>1 DEF Extends
  <2>2. Extends(f, f)
    BY <2>1, ExtendsSelf
  <2> HIDE DEF f
  <2> QED BY <1>1, <2>1, <2>2, ExtendsOn
<1>3. ds \in Seq(NodeIds(f))
  BY <1>2, SeqMonotonic
<1>4. r = Prepared(h, ds, ss)
  BY DEF Prepared
<1>5. /\ roots \in Seq(NodeIds(f))
      /\ \A k \in 1 .. Len(ds) : \E i \in 1 .. Len(roots) : roots[i] = ds[k]
  <2> HIDE DEF f, fs
  <2> QED BY <1>1, <1>3, RootsOfAssign
<1>6. Extends(f, r) /\ \A i \in 1 .. Len(roots) : roots[i] \in r.computed
  <2> HIDE DEF f, roots
  <2> QED BY <1>2, <1>5, RealizedGood
<1>7. \A k \in 1 .. Len(ds) : ds[k] \in r.computed
  <2> HIDE DEF r, roots
  <2> QED BY <1>5, <1>6
<1>8. Extends(h, r)
  <2> HIDE DEF r, f
  <2> QED BY <1>1, <1>6, ExtendsOn
<1> HIDE DEF r
<1> QED BY <1>1, <1>2, <1>4, <1>5, <1>7, <1>8

\* An assign() that copied, in full or in part, spared what it did not write.
LEMMA CopiedSpared ==
  ASSUME NEW h, Good(h), NEW ds \in Seq(NodeIds(h)), NEW r, Extends(h, r),
         \A k \in DOMAIN ds : ds[k] \in r.computed, NEW g, Overwrites(r, g, {ds[k] : k \in DOMAIN ds})
  PROVE  Spared(h, OnReturn(h, g), ds)
<1> DEFINE o == OnReturn(h, g)
           p == OnReturn(h, r)
           D == {ds[k] : k \in DOMAIN ds}
<1>1. Good(r) /\ Keeps(h, r) /\ h.computed \subseteq r.computed /\ Len(h.nodes) <= Len(r.nodes)
      /\ \A n \in NodeIds(h) : r.nodes[n] = h.nodes[n]
  BY DEF Extends
<1>2. g.nodes = r.nodes /\ g.place = r.place /\ g.computed = r.computed
  BY DEF Overwrites
<1>3. /\ Good(g)
      /\ \A n \in r.computed : (\A d \in D : Cells(r, d) \cap Cells(r, n) = {}) => Read(g, n) = Read(r, n)
  BY <1>1, OverwritesGood
<1> SUFFICES Spared(h, o, ds)
  OBVIOUS
<1>4. h.computed \subseteq NodeIds(h) /\ NodeIds(h) \subseteq NodeIds(g) /\ \A k \in DOMAIN ds : ds[k] \in NodeIds(h)
  <2>1. h.computed \subseteq NodeIds(h)
    BY DEF Good, Built, IsHeap
  <2>2. NodeIds(h) = 1 .. Len(h.nodes) /\ NodeIds(g) = 1 .. Len(g.nodes) /\ Len(h.nodes) \in Nat
        /\ Len(g.nodes) \in Nat
    BY <1>3, HeapIds DEF Good, Built
  <2>3. \A k \in DOMAIN ds : ds[k] \in NodeIds(h)
    BY ElementOfSeq, LenProperties
  <2> QED BY <1>1, <1>2, <2>1, <2>2, <2>3
<1>5. Begins(h, g)
  BY <1>1, <1>2, <1>3 DEF Begins
<1>6. /\ Good(o) /\ o.nodes = h.nodes /\ \A n \in NodeIds(h) : o.place[n] = g.place[n]
      /\ \A n \in NodeIds(h) : Bound(g, n) => Read(o, n) = Read(g, n)
  BY <1>5, OnReturnGood
<1> HIDE DEF o
<1>7. \A n \in NodeIds(h) : Cells(o, n) = Cells(r, n)
  BY <1>1, <1>2, <1>6, SMTT(60) DEF Cells, Cell
<1>8. ASSUME NEW n \in h.computed, \A k \in DOMAIN ds : Cells(o, ds[k]) \cap Cells(o, n) = {}
      PROVE  Read(o, n) = Read(h, n)
  <2>1. n \in NodeIds(h) /\ n \in r.computed /\ n \in g.computed /\ n \in NodeIds(g)
    BY <1>1, <1>2, <1>4
  <2>2. \A d \in D : Cells(r, d) \cap Cells(r, n) = {}
    BY <1>4, <1>7, <1>8, <2>1
  <2>3. Read(g, n) = Read(r, n)
    BY <1>3, <2>1, <2>2
  <2>4. Bound(g, n)
    BY <1>3, <2>1 DEF Good, Stored, PlaceOK
  <2>5. Read(r, n) = Read(h, n)
    BY <1>1 DEF Keeps
  <2> QED BY <1>6, <2>1, <2>3, <2>4, <2>5
<1>9. \A n \in h.computed : Read(o, n) = Read(h, n) \/ \E k \in DOMAIN ds : Cells(o, ds[k]) \cap Cells(o, n) # {}
  BY <1>8
<1> QED BY <1>6, <1>9 DEF Spared, o

\* The destinations of an assign() can be written once all is realized.
LEMMA PreparedWritable ==
  ASSUME NEW h, Good(h), NEW ds \in Seq(NodeIds(h)), NEW r, Extends(h, r),
         \A k \in DOMAIN ds : ds[k] \in r.computed /\ IsContiguous(h, ds[k]),
         NEW ks \in Seq(DOMAIN ds)
  PROVE  Writable(r, ds, ks)
<1>1. Len(ks) \in Nat /\ DOMAIN ks = 1 .. Len(ks) /\ \A i \in 1 .. Len(ks) : ks[i] \in DOMAIN ds
  BY LenProperties, ElementOfSeq
<1>2. \A k \in DOMAIN ds : ds[k] \in NodeIds(h)
  BY ElementOfSeq, LenProperties
<1>3. \A k \in DOMAIN ds : IsContiguous(r, ds[k])
  BY <1>2 DEF Extends, IsContiguous
<1> QED BY <1>1, <1>3 DEF Writable

\* The orders of a batch are lists of its pairs.
LEMMA OrdersOf ==
  ASSUME NEW n \in Nat, NEW S, S = 1 .. n, NEW ks \in Seq(S), NEW q \in BatchOrders(ks)
  PROVE  q \in Seq(S)
<1>1. CASE Backend = "cpu"
  <2>1. q = ks
    BY <1>1 DEF BatchOrders
  <2> QED BY <2>1
<1>2. CASE Backend # "cpu"
  <2> DEFINE T == {ks[i] : i \in DOMAIN ks}
             c == Cardinality(T)
  <2>1. T \subseteq S
    BY ElementOfSeq, LenProperties
  <2>2. q \in [1 .. c -> T]
    BY <1>2 DEF BatchOrders, SetToSeqs
  <2> HIDE DEF T
  <2>3. IsFiniteSet(S)
    <3>1. IsFiniteSet(1 .. n)
      BY FS_Interval
    <3> QED BY <3>1
  <2>4. c \in Nat
    BY <2>1, <2>3, FS_Subset, FS_CardinalityType
  <2>5. \A i \in 1 .. c : q[i] \in S
    BY <2>1, <2>2
  <2>6. q = [i \in 1 .. c |-> q[i]]
    BY <2>2
  <2> HIDE DEF c
  <2>7. [i \in 1 .. c |-> q[i]] \in Seq(S)
    BY <2>4, <2>5, IsASeq
  <2> QED BY <2>6, <2>7
<1> QED BY <1>1, <1>2

\* assign(), when it returns.
LEMMA AssignedSpared ==
  ASSUME NEW h, Good(h), NEW ds \in Seq(NodeIds(h)), NEW ss \in Seq(NodeIds(h)), Len(ds) = Len(ss),
         \A k \in DOMAIN ds : IsContiguous(h, ds[k]), NEW o \in Assigned(h, ds, ss)
  PROVE  Spared(h, o, ds)
<1> DEFINE fs == FlattenAll(h, ss).nodes
           r == Prepared(h, ds, ss)
           sp == StagedPairs(r, ds, fs)
           bp == BatchPairs(r, ds, fs)
           g == CopyAll(r, ds, fs, sp)
           D == {ds[k] : k \in DOMAIN ds}
<1>1. PICK ks \in BatchOrders(bp) : o = OnReturn(h, BatchAll(g, ds, fs, ks))
  BY DEF Assigned, Prepared
<1>2. Len(ds) \in Nat /\ DOMAIN ds = 1 .. Len(ds)
  BY LenProperties
<1>3. Extends(h, r) /\ \A k \in DOMAIN ds : ds[k] \in r.computed
  BY <1>2, PreparedGood
<1>4. sp \in Seq(DOMAIN ds) /\ bp \in Seq(DOMAIN ds)
  BY <1>2, PairsOf
<1> HIDE DEF fs, r, bp
<1>5. ks \in Seq(DOMAIN ds)
  BY <1>1, <1>2, <1>4, OrdersOf
<1> HIDE DEF sp
<1>6. Writable(r, ds, sp) /\ Writable(r, ds, ks) /\ Good(r)
  BY <1>3, <1>4, <1>5, PreparedWritable DEF Extends
<1>7. Overwrites(r, g, D)
  BY <1>6, CopiesOverwrite
<1>8. Good(g)
  BY <1>6, <1>7, OverwritesGood
<1> HIDE DEF g
<1>9. Writable(g, ds, ks)
  BY <1>6, <1>7 DEF Overwrites, Writable, IsContiguous
<1>10. Overwrites(g, BatchAll(g, ds, fs, ks), D)
  BY <1>8, <1>9, CopiesOverwrite
<1> DEFINE e == BatchAll(g, ds, fs, ks)
<1> HIDE DEF D, e
<1>11. Overwrites(r, e, D)
  BY <1>7, <1>10, OverwritesOn DEF e
<1> QED BY <1>1, <1>3, <1>11, CopiedSpared DEF D, e

\* assign(), when the device fails under a copy.
LEMMA DeviceFailedSpared ==
  ASSUME NEW h, Good(h), NEW ds \in Seq(NodeIds(h)), NEW ss \in Seq(NodeIds(h)), Len(ds) = Len(ss),
         \A k \in DOMAIN ds : IsContiguous(h, ds[k]), NEW o \in DeviceFailed(h, ds, ss)
  PROVE  Spared(h, o, ds)
<1> DEFINE fs == FlattenAll(h, ss).nodes
           r == Prepared(h, ds, ss)
           sp == StagedPairs(r, ds, fs)
<1>1. PICK ks \in Prefixes(sp) : o = OnReturn(h, CopyAll(r, ds, fs, ks))
  BY DEF DeviceFailed, Prepared
<1>2. Len(ds) \in Nat /\ DOMAIN ds = 1 .. Len(ds)
  BY LenProperties
<1>3. Extends(h, r) /\ \A k \in DOMAIN ds : ds[k] \in r.computed
  BY <1>2, PreparedGood
<1>4. sp \in Seq(DOMAIN ds)
  BY <1>2, PairsOf
<1> HIDE DEF fs, r, sp
<1>5. ks \in Seq(DOMAIN ds)
  BY <1>1, <1>4, PrefixesOf
<1>6. Writable(r, ds, ks) /\ Good(r)
  BY <1>3, <1>5, PreparedWritable DEF Extends
<1>7. Overwrites(r, CopyAll(r, ds, fs, ks), {ds[k] : k \in DOMAIN ds})
  BY <1>6, CopiesOverwrite
<1> QED BY <1>1, <1>3, <1>7, CopiedSpared

\* assign(), when its realize() fails: nothing is copied.
LEMMA RealizeFailedKeeps ==
  ASSUME NEW h, Good(h), NEW ds \in Seq(NodeIds(h)), NEW ss \in Seq(NodeIds(h)), Len(ds) = Len(ss),
         NEW o \in RealizeFailed(h, ds, ss)
  PROVE  Good(o) /\ Keeps(h, o)
<1> DEFINE f == FlattenAll(h, ss).heap
           roots == AssignRoots(ds, FlattenAll(h, ss).nodes)
<1>1. PICK g \in FailedRealizes(f, roots) : o = OnReturn(h, g)
  BY DEF RealizeFailed
<1>2. Extends(h, f) /\ Good(f) /\ roots \in Seq(NodeIds(f))
  BY PreparedGood
<1> HIDE DEF f, roots
<1>3. Extends(f, g)
  BY <1>1, <1>2, FailedGood
<1>4. Extends(h, g)
  BY <1>2, <1>3, ExtendsOn
<1>5. Begins(h, g) /\ Keeps(h, g)
  BY <1>4 DEF Extends, Begins
<1> QED BY <1>1, <1>5, OnReturnGood

-----------------------------------------------------------------------------
(* Every call.                                                             *)

\* make_leaf() fills its own memory.
LEMMA WithLeafGood ==
  ASSUME NEW h, Good(h), NEW len \in 1 .. MaxLen
  PROVE  Good(WithLeaf(h, len)) /\ Keeps(h, WithLeaf(h, len))
<1> DEFINE n == Len(h.nodes) + 1
           x == Owning("leaf", <<>>, len, 1)
           g == WithNode(h, x)
           p == [at |-> n, off |-> 0]
           data == [i \in 1 .. MaxLen |-> IF i <= len THEN <<10 * n + i>> ELSE <<>>]
           w == [g EXCEPT !.place[n] = p, !.computed = @ \cup {n}, !.mem[n] = data]
<1>0. IsHeap(h) /\ Built(h) /\ len \in Nat /\ MaxLen \in Nat
  BY GraphBoundsAssumption DEF Good, Built
<1>1. WithLeaf(h, len) = w
  BY DEF WithLeaf
<1>2. Grows(h, g, x) /\ g.computed = h.computed
  BY <1>0, WithNodeGrows
<1>3. IsHeap(g) /\ NodeIds(g) = 1 .. Len(h.nodes) + 1 /\ Len(h.nodes) \in Nat /\ NodeIds(h) = 1 .. Len(h.nodes)
      /\ Len(g.nodes) = Len(h.nodes) + 1
  BY <1>0, <1>2, HeapIds DEF Grows
<1>4. g = [f \in {"nodes", "place", "computed", "mem"} |-> g[f]]
  BY <1>3 DEF IsHeap
<1> HIDE DEF g, data, p
<1>5. /\ w = [f \in {"nodes", "place", "computed", "mem"} |-> w[f]]
      /\ w.nodes = g.nodes /\ w.computed = g.computed \cup {n}
      /\ w.place = Replaced(g.place, n, p) /\ w.mem = Replaced(g.mem, n, data)
  <2>1. w = [f \in {"nodes", "place", "computed", "mem"} |->
               IF f = "place" THEN Replaced(g.place, n, p)
               ELSE IF f = "computed" THEN g.computed \cup {n}
               ELSE IF f = "mem" THEN Replaced(g.mem, n, data) ELSE g[f]]
    BY <1>4 DEF Replaced
  <2> HIDE DEF w
  <2> QED BY <2>1
<1> HIDE DEF w, n
<1>6. /\ IsList(g.place) /\ Len(g.place) = Len(g.nodes) /\ n \in 1 .. Len(g.place)
      /\ IsList(g.mem) /\ Len(g.mem) = Len(g.nodes) /\ n \in 1 .. Len(g.mem)
  BY <1>3 DEF IsHeap, n
<1>7. /\ IsList(w.place) /\ Len(w.place) = Len(g.nodes) /\ w.place[n] = p
      /\ \A i \in 1 .. Len(g.nodes) : i # n => w.place[i] = g.place[i]
  <2>1. /\ IsList(Replaced(g.place, n, p)) /\ Len(Replaced(g.place, n, p)) = Len(g.place)
        /\ Replaced(g.place, n, p)[n] = p
        /\ \A i \in 1 .. Len(g.place) : i # n => Replaced(g.place, n, p)[i] = g.place[i]
    <3>1. IsList(g.place) /\ n \in 1 .. Len(g.place)
      BY <1>6
    <3> QED BY <3>1, ListExcept, SMTT(60)
  <2>2. w.place = Replaced(g.place, n, p) /\ Len(g.place) = Len(g.nodes)
    BY <1>5, <1>6
  <2> QED BY <2>1, <2>2, ZenonT(30)
<1>8. /\ IsList(w.mem) /\ Len(w.mem) = Len(g.nodes)
      /\ \A i \in 1 .. Len(g.nodes) : i # n => w.mem[i] = g.mem[i]
  <2>1. /\ IsList(Replaced(g.mem, n, data)) /\ Len(Replaced(g.mem, n, data)) = Len(g.mem)
        /\ \A i \in 1 .. Len(g.mem) : i # n => Replaced(g.mem, n, data)[i] = g.mem[i]
    <3>1. IsList(g.mem) /\ n \in 1 .. Len(g.mem)
      BY <1>6
    <3> QED BY <3>1, ListExcept, SMTT(60)
  <2>2. w.mem = Replaced(g.mem, n, data) /\ Len(g.mem) = Len(g.nodes)
    BY <1>5, <1>6
  <2> QED BY <2>1, <2>2, ZenonT(30)
<1>9. IsHeap(w)
  <2>1. w.computed \subseteq NodeIds(w)
    <3>1. NodeIds(w) = NodeIds(g) /\ g.computed \subseteq NodeIds(g) /\ n \in NodeIds(g)
      BY <1>3, <1>5 DEF IsHeap, NodeIds, n
    <3> QED BY <1>5, <3>1
  <2> QED BY <1>3, <1>5, <1>7, <1>8, <2>1 DEF IsHeap
<1>10. Grows(h, w, x)
  <2>1. \A m \in NodeIds(h) : m # n /\ m \in 1 .. Len(g.nodes)
    BY <1>3 DEF n
  <2> QED BY <1>2, <1>5, <1>7, <1>8, <1>9, <2>1 DEF Grows
<1>11. w.computed = h.computed \cup {Len(h.nodes) + 1} /\ w.place[Len(h.nodes) + 1] = p
  BY <1>2, <1>5, <1>7 DEF n
<1>12. p = [at |-> p.at, off |-> p.off] /\ p.off \in Nat /\ p.at = Len(h.nodes) + 1
       /\ p.off + (len - 1) * 1 < MaxLen
  BY <1>0 DEF p, n
<1> QED BY <1>1, <1>10, <1>11, <1>12, LeafGood DEF x

\* detach() shares the memory of a node that is computed.
LEMMA SharingGood ==
  ASSUME NEW h, Good(h), NEW n \in h.computed
  PROVE  LET m == Len(h.nodes) + 1
             g == WithNode(h, Owning("leaf", <<>>, h.nodes[n].len, h.nodes[n].step))
             w == [g EXCEPT !.place[m] = h.place[n], !.computed = @ \cup {m}] IN
         Good(w) /\ Keeps(h, w)
<1> DEFINE m == Len(h.nodes) + 1
           x == Owning("leaf", <<>>, h.nodes[n].len, h.nodes[n].step)
           g == WithNode(h, x)
           p == h.place[n]
           w == [g EXCEPT !.place[m] = p, !.computed = @ \cup {m}]
<1>0. IsHeap(h) /\ Built(h) /\ Stored(h) /\ MaxLen \in Nat /\ n \in NodeIds(h)
  BY GraphBoundsAssumption DEF Good, Built, IsHeap
<1>1. h.nodes[n].len \in 1 .. MaxLen /\ h.nodes[n].step \in Nat
  BY <1>0 DEF Built, NodeOK
<1>2. Grows(h, g, x) /\ g.computed = h.computed
  BY <1>0, WithNodeGrows
<1>3. IsHeap(g) /\ NodeIds(g) = 1 .. Len(h.nodes) + 1 /\ Len(h.nodes) \in Nat /\ NodeIds(h) = 1 .. Len(h.nodes)
      /\ Len(g.nodes) = Len(h.nodes) + 1
  BY <1>0, <1>2, HeapIds DEF Grows
<1>4. g = [f \in {"nodes", "place", "computed", "mem"} |-> g[f]]
  BY <1>3 DEF IsHeap
<1>5. /\ p = [at |-> p.at, off |-> p.off] /\ p.off \in Nat /\ p.at \in h.computed
      /\ p.off + (h.nodes[n].len - 1) * h.nodes[n].step < MaxLen
  <2>1. PlaceOK(h, n)
    BY <1>0 DEF Stored
  <2>2. p = [at |-> p.at, off |-> p.off] /\ p.off \in Nat /\ p.at \in h.computed /\ Bound(h, n)
    BY <2>1 DEF PlaceOK
  <2>3. h.nodes[n].len \in 1 .. h.nodes[n].len
    BY <1>0, <1>1
  <2> DEFINE e == (h.nodes[n].len - 1) * h.nodes[n].step
  <2>4. Cell(h, n, h.nodes[n].len) \in 1 .. MaxLen
    BY <1>0, <2>2, <2>3, CellBounds
  <2>5. Cell(h, n, h.nodes[n].len) = p.off + 1 + e
    BY DEF Cell
  <2>6. e \in Nat
    BY <1>0, <1>1, <2>3, Spread
  <2> HIDE DEF e, p
  <2> QED BY <1>0, <2>2, <2>4, <2>5, <2>6 DEF e
<1> HIDE DEF g, p
<1>6. /\ w = [f \in {"nodes", "place", "computed", "mem"} |-> w[f]]
      /\ w.nodes = g.nodes /\ w.computed = g.computed \cup {m}
      /\ w.place = Replaced(g.place, m, p) /\ w.mem = g.mem
  <2>1. w = [f \in {"nodes", "place", "computed", "mem"} |->
               IF f = "place" THEN Replaced(g.place, m, p)
               ELSE IF f = "computed" THEN g.computed \cup {m} ELSE g[f]]
    BY <1>4 DEF Replaced
  <2> HIDE DEF w
  <2> QED BY <2>1
<1> HIDE DEF w, m
<1>7. IsList(g.place) /\ Len(g.place) = Len(g.nodes) /\ m \in 1 .. Len(g.place)
  BY <1>3 DEF IsHeap, m
<1>8. /\ IsList(w.place) /\ Len(w.place) = Len(g.nodes) /\ w.place[m] = p
      /\ \A i \in 1 .. Len(g.nodes) : i # m => w.place[i] = g.place[i]
  <2>1. /\ IsList(Replaced(g.place, m, p)) /\ Len(Replaced(g.place, m, p)) = Len(g.place)
        /\ Replaced(g.place, m, p)[m] = p
        /\ \A i \in 1 .. Len(g.place) : i # m => Replaced(g.place, m, p)[i] = g.place[i]
    <3>1. IsList(g.place) /\ m \in 1 .. Len(g.place)
      BY <1>7
    <3> QED BY <3>1, ListExcept, SMTT(60)
  <2>2. w.place = Replaced(g.place, m, p) /\ Len(g.place) = Len(g.nodes)
    BY <1>6, <1>7
  <2> QED BY <2>1, <2>2, ZenonT(30)
<1>9. IsHeap(w)
  <2>1. w.computed \subseteq NodeIds(w)
    <3>1. NodeIds(w) = NodeIds(g) /\ g.computed \subseteq NodeIds(g) /\ m \in NodeIds(g)
      BY <1>3, <1>6 DEF IsHeap, NodeIds, m
    <3> QED BY <1>6, <3>1
  <2> QED BY <1>3, <1>6, <1>8, <2>1 DEF IsHeap
<1>10. Grows(h, w, x)
  <2>1. \A i \in NodeIds(h) : i # m /\ i \in 1 .. Len(g.nodes)
    BY <1>3 DEF m
  <2> QED BY <1>2, <1>6, <1>8, <1>9, <2>1 DEF Grows
<1>11. w.computed = h.computed \cup {Len(h.nodes) + 1} /\ w.place[Len(h.nodes) + 1] = p
  BY <1>2, <1>6, <1>8 DEF m
<1>12. Good(w) /\ Keeps(h, w)
  BY <1>1, <1>5, <1>10, <1>11, LeafGood DEF x
<1> QED BY <1>12 DEF w, g, m, x, p

\* What every call leaves.
KeptOrWritten ==
  \A n \in heap.computed :
    \/ Read(heap', n) = Read(heap, n)
    \/ /\ last'.call \in {"assigned", "deviceFailed"}
       /\ \E k \in DOMAIN last'.ds : Cells(heap', last'.ds[k]) \cap Cells(heap', n) # {}

\* A call's lists of nodes.
LEMMA ListsAre ==
  ASSUME NEW S, NEW n \in Nat, NEW q \in Lists(S, n)
  PROVE  q \in Seq(S) /\ Len(q) \in 1 .. n /\ q[1] \in S
<1>1. PICK k \in 1 .. n : q \in [1 .. k -> S]
  BY DEF Lists
<1>2. q = [i \in 1 .. k |-> q[i]] /\ \A i \in 1 .. k : q[i] \in S
  BY <1>1
<1>3. [i \in 1 .. k |-> q[i]] \in Seq(S)
  BY <1>2, IsASeq
<1>4. q \in Seq(S)
  BY <1>2, <1>3
<1>5. DOMAIN q = 1 .. k /\ DOMAIN q = 1 .. Len(q) /\ Len(q) \in Nat
  BY <1>2, <1>4, LenProperties
<1>6. Len(q) = k /\ 1 \in 1 .. k
  BY <1>5
<1> QED BY <1>2, <1>4, <1>6

\* A call that only builds or evaluates.
LEMMA BuildKeeps ==
  ASSUME NEW h, Good(h), Keeps(heap, h), Build(h)
  PROVE  LazyInv' /\ KeptOrWritten
BY DEF Build, Good, LazyInv, KeptOrWritten, Keeps

\* The pairs of a call are lists of nodes of one length.
LEMMA PairsAreLists ==
  ASSUME NEW S, NEW k \in 1 .. MaxBatch, NEW ds \in [1 .. k -> S], NEW ss \in [1 .. k -> S]
  PROVE  ds \in Seq(S) /\ ss \in Seq(S) /\ Len(ds) = Len(ss)
<1>1. k \in Nat /\ ds = [i \in 1 .. k |-> ds[i]] /\ ss = [i \in 1 .. k |-> ss[i]]
      /\ \A i \in 1 .. k : ds[i] \in S /\ ss[i] \in S
  BY GraphBoundsAssumption
<1>2. [i \in 1 .. k |-> ds[i]] \in Seq(S) /\ [i \in 1 .. k |-> ss[i]] \in Seq(S)
  BY <1>1, IsASeq
<1>3. ds \in Seq(S) /\ ss \in Seq(S)
  BY <1>1, <1>2
<1>4. DOMAIN ds = 1 .. Len(ds) /\ DOMAIN ss = 1 .. Len(ss) /\ Len(ds) \in Nat /\ Len(ss) \in Nat
      /\ DOMAIN ds = 1 .. k /\ DOMAIN ss = 1 .. k
  BY <1>3, LenProperties
<1>5. Len(ds) = k /\ Len(ss) = k
  BY <1>1, <1>4
<1> QED BY <1>3, <1>5

\* An assign(), however it ends.
LEMMA AssignStep ==
  ASSUME LazyInv, NEW k \in 1 .. MaxBatch, NEW ds \in [1 .. k -> NodeIds(heap)],
         NEW ss \in [1 .. k -> NodeIds(heap)],
         Assign(ds, ss) \/ AssignRejected(ds, ss) \/ AssignFails(ds, ss)
  PROVE  LazyInv' /\ KeptOrWritten
<1>0. Good(heap)
  BY DEF LazyInv, Good
<1>1. ds \in Seq(NodeIds(heap)) /\ ss \in Seq(NodeIds(heap)) /\ Len(ds) = Len(ss)
  BY PairsAreLists
<1>2. ASSUME NEW h, NEW outcome \in {"assigned", "deviceFailed"}, Finish(h, ds, ss, outcome), Spared(heap, h, ds)
      PROVE  LazyInv' /\ KeptOrWritten
  <2>1. heap' = h /\ last'.call = outcome /\ last'.ds = ds
    BY <1>2 DEF Finish
  <2> QED BY <1>2, <2>1 DEF Spared, LazyInv, Good, KeptOrWritten
<1>3. ASSUME NEW h, NEW outcome, Finish(h, ds, ss, outcome), Good(h), Keeps(heap, h)
      PROVE  LazyInv' /\ KeptOrWritten
  <2>1. heap' = h
    BY <1>3 DEF Finish
  <2> QED BY <1>3, <2>1 DEF LazyInv, Good, KeptOrWritten, Keeps
<1>4. AllValid(ds, ss) => \A j \in DOMAIN ds : IsContiguous(heap, ds[j])
  BY DEF AllValid, Valid
<1>5. CASE Assign(ds, ss)
  BY <1>0, <1>1, <1>2, <1>4, <1>5, AssignedSpared DEF Assign
<1>6. CASE AssignRejected(ds, ss)
  <2>1. Keeps(heap, heap)
    BY DEF Keeps
  <2>2. Finish(heap, ds, ss, "rejected")
    BY <1>6 DEF AssignRejected, Rejected
  <2> QED BY <1>0, <1>3, <2>1, <2>2
<1>7. CASE AssignFails(ds, ss)
  <2>1. CASE \E h \in RealizeFailed(heap, ds, ss) : Finish(h, ds, ss, "realizeFailed")
    <3>1. PICK h \in RealizeFailed(heap, ds, ss) : Finish(h, ds, ss, "realizeFailed")
      BY <2>1
    <3>2. Good(h) /\ Keeps(heap, h)
      BY <1>0, <1>1, <3>1, RealizeFailedKeeps
    <3> QED BY <1>3, <3>1, <3>2
  <2>2. CASE \E h \in DeviceFailed(heap, ds, ss) : Finish(h, ds, ss, "deviceFailed")
    <3>1. PICK h \in DeviceFailed(heap, ds, ss) : Finish(h, ds, ss, "deviceFailed")
      BY <2>2
    <3>2. \A j \in DOMAIN ds : IsContiguous(heap, ds[j])
      BY <1>4, <1>7 DEF AssignFails
    <3>3. Spared(heap, h, ds)
      BY <1>0, <1>1, <3>1, <3>2, DeviceFailedSpared
    <3> QED BY <1>2, <3>1, <3>3
  <2> QED BY <1>7, <2>1, <2>2 DEF AssignFails
<1> QED BY <1>5, <1>6, <1>7

\* Before the first call there is nothing.
LEMMA LazyInvInit == LazyInit => LazyInv
<1> SUFFICES ASSUME LazyInit PROVE LazyInv
  OBVIOUS
<1>1. heap.nodes = <<>> /\ heap.place = <<>> /\ heap.computed = {} /\ heap.mem = <<>>
      /\ heap = [f \in {"nodes", "place", "computed", "mem"} |-> heap[f]]
  BY DEF LazyInit
<1>2. IsList(<<>>) /\ Len(<<>>) = 0 /\ DOMAIN <<>> = {}
  BY DEF IsList
<1>3. IsHeap(heap) /\ NodeIds(heap) = {}
  BY <1>1, <1>2 DEF IsHeap, NodeIds
<1> QED BY <1>3 DEF LazyInv, Built, Stored

\* Every step keeps the invariant and every result that it does not write.
LEMMA LazyStep ==
  ASSUME LazyInv, LazyNext
  PROVE  LazyInv' /\ KeptOrWritten
<1>0. Good(heap) /\ MaxLen \in Nat
  BY GraphBoundsAssumption DEF LazyInv, Good
<1>1. CASE NewLeaf
  <2>1. PICK len \in 1 .. MaxLen : Build(WithLeaf(heap, len))
    BY <1>1 DEF NewLeaf
  <2> QED BY <1>0, <2>1, WithLeafGood, BuildKeeps
<1>2. CASE \E srcs \in Lists(NodeIds(heap), 2) : NewOp(srcs)
  <2>1. PICK srcs \in Lists(NodeIds(heap), 2) : NewOp(srcs)
    BY <1>2
  <2>2. srcs \in Seq(NodeIds(heap)) /\ srcs[1] \in NodeIds(heap)
    BY <2>1, ListsAre
  <2>3. heap.nodes[srcs[1]].len \in 1 .. MaxLen
    BY <1>0, <2>2 DEF Good, Built, NodeOK
  <2> DEFINE g == WithNode(heap, Owning("op", srcs, heap.nodes[srcs[1]].len, 1))
  <2>4. Good(g) /\ Keeps(heap, g)
    BY <1>0, <2>2, <2>3, OwningGood
  <2>5. Build(g)
    BY <2>1 DEF NewOp
  <2> HIDE DEF g
  <2> QED BY <2>4, <2>5, BuildKeeps
<1>3. CASE \E b \in NodeIds(heap) : NewSlice(b)
  <2>1. PICK b \in NodeIds(heap) : NewSlice(b)
    BY <1>3
  <2>2. PICK start \in 0 .. MaxLen - 1, stride \in 1 .. 2, len \in 1 .. MaxLen :
          /\ start + (len - 1) * stride < heap.nodes[b].len
          /\ Build(WithNode(heap, View(heap, b, start, stride, len)))
    BY <2>1 DEF NewSlice
  <2> DEFINE g == WithNode(heap, View(heap, b, start, stride, len))
  <2>3. start \in Nat /\ stride \in Nat
    BY <1>0
  <2>4. Good(g) /\ Keeps(heap, g)
    BY <1>0, <2>2, <2>3, ViewGood
  <2> HIDE DEF g
  <2> QED BY <2>2, <2>4, BuildKeeps DEF g
<1>4. CASE \E b \in NodeIds(heap) : NewBroadcast(b)
  <2>1. PICK b \in NodeIds(heap) : NewBroadcast(b)
    BY <1>4
  <2>2. PICK len \in 2 .. MaxLen : Build(WithNode(heap, View(heap, b, 0, 0, len)))
    BY <2>1 DEF NewBroadcast
  <2> DEFINE g == WithNode(heap, View(heap, b, 0, 0, len))
  <2>3. len \in 1 .. MaxLen /\ 0 + (len - 1) * 0 < heap.nodes[b].len
    BY <1>0, <2>1 DEF NewBroadcast
  <2>4. Good(g) /\ Keeps(heap, g)
    BY <1>0, <2>3, ViewGood
  <2> HIDE DEF g
  <2> QED BY <2>2, <2>4, BuildKeeps DEF g
<1>5. CASE \E b \in NodeIds(heap) : NewContiguous(b)
  <2>1. PICK b \in NodeIds(heap) : NewContiguous(b)
    BY <1>5
  <2> DEFINE g == Flattened(heap, b).heap
  <2>2. Extends(heap, g)
    BY <1>0, FlattenedGood
  <2>3. Build(g)
    BY <2>1 DEF NewContiguous
  <2> HIDE DEF g
  <2> QED BY <2>2, <2>3, BuildKeeps DEF Extends
<1>6. CASE \E roots \in Lists(NodeIds(heap), 2) : Realize(roots)
  <2>1. PICK roots \in Lists(NodeIds(heap), 2) : Build(Realized(heap, roots))
    BY <1>6 DEF Realize
  <2>2. roots \in Seq(NodeIds(heap))
    BY <2>1, ListsAre
  <2>3. Extends(heap, Realized(heap, roots))
    BY <1>0, <2>2, RealizedGood
  <2> QED BY <2>1, <2>3, BuildKeeps DEF Extends
<1>7. CASE \E roots \in Lists(NodeIds(heap), 2) : RealizeFails(roots)
  <2>1. PICK roots \in Lists(NodeIds(heap), 2) : RealizeFails(roots)
    BY <1>7
  <2>2. PICK h \in FailedRealizes(heap, roots) : Build(h)
    BY <2>1 DEF RealizeFails
  <2>3. roots \in Seq(NodeIds(heap))
    BY <2>1, ListsAre
  <2>4. Extends(heap, h)
    BY <1>0, <2>2, <2>3, FailedGood
  <2> QED BY <2>2, <2>4, BuildKeeps DEF Extends
<1>8. CASE \E n \in NodeIds(heap) : Detach(n)
  <2>1. PICK n \in NodeIds(heap) : Detach(n)
    BY <1>8
  <2> DEFINE h == Realized(heap, <<n>>)
             m == Len(h.nodes) + 1
             g == WithNode(h, Owning("leaf", <<>>, h.nodes[n].len, h.nodes[n].step))
             w == [g EXCEPT !.place[m] = h.place[n], !.computed = @ \cup {m}]
  <2>2. Build(w)
    BY <2>1 DEF Detach
  <2>3. Extends(heap, h) /\ n \in h.computed
    <3> DEFINE roots == <<n>>
    <3>1. roots \in Seq(NodeIds(heap)) /\ roots[1] = n /\ 1 \in 1 .. Len(roots)
      OBVIOUS
    <3>2. h = Realized(heap, roots)
      OBVIOUS
    <3> HIDE DEF roots, h
    <3> QED BY <1>0, <3>1, <3>2, RealizedGood
  <2> HIDE DEF h
  <2>4. Good(w) /\ Keeps(h, w)
    BY <2>3, SharingGood DEF Extends
  <2> HIDE DEF w
  <2>5. Keeps(heap, w)
    BY <2>3, <2>4 DEF Extends, Keeps
  <2> QED BY <2>2, <2>4, <2>5, BuildKeeps
<1>9. CASE \E k \in 1 .. MaxBatch : \E ds, ss \in [1 .. k -> NodeIds(heap)] :
             Assign(ds, ss) \/ AssignRejected(ds, ss) \/ AssignFails(ds, ss)
  BY <1>9, AssignStep
<1> QED BY <1>1, <1>2, <1>3, <1>4, <1>5, <1>6, <1>7, <1>8, <1>9 DEF LazyNext

\* Every heap the calls can leave is well formed: views show what their roots
\* own, and what is computed is in memory of what is computed.
THEOREM HeapsAreSound == LazySpec => []LazyInv
<1>1. LazyInv /\ [LazyNext]_lvars => LazyInv'
  <2> SUFFICES ASSUME LazyInv, [LazyNext]_lvars PROVE LazyInv'
    OBVIOUS
  <2>1. CASE LazyNext
    BY <2>1, LazyStep
  <2>2. CASE UNCHANGED lvars
    BY <2>2 DEF lvars, LazyInv
  <2> QED BY <2>1, <2>2
<1> QED BY <1>1, LazyInvInit, PTL DEF LazySpec

\* No call recomputes or moves a result; only an assign() that got to its copies
\* changes one, and only what shares a cell with a destination (tensor.cpp,
\* executor.cpp), for graphs, views and batches of any size and either backend.
THEOREM ResultsAreKept == LazySpec => ResultsKept
<1>1. LazyInv /\ [LazyNext]_lvars => [KeptOrWritten]_lvars
  <2> SUFFICES ASSUME LazyInv, LazyNext PROVE KeptOrWritten
    OBVIOUS
  <2> QED BY LazyStep
<1>2. LazySpec => [][KeptOrWritten]_lvars
  BY <1>1, HeapsAreSound, PTL DEF LazySpec
<1> QED BY <1>2 DEF ResultsKept, KeptOrWritten

-----------------------------------------------------------------------------
(* What kernels and views read.                                            *)

\* A view reads the elements of its base that it picks.
LEMMA ViewReads ==
  ASSUME NEW h, Good(h), NEW n \in NodeIds(h), IsView(h, n), Bound(h, n), Bound(h, Sources(h, n)[1])
  PROVE  Read(h, n) = [i \in 1 .. h.nodes[n].len |->
           Read(h, Sources(h, n)[1])[h.nodes[n].pick[1] + 1 + (i - 1) * h.nodes[n].pick[2]]]
<1> DEFINE b == Sources(h, n)[1]
           r == h.nodes[n].root
           from == h.nodes[n].pick[1]
           by == h.nodes[n].pick[2]
           At(i) == from + 1 + (i - 1) * by
<1>1. PlaceOK(h, n) /\ NodeOK(h, n)
  BY DEF Good, Built, Stored
<1>2. Sources(h, n) \in Seq(NodeIds(h)) /\ ViewOK(h, n) /\ Len(Sources(h, n)) = 1
  BY <1>1 DEF NodeOK, ViewOK, Sources
<1>3. b \in NodeIds(h)
  BY <1>2
<1>4. PlaceOK(h, b) /\ NodeOK(h, b)
  BY <1>3 DEF Good, Built, Stored
<1>5. /\ from \in Nat /\ by \in Nat /\ from + (h.nodes[n].len - 1) * by < h.nodes[b].len
      /\ h.nodes[n].off = h.nodes[b].off + from * h.nodes[b].step
      /\ h.nodes[n].step = by * h.nodes[b].step
      /\ r = IF h.nodes[b].kind = "view" THEN h.nodes[b].root ELSE b
  BY <1>2 DEF ViewOK, Sources
<1>6. /\ h.nodes[b].off \in Nat /\ h.nodes[b].step \in Nat /\ h.nodes[b].len \in Nat /\ h.nodes[n].len \in Nat
      /\ h.place[b].off \in Nat
  <2>1. MaxLen \in Nat
    BY GraphBoundsAssumption
  <2>2. h.nodes[b].off \in Nat /\ h.nodes[b].step \in Nat /\ h.nodes[b].len \in 1 .. MaxLen
        /\ h.nodes[n].len \in 1 .. MaxLen
    BY <1>1, <1>4 DEF NodeOK
  <2>3. h.place[b].off \in Nat
    BY <1>4 DEF PlaceOK
  <2> QED BY <2>1, <2>2, <2>3
<1>7. h.place[n].at = h.place[r].at /\ h.place[n].off = h.place[r].off + h.nodes[n].off
  BY <1>1 DEF PlaceOK
<1>8. h.place[b].at = h.place[r].at /\ h.place[b].off = h.place[r].off + h.nodes[b].off /\ h.place[r].off \in Nat
  <2>1. CASE IsView(h, b)
    <3>1. r = h.nodes[b].root
      BY <1>5, <2>1 DEF IsView
    <3>2. r \in NodeIds(h)
      BY <1>4, <2>1, <3>1 DEF NodeOK, ViewOK
    <3>3. h.place[r].off \in Nat
      BY <3>2 DEF Good, Stored, PlaceOK
    <3> QED BY <1>4, <2>1, <3>1, <3>3 DEF PlaceOK
  <2>2. CASE ~IsView(h, b)
    <3>1. r = b /\ h.nodes[b].off = 0
      BY <1>4, <1>5, <2>2 DEF NodeOK, IsView
    <3> QED BY <1>6, <3>1
  <2> QED BY <2>1, <2>2
<1> HIDE DEF b, r, from, by
<1>9. ASSUME NEW i \in 1 .. h.nodes[n].len
      PROVE  At(i) \in 1 .. h.nodes[b].len /\ Cell(h, n, i) = Cell(h, b, At(i))
  <2> DEFINE d == (i - 1) * by
  <2>1. i - 1 \in Nat /\ i - 1 <= h.nodes[n].len - 1 /\ h.nodes[n].len - 1 \in Nat
    BY <1>6
  <2>2. d \in Nat /\ d <= (h.nodes[n].len - 1) * by /\ (h.nodes[n].len - 1) * by \in Nat
    <3>1. \A x, y, z \in Nat : x <= y => x * z \in Nat /\ y * z \in Nat /\ x * z <= y * z
      <4> TAKE x, y, z \in Nat
      <4> HAVE x <= y
      <4> DEFINE e == y - x
      <4>1. e \in Nat /\ y = x + e
        OBVIOUS
      <4> HIDE DEF e
      <4>2. (x + e) * z = x * z + e * z /\ x * z \in Nat /\ e * z \in Nat
        BY <4>1
      <4> QED BY <4>1, <4>2
    <3> QED BY <1>5, <2>1, <3>1
  <2>3. (i - 1) * (by * h.nodes[b].step) = d * h.nodes[b].step
    BY <1>5, <1>6, <2>1
  <2>4. (from + d) * h.nodes[b].step = from * h.nodes[b].step + d * h.nodes[b].step
        /\ from * h.nodes[b].step \in Nat /\ d * h.nodes[b].step \in Nat
    BY <1>5, <1>6, <2>2
  <2>5. Cell(h, n, i) = h.place[n].off + 1 + d * h.nodes[b].step
    BY <1>5, <2>3 DEF Cell
  <2>6. Cell(h, b, At(i)) = h.place[b].off + 1 + (At(i) - 1) * h.nodes[b].step
    BY DEF Cell
  <2>7. At(i) = from + 1 + d
    OBVIOUS
  <2> HIDE DEF d, At
  <2>8. At(i) - 1 = from + d
    BY <1>5, <2>2, <2>7
  <2>9. Cell(h, n, i) = Cell(h, b, At(i))
    <3> DEFINE p == from * h.nodes[b].step
               q == d * h.nodes[b].step
    <3>1. p \in Nat /\ q \in Nat /\ (from + d) * h.nodes[b].step = p + q
      BY <2>4
    <3>2. h.nodes[n].off = h.nodes[b].off + p
      BY <1>5
    <3>3. Cell(h, n, i) = h.place[n].off + 1 + q
      BY <2>5
    <3> HIDE DEF p, q
    <3>4. Cell(h, b, At(i)) = h.place[b].off + 1 + (p + q)
      BY <2>6, <2>8, <3>1
    <3> QED BY <1>6, <1>7, <1>8, <3>1, <3>2, <3>3, <3>4
  <2> QED BY <1>5, <1>6, <2>2, <2>7, <2>9
<1>10. Read(h, n) = [i \in 1 .. h.nodes[n].len |-> Read(h, b)[At(i)]]
  <2>1. \A i \in 1 .. h.nodes[n].len : Read(h, b)[At(i)] = h.mem[h.place[n].at][Cell(h, n, i)]
    BY <1>7, <1>8, <1>9 DEF Read
  <2> HIDE DEF At
  <2> QED BY <2>1 DEF Read
<1> QED BY <1>10 DEF b, from, by

\* A kernel leaves in its node what it makes of its sources.
LEMMA KernelReads ==
  ASSUME NEW h, Good(h), NEW n \in NodeIds(h), HasKernel(h, n), Bound(h, n)
  PROVE  Read(Computed(h, n), n)
           = Combine(h, n, [k \in DOMAIN Sources(h, n) |-> Read(h, Sources(h, n)[k])])
<1> DEFINE v == Combine(h, n, [k \in DOMAIN Sources(h, n) |-> Read(h, Sources(h, n)[k])])
           x == [i \in 1 .. MaxLen |-> IF i \in DOMAIN v THEN v[i] ELSE h.mem[n][i]]
           g == [h EXCEPT !.mem[n] = x]
<1>1. Computed(h, n) = g
  BY DEF Computed
<1>2. IsHeap(h) /\ PlaceOK(h, n) /\ NodeOK(h, n) /\ MaxLen \in Nat
  BY GraphBoundsAssumption DEF Good, Built, Stored
<1>3. h.place[n].at = n /\ h.place[n].off = 0 /\ h.nodes[n].step = 1 /\ h.nodes[n].len \in 1 .. MaxLen
  <2>1. h.place[n] = [at |-> n, off |-> 0]
    BY <1>2 DEF PlaceOK
  <2> QED BY <1>2, <2>1 DEF NodeOK
<1>4. DOMAIN v = 1 .. h.nodes[n].len /\ v = [i \in 1 .. h.nodes[n].len |-> v[i]]
  BY DEF Combine
<1> HIDE DEF v
<1>5. \A i \in 1 .. h.nodes[n].len : x[i] = v[i]
  BY <1>2, <1>3, <1>4
<1> HIDE DEF x
<1>6. g.nodes = h.nodes /\ g.place = h.place /\ g.mem[n] = x
  <2>1. Writes(h, g, {n}) /\ g.mem[n] = x
    BY <1>2, FieldMem, Zenon
  <2> HIDE DEF g
  <2> QED BY <2>1 DEF Writes
<1> HIDE DEF g
<1>7. Read(g, n) = [i \in 1 .. h.nodes[n].len |-> x[0 + 1 + (i - 1) * 1]]
  BY <1>3, <1>6 DEF Read, Cell
<1>8. \A i \in 1 .. h.nodes[n].len : 0 + 1 + (i - 1) * 1 = i
  BY <1>2, <1>3
<1>9. Read(g, n) = [i \in 1 .. h.nodes[n].len |-> v[i]]
  BY <1>5, <1>7, <1>8
<1> QED BY <1>1, <1>4, <1>9 DEF v

\* What was visited before a node of an order is not in that node's memory.
LEMMA BehindElsewhere ==
  ASSUME NEW h, Good(h), NEW order \in Seq(NodeIds(h)), Sound(h, order),
         \A k \in 1 .. Len(order) : Bound(h, order[k]),
         NEW k \in 1 .. Len(order), NEW x, x \in h.computed \/ \E j \in 1 .. k - 1 : order[j] = x
  PROVE  x \in NodeIds(h) /\ h.place[x].at \in NodeIds(h) \ {order[k]}
<1>1. Len(order) \in Nat /\ h.computed \subseteq NodeIds(h) /\ order[k] \notin h.computed
      /\ \A j \in 1 .. k - 1 : order[j] # order[k]
  BY LenProperties DEF Sound, Good, Built, IsHeap
<1>2. CASE x \in h.computed
  <2>1. h.place[x].at \in h.computed
    BY <1>1, <1>2 DEF Good, Stored, PlaceOK
  <2> QED BY <1>1, <1>2, <2>1
<1>3. CASE \E j \in 1 .. k - 1 : order[j] = x
  <2>1. PICK j \in 1 .. k - 1 : order[j] = x
    BY <1>3
  <2>2. j \in 1 .. Len(order) /\ \A i \in 1 .. j : i \in 1 .. Len(order) /\ i \in 1 .. k - 1
    BY <1>1
  <2>3. h.place[x].at \in h.computed \/ \E i \in 1 .. j : order[i] = h.place[x].at
    BY <2>1, <2>2, Anchored
  <2>4. \A i \in 1 .. Len(order) : order[i] \in NodeIds(h)
    BY ElementOfSeq
  <2> QED BY <1>1, <2>1, <2>2, <2>3, <2>4
<1> QED BY <1>2, <1>3

\* Each node of an order that has a kernel holds what its kernel makes of what
\* its sources hold.
Filled(h, order, g) ==
  \A k \in 1 .. Len(order) : HasKernel(h, order[k]) =>
    Read(g, order[k])
      = Combine(h, order[k], [i \in DOMAIN Sources(h, order[k]) |-> Read(g, Sources(h, order[k])[i])])

\* The kernels of an order leave in each node what they make of what its sources
\* hold in the end: nothing they read is written again.
LEMMA ComputeAllReads ==
  ASSUME NEW h, Good(h), NEW order \in Seq(NodeIds(h)), Sound(h, order),
         \A k \in 1 .. Len(order) : Bound(h, order[k])
  PROVE  Filled(h, order, ComputeAll(h, order))
<1> DEFINE Made(g, n) == Combine(h, n, [i \in DOMAIN Sources(h, n) |-> Read(g, Sources(h, n)[i])])
           All == {order[k] : k \in 1 .. Len(order)}
<1>1. Len(order) \in Nat /\ DOMAIN order = 1 .. Len(order) /\ IsHeap(h)
  BY LenProperties DEF Good, Built
<1>2. PICK g : Steps("compute", <<>>, <<>>, h, order, g) /\ g[Len(order)] = ComputeAll(h, order)
  BY <1>1, ComputeSteps
<1> DEFINE Inv(k) == /\ Good(g[k]) /\ Writes(h, g[k], All)
                     /\ \A j \in 1 .. k : HasKernel(h, order[j]) => Read(g[k], order[j]) = Made(g[k], order[j])
           good == {k \in 0 .. Len(order) : Inv(k)}
<1>3. 0 \in good
  <2>1. g[0] = h
    BY <1>2 DEF Steps
  <2>2. Inv(0)
    BY <1>1, <2>1 DEF Writes
  <2> QED BY <1>1, <2>2
<1>4. ASSUME NEW k \in 1 .. Len(order), k - 1 \in good PROVE k \in good
  <2> DEFINE a == g[k - 1]
             c == g[k]
             n == order[k]
  <2>1. Good(a) /\ Writes(h, a, All)
        /\ \A j \in 1 .. k - 1 : HasKernel(h, order[j]) => Read(a, order[j]) = Made(a, order[j])
    BY <1>4
  <2>2. c = Computed(a, n)
    BY <1>2 DEF Steps, FoldStep
  <2> HIDE DEF a, c
  <2>3. IsHeap(a) /\ a.nodes = h.nodes /\ a.place = h.place /\ a.computed = h.computed /\ NodeIds(a) = NodeIds(h)
        /\ n \in NodeIds(h) /\ n \in All
    BY <2>1, ElementOfSeq DEF Writes, NodeIds
  <2>4. Writes(a, c, {n})
    BY <2>2, <2>3, ComputedWrites
  <2>5. Good(c) /\ \A x \in NodeIds(h) : h.place[x].at \in NodeIds(h) \ {n} => Read(c, x) = Read(a, x)
    BY <2>1, <2>3, <2>4, WritesGood
  <2>6. ASSUME NEW x, x \in h.computed \/ \E j \in 1 .. k - 1 : order[j] = x
        PROVE  Read(c, x) = Read(a, x)
    BY <2>5, <2>6, BehindElsewhere
  <2>7. \A j \in 1 .. k : j \in 1 .. Len(order) /\ \A i \in 1 .. j - 1 : i \in 1 .. k - 1
    BY <1>1
  <2>8. ASSUME NEW j \in 1 .. k PROVE Made(c, order[j]) = Made(a, order[j])
    <3>1. order[j] \in NodeIds(h)
      BY <2>7, ElementOfSeq
    <3>2. Sources(h, order[j]) \in Seq(NodeIds(h))
      BY <3>1 DEF Good, Built, NodeOK
    <3>3. DOMAIN Sources(h, order[j]) = 1 .. Len(Sources(h, order[j]))
      BY <3>2, LenProperties
    <3>4. ASSUME NEW i \in DOMAIN Sources(h, order[j])
          PROVE  Read(c, Sources(h, order[j])[i]) = Read(a, Sources(h, order[j])[i])
      <4> DEFINE x == Sources(h, order[j])[i]
      <4>1. x \in h.computed \/ \E l \in 1 .. j - 1 : order[l] = x
        BY <2>7, <3>3 DEF Sound
      <4>2. x \in h.computed \/ \E l \in 1 .. k - 1 : order[l] = x
        BY <2>7, <4>1
      <4> QED BY <2>6, <4>2
    <3>5. [i \in DOMAIN Sources(h, order[j]) |-> Read(c, Sources(h, order[j])[i])]
            = [i \in DOMAIN Sources(h, order[j]) |-> Read(a, Sources(h, order[j])[i])]
      BY <3>4
    <3> QED BY <3>5
  <2>9. ASSUME NEW j \in 1 .. k, HasKernel(h, order[j])
        PROVE  Read(c, order[j]) = Made(c, order[j])
    <3>1. CASE j = k
      <4>1. HasKernel(a, n) /\ Bound(a, n)
        BY <2>3, <2>9, <3>1 DEF HasKernel, Bound
      <4>2. Read(c, n) = Combine(a, n, [i \in DOMAIN Sources(a, n) |-> Read(a, Sources(a, n)[i])])
        BY <2>1, <2>2, <2>3, <4>1, KernelReads
      <4>3. Combine(a, n, [i \in DOMAIN Sources(a, n) |-> Read(a, Sources(a, n)[i])]) = Made(a, n)
        BY <2>3 DEF Combine, Sources
      <4> QED BY <2>8, <3>1, <4>2, <4>3
    <3>2. CASE j # k
      <4>1. j \in 1 .. k - 1
        BY <1>1, <3>2
      <4>2. Read(c, order[j]) = Read(a, order[j])
        BY <2>6, <4>1
      <4>3. Read(a, order[j]) = Made(a, order[j])
        BY <2>1, <2>9, <4>1
      <4> QED BY <2>8, <4>2, <4>3
    <3> QED BY <3>1, <3>2
  <2>10. Writes(h, c, All)
    <3>1. All \cup {n} = All
      BY <2>3
    <3> HIDE DEF All
    <3> QED BY <2>1, <2>4, <3>1, WritesOn
  <2> HIDE DEF Made, All
  <2>11. Inv(k)
    BY <2>5, <2>9, <2>10 DEF c
  <2> QED BY <1>1, <2>11
<1> HIDE DEF good
<1>5. Len(order) \in good
  <2>1. Len(order) \in 0 .. Len(order)
    BY <1>1
  <2> QED BY <1>1, <1>3, <1>4, <2>1, StepsHold
<1>6. Inv(Len(order))
  BY <1>5 DEF good
<1> QED BY <1>2, <1>6 DEF Filled

-----------------------------------------------------------------------------
(* What a graph says.                                                      *)

\* The value of a node, from the values of its sources.
ValueOf(h, v, m) ==
  IF m \in h.computed THEN Read(h, m)
  ELSE IF IsView(h, m)
       THEN [i \in 1 .. h.nodes[m].len |->
               v[Sources(h, m)[1]][h.nodes[m].pick[1] + 1 + (i - 1) * h.nodes[m].pick[2]]]
  ELSE Combine(h, m, [k \in DOMAIN Sources(h, m) |-> v[Sources(h, m)[k]]])

ValueRule(h, v) == [m \in NodeIds(h) |-> ValueOf(h, v, m)]

\* The values as ValueNow writes them.
ValuesOf(h) ==
  CHOOSE value : value = [m \in NodeIds(h) |->
        IF m \in h.computed THEN Read(h, m)
        ELSE IF IsView(h, m)
             THEN [i \in 1 .. h.nodes[m].len |->
                     value[Sources(h, m)[1]][h.nodes[m].pick[1] + 1 + (i - 1) * h.nodes[m].pick[2]]]
        ELSE Combine(h, m, [k \in DOMAIN Sources(h, m) |-> value[Sources(h, m)[k]]])]

\* A call left, in every node it flagged, what the graph makes of the node's sources.
Solves(h, g) ==
  \A m \in g.computed \cap NodeIds(h) :
    /\ Read(g, m) = ValueOf(h, [x \in NodeIds(h) |-> Read(g, x)], m)
    /\ m \notin h.computed =>
         \A k \in 1 .. Len(Sources(h, m)) : Sources(h, m)[k] \in g.computed

\* realize() does.
LEMMA RealizedSolves ==
  ASSUME NEW h, Good(h), NEW roots \in Seq(NodeIds(h))
  PROVE  Solves(h, Realized(h, roots))
<1> DEFINE order == Order(h, roots)
           b == BindAll(h, order)
           c == ComputeAll(b, order)
           g == Flagged(c, {order[i] : i \in DOMAIN order})
<1>0. Realized(h, roots) = g
  BY DEF Realized, Flagged
<1>1. order \in Seq(NodeIds(h)) /\ Sound(h, order) /\ Len(order) \in Nat /\ DOMAIN order = 1 .. Len(order)
  BY BuiltAcyclic, OrderSound, LenProperties DEF Good
<1>2. Extends(h, g)
  BY <1>0, RealizedGood
<1> HIDE DEF order
<1>3. Binds(h, b) /\ \A k \in 1 .. Len(order) : Bound(b, order[k])
  BY <1>1, BindAllGood
<1>4. Good(b) /\ b.nodes = h.nodes /\ b.computed = h.computed /\ NodeIds(b) = NodeIds(h) /\ IsHeap(b)
  BY <1>3 DEF Binds, NodeIds, Good, Built
<1> HIDE DEF b
<1>5. Sound(b, order)
  BY <1>1, <1>4, SoundElsewhere
<1>6. Writes(b, c, {order[k] : k \in 1 .. Len(order)})
  BY <1>1, <1>4, ComputeAllWrites
<1>7. {order[k] : k \in 1 .. Len(order)} \cap b.computed = {}
  BY <1>5 DEF Sound
<1>8. Good(c) /\ NodeIds(c) = NodeIds(h)
  BY <1>4, <1>6, <1>7, WritesGood
<1>9. c.nodes = h.nodes /\ c.computed = h.computed /\ \A n : Bound(c, n) <=> Bound(b, n)
  BY <1>4, <1>6 DEF Writes, Bound
<1>10. Filled(b, order, c)
  <2>1. order \in Seq(NodeIds(b))
    BY <1>1, <1>4
  <2> QED BY <1>3, <1>4, <1>5, <2>1, ComputeAllReads
<1>11. Sound(c, order)
  BY <1>4, <1>5, <1>9, SoundElsewhere
<1> HIDE DEF c
<1>12. /\ Good(g) /\ g.nodes = c.nodes /\ g.place = c.place /\ g.mem = c.mem /\ g.computed = Visited(c, order)
  BY <1>1, <1>3, <1>8, <1>9, <1>11, FlaggedGood
<1> HIDE DEF g
<1>13. \A n : Read(g, n) = Read(c, n)
  BY <1>12 DEF Read, Cell
<1>14. NodeIds(g) = NodeIds(h)
  BY <1>9, <1>12 DEF NodeIds
<1> DEFINE v == [x \in NodeIds(h) |-> Read(g, x)]
<1>15. ASSUME NEW m \in g.computed \cap NodeIds(h) PROVE Read(g, m) = ValueOf(h, v, m)
  <2>0. NodeOK(h, m) /\ PlaceOK(g, m) /\ PlaceOK(h, m)
    BY <1>12, <1>14, <1>15 DEF Good, Built, Stored
  <2>1. CASE m \in h.computed
    BY <1>2, <2>1 DEF Extends, Keeps, ValueOf
  <2>2. CASE m \notin h.computed /\ IsView(h, m)
    <3> DEFINE s == Sources(h, m)[1]
    <3>1. Sources(h, m) \in Seq(NodeIds(h)) /\ Len(Sources(h, m)) = 1
      BY <2>0, <2>2 DEF NodeOK, ViewOK, Sources
    <3>2. s \in NodeIds(h) /\ s \in g.computed /\ Bound(g, m)
      <4>1. \A i \in 1 .. Len(Sources(g, m)) : Sources(g, m)[i] \in g.computed
        BY <1>15, <2>0 DEF PlaceOK
      <4>2. Sources(g, m) = Sources(h, m)
        BY <1>9, <1>12 DEF Sources
      <4>0. 1 \in 1 .. Len(Sources(h, m))
        BY <3>1
      <4>3. s \in NodeIds(h)
        BY <3>1, <4>0, ElementOfSeq
      <4>4. s \in g.computed
        BY <4>0, <4>1, <4>2
      <4>5. Bound(g, m)
        BY <1>15, <2>0 DEF PlaceOK
      <4> QED BY <4>3, <4>4, <4>5
    <3>3. Bound(g, s)
      BY <1>12, <1>14, <3>2 DEF Good, Stored, PlaceOK
    <3>4. IsView(g, m) /\ Sources(g, m) = Sources(h, m) /\ g.nodes[m] = h.nodes[m]
      BY <1>9, <1>12, <2>2 DEF IsView, Sources
    <3>5. Read(g, m) = [i \in 1 .. h.nodes[m].len |->
             Read(g, s)[h.nodes[m].pick[1] + 1 + (i - 1) * h.nodes[m].pick[2]]]
      BY <1>12, <1>14, <3>2, <3>3, <3>4, ViewReads
    <3>6. v[s] = Read(g, s)
      BY <3>2
    <3> HIDE DEF v
    <3> QED BY <2>2, <3>5, <3>6 DEF ValueOf
  <2>3. CASE m \notin h.computed /\ ~IsView(h, m)
    <3>1. HasKernel(h, m)
      BY <2>0, <2>3 DEF NodeOK, PlaceOK, HasKernel, IsView
    <3>2. PICK k \in 1 .. Len(order) : m = order[k]
      BY <1>1, <1>9, <1>12, <1>15, <2>3 DEF Visited
    <3>3. Read(c, m) = Combine(b, m, [i \in DOMAIN Sources(b, m) |-> Read(c, Sources(b, m)[i])])
      BY <1>4, <1>10, <3>1, <3>2 DEF HasKernel, Filled
    <3>4. Sources(b, m) = Sources(h, m) /\ \A in : Combine(b, m, in) = Combine(h, m, in)
      BY <1>4 DEF Sources, Combine
    <3>5. Sources(h, m) \in Seq(NodeIds(h)) /\ DOMAIN Sources(h, m) = 1 .. Len(Sources(h, m))
      BY <2>0, LenProperties DEF NodeOK
    <3>6. \A i \in DOMAIN Sources(h, m) : Sources(h, m)[i] \in NodeIds(h)
      BY <3>5
    <3>7. [i \in DOMAIN Sources(h, m) |-> Read(c, Sources(h, m)[i])]
            = [i \in DOMAIN Sources(h, m) |-> v[Sources(h, m)[i]]]
      BY <1>13, <3>6
    <3>8. Read(g, m) = Combine(h, m, [i \in DOMAIN Sources(h, m) |-> v[Sources(h, m)[i]]])
      BY <1>13, <3>3, <3>4, <3>7
    <3> HIDE DEF v
    <3> QED BY <2>3, <3>8 DEF ValueOf
  <2> QED BY <2>1, <2>2, <2>3
<1>16. ASSUME NEW m \in g.computed \cap NodeIds(h), NEW k \in 1 .. Len(Sources(h, m))
       PROVE  Sources(h, m)[k] \in g.computed
  <2>1. PlaceOK(g, m) /\ Sources(g, m) = Sources(h, m)
    BY <1>9, <1>12, <1>14 DEF Good, Stored, Sources
  <2> QED BY <2>1 DEF PlaceOK
<1> QED BY <1>0, <1>15, <1>16 DEF Solves

\* The recursion of ValueNow has a solution: what everything would read if it were
\* evaluated.
LEMMA ValuesSolve ==
  ASSUME NEW h, Good(h)
  PROVE  ValuesOf(h) = ValueRule(h, ValuesOf(h)) /\ \A n : ValueNow(h, n) = ValuesOf(h)[n]
<1> DEFINE all == [i \in 1 .. Len(h.nodes) |-> i]
           g == Realized(h, all)
           f == [m \in NodeIds(h) |-> Read(g, m)]
<1>1. NodeIds(h) = 1 .. Len(h.nodes) /\ Len(h.nodes) \in Nat
  BY HeapIds DEF Good, Built
<1>2. all \in Seq(NodeIds(h)) /\ Len(all) = Len(h.nodes) /\ \A i \in NodeIds(h) : all[i] = i
  <2>1. \A i \in 1 .. Len(h.nodes) : i \in NodeIds(h)
    BY <1>1
  <2>2. all \in Seq(NodeIds(h))
    BY <1>1, <2>1, IsASeq
  <2>3. DOMAIN all = 1 .. Len(all) /\ Len(all) \in Nat /\ DOMAIN all = 1 .. Len(h.nodes)
    BY <2>2, LenProperties
  <2> QED BY <1>1, <2>2, <2>3
<1> HIDE DEF all
<1>3. Solves(h, g) /\ \A i \in 1 .. Len(all) : all[i] \in g.computed
  BY <1>2, RealizedSolves, RealizedGood
<1>4. \A m \in NodeIds(h) : m \in g.computed
  BY <1>1, <1>2, <1>3
<1> HIDE DEF g
<1>5. f = ValueRule(h, f)
  <2>1. \A m \in NodeIds(h) : f[m] = ValueOf(h, f, m)
    BY <1>3, <1>4 DEF Solves
  <2>2. f = [m \in NodeIds(h) |-> f[m]]
    OBVIOUS
  <2> HIDE DEF f
  <2> QED BY <2>1, <2>2 DEF ValueRule
<1> HIDE DEF f
<1>6. ValuesOf(h) = CHOOSE v : v = ValueRule(h, v)
  BY Zenon DEF ValuesOf, ValueRule, ValueOf
<1>7. ValuesOf(h) = ValueRule(h, ValuesOf(h))
  BY <1>5, <1>6
<1>8. \A n : ValueNow(h, n) = ValuesOf(h)[n]
  BY DEF ValueNow, ValuesOf
<1> QED BY <1>7, <1>8

\* What solves the graph's equations holds what it says.
LEMMA SolvedValues ==
  ASSUME NEW h, Good(h), NEW g, Solves(h, g)
  PROVE  \A m \in g.computed \cap NodeIds(h) : Read(g, m) = ValueNow(h, m)
<1> DEFINE v == ValuesOf(h)
           r == [x \in NodeIds(h) |-> Read(g, x)]
           Wrong == {m \in g.computed \cap NodeIds(h) : Read(g, m) # v[m]}
<1>1. v = ValueRule(h, v) /\ \A n : ValueNow(h, n) = v[n]
  BY ValuesSolve
<1>2. SUFFICES ASSUME Wrong # {} PROVE FALSE
  BY <1>1
<1>3. NodeIds(h) = 1 .. Len(h.nodes) /\ Len(h.nodes) \in Nat
  BY HeapIds DEF Good, Built
<1>4. Wrong \in SUBSET Nat
  BY <1>3
<1>5. PICK m \in Wrong : \A k \in Wrong : m <= k
  BY <1>2, <1>4, LeastExists
<1>6. m \in g.computed \cap NodeIds(h) /\ Read(g, m) # v[m] /\ m \in Nat
  BY <1>4
<1>7. \A k \in g.computed \cap NodeIds(h) : k < m => Read(g, k) = v[k]
  <2>1. \A k \in g.computed \cap NodeIds(h) : k \in Nat
    BY <1>3
  <2>2. \A k \in g.computed \cap NodeIds(h) : Read(g, k) # v[k] => m <= k
    BY <1>5
  <2> HIDE DEF v
  <2> QED BY <1>6, <2>1, <2>2
<1> HIDE DEF Wrong, v
<1>8. v[m] = ValueOf(h, v, m) /\ Read(g, m) = ValueOf(h, r, m)
  <2>1. v[m] = ValueRule(h, v)[m]
    BY <1>1
  <2>2. ValueRule(h, v)[m] = ValueOf(h, v, m)
    BY <1>6 DEF ValueRule
  <2> QED BY <1>6, <2>1, <2>2 DEF Solves
<1>9. CASE m \in h.computed
  BY <1>6, <1>8, <1>9 DEF ValueOf
<1>10. CASE m \notin h.computed
  <2>1. Sources(h, m) \in Seq(NodeIds(h)) /\ \A k \in 1 .. Len(Sources(h, m)) : Sources(h, m)[k] < m
    BY <1>6 DEF Good, Built, NodeOK
  <2>2. DOMAIN Sources(h, m) = 1 .. Len(Sources(h, m))
    BY <2>1, LenProperties
  <2>3. \A k \in DOMAIN Sources(h, m) : r[Sources(h, m)[k]] = v[Sources(h, m)[k]]
    <3> SUFFICES ASSUME NEW k \in DOMAIN Sources(h, m) PROVE r[Sources(h, m)[k]] = v[Sources(h, m)[k]]
      OBVIOUS
    <3>1. Sources(h, m)[k] \in g.computed \cap NodeIds(h) /\ Sources(h, m)[k] < m
      <4>1. k \in 1 .. Len(Sources(h, m))
        BY <2>2
      <4>2. Sources(h, m)[k] \in NodeIds(h) /\ Sources(h, m)[k] < m
        BY <2>1, <4>1
      <4>3. Sources(h, m)[k] \in g.computed
        BY <1>6, <1>10, <4>1 DEF Solves
      <4> QED BY <4>2, <4>3
    <3> QED BY <1>7, <3>1
  <2> HIDE DEF r
  <2>4. ValueOf(h, r, m) = ValueOf(h, v, m)
    <3>1. [k \in DOMAIN Sources(h, m) |-> r[Sources(h, m)[k]]] = [k \in DOMAIN Sources(h, m) |-> v[Sources(h, m)[k]]]
      BY <2>3
    <3>2. IsView(h, m) => r[Sources(h, m)[1]] = v[Sources(h, m)[1]]
      <4>1. IsView(h, m) => Len(Sources(h, m)) = 1
        BY <1>6 DEF Good, Built, NodeOK, ViewOK, Sources
      <4> QED BY <2>2, <2>3, <4>1, SMTT(60)
    <3> QED BY <1>10, <3>1, <3>2 DEF ValueOf
  <2> QED BY <1>6, <1>8, <2>4
<1> QED BY <1>9, <1>10

\* realize() leaves in each node what the graph says of it.
LEMMA RealizedValues ==
  ASSUME NEW h, Good(h), NEW roots \in Seq(NodeIds(h))
  PROVE  \A m \in Realized(h, roots).computed \cap NodeIds(h) : Read(Realized(h, roots), m) = ValueNow(h, m)
BY RealizedSolves, SolvedValues

\* What FlaggedHoldsValue says of one step.
FlaggedRight ==
  last'.call = "none" =>
    \A n \in heap'.computed \ heap.computed :
      n \in NodeIds(heap) => Read(heap', n) = ValueNow(heap, n)

\* A call that only builds flags no node there was.
LEMMA BuildFlags ==
  ASSUME NEW h, Build(h), h.computed \cap NodeIds(heap) \subseteq heap.computed
  PROVE  FlaggedRight
BY DEF FlaggedRight, Build

\* Every step is right in that.
LEMMA FlagStep ==
  ASSUME LazyInv, LazyNext
  PROVE  FlaggedRight
<1>0. Good(heap) /\ Built(heap) /\ IsHeap(heap) /\ MaxLen \in Nat
  BY GraphBoundsAssumption DEF LazyInv, Good, Built
<1>1. CASE NewLeaf
  <2>1. PICK len \in 1 .. MaxLen : Build(WithLeaf(heap, len))
    BY <1>1 DEF NewLeaf
  <2> DEFINE n == Len(heap.nodes) + 1
             x == Owning("leaf", <<>>, len, 1)
             g == WithNode(heap, x)
             p == [at |-> n, off |-> 0]
             data == [i \in 1 .. MaxLen |-> IF i <= len THEN <<10 * n + i>> ELSE <<>>]
             w == [g EXCEPT !.place[n] = p, !.computed = @ \cup {n}, !.mem[n] = data]
  <2>2. WithLeaf(heap, len) = w
    BY DEF WithLeaf
  <2>3. Grows(heap, g, x) /\ g.computed = heap.computed
    BY <1>0, WithNodeGrows
  <2>4. g = [f \in {"nodes", "place", "computed", "mem"} |-> g[f]]
    BY <2>3 DEF Grows, IsHeap
  <2> HIDE DEF g, p, data
  <2>5. w.computed = g.computed \cup {n}
    BY <2>4
  <2>6. n \notin NodeIds(heap)
    BY <1>0, FreshId
  <2> HIDE DEF w, n
  <2>7. w.computed \cap NodeIds(heap) \subseteq heap.computed
    BY <2>3, <2>5, <2>6
  <2> QED BY <2>1, <2>2, <2>7, BuildFlags
<1>2. CASE \E srcs \in Lists(NodeIds(heap), 2) : NewOp(srcs)
  <2>1. PICK srcs \in Lists(NodeIds(heap), 2) : NewOp(srcs)
    BY <1>2
  <2> DEFINE g == WithNode(heap, Owning("op", srcs, heap.nodes[srcs[1]].len, 1))
  <2>2. g.computed = heap.computed
    BY <1>0, WithNodeGrows
  <2>3. Build(g)
    BY <2>1 DEF NewOp
  <2> HIDE DEF g
  <2> QED BY <2>2, <2>3, BuildFlags
<1>3. CASE \E b \in NodeIds(heap) : NewSlice(b) \/ NewBroadcast(b)
  <2>1. PICK b \in NodeIds(heap) : NewSlice(b) \/ NewBroadcast(b)
    BY <1>3
  <2>2. PICK x : Build(WithNode(heap, x))
    BY <2>1 DEF NewSlice, NewBroadcast
  <2> DEFINE g == WithNode(heap, x)
  <2>3. g.computed = heap.computed
    BY <1>0, WithNodeGrows
  <2> HIDE DEF g
  <2> QED BY <2>2, <2>3, BuildFlags DEF g
<1>5. CASE \E b \in NodeIds(heap) : NewContiguous(b)
  <2>1. PICK b \in NodeIds(heap) : NewContiguous(b)
    BY <1>5
  <2> DEFINE g == Flattened(heap, b).heap
  <2>2. g.computed = heap.computed
    BY <1>0, FlattenedGood
  <2>3. Build(g)
    BY <2>1 DEF NewContiguous
  <2> HIDE DEF g
  <2> QED BY <2>2, <2>3, BuildFlags
<1>6. CASE \E roots \in Lists(NodeIds(heap), 2) : Realize(roots)
  <2>1. PICK roots \in Lists(NodeIds(heap), 2) : Build(Realized(heap, roots))
    BY <1>6 DEF Realize
  <2>2. roots \in Seq(NodeIds(heap))
    BY <2>1, ListsAre
  <2>3. \A m \in Realized(heap, roots).computed \cap NodeIds(heap) :
          Read(Realized(heap, roots), m) = ValueNow(heap, m)
    BY <1>0, <2>2, RealizedValues
  <2> QED BY <2>1, <2>3 DEF FlaggedRight, Build
<1>7. CASE \E roots \in Lists(NodeIds(heap), 2) : RealizeFails(roots)
  <2>1. PICK roots \in Lists(NodeIds(heap), 2) : RealizeFails(roots)
    BY <1>7
  <2>2. PICK h \in FailedRealizes(heap, roots) : Build(h)
    BY <2>1 DEF RealizeFails
  <2>3. roots \in Seq(NodeIds(heap))
    BY <2>1, ListsAre
  <2>4. h.computed = heap.computed
    BY <1>0, <2>2, <2>3, FailedGood
  <2> QED BY <2>2, <2>4, BuildFlags
<1>8. CASE \E n \in NodeIds(heap) : Detach(n)
  <2>1. PICK n \in NodeIds(heap) : Detach(n)
    BY <1>8
  <2> DEFINE h == Realized(heap, <<n>>)
             m == Len(h.nodes) + 1
             x == Owning("leaf", <<>>, h.nodes[n].len, h.nodes[n].step)
             g == WithNode(h, x)
             w == [g EXCEPT !.place[m] = h.place[n], !.computed = @ \cup {m}]
  <2>2. Build(w)
    BY <2>1 DEF Detach
  <2>3. Extends(heap, h) /\ h.nodes = heap.nodes /\ n \in h.computed
        /\ \A i \in h.computed \cap NodeIds(heap) : Read(h, i) = ValueNow(heap, i)
    <3> DEFINE roots == <<n>>
    <3>1. roots \in Seq(NodeIds(heap)) /\ roots[1] = n /\ 1 \in 1 .. Len(roots)
      OBVIOUS
    <3>2. h = Realized(heap, roots)
      OBVIOUS
    <3> HIDE DEF roots, h
    <3> QED BY <1>0, <3>1, <3>2, RealizedGood, RealizedValues
  <2> HIDE DEF h
  <2>4. Good(h) /\ IsHeap(h) /\ NodeIds(h) = NodeIds(heap)
    BY <2>3 DEF Extends, Good, Built, NodeIds
  <2>5. Good(w) /\ Keeps(h, w)
    BY <2>3, <2>4, SharingGood
  <2>6. Grows(h, g, x) /\ g.computed = h.computed
    BY <2>4, WithNodeGrows
  <2>7. g = [f \in {"nodes", "place", "computed", "mem"} |-> g[f]]
    BY <2>6 DEF Grows, IsHeap
  <2> HIDE DEF g
  <2>8. w.computed = g.computed \cup {m}
    BY <2>7
  <2>9. m \notin NodeIds(heap)
    BY <2>4, FreshId
  <2> HIDE DEF w, m
  <2>10. \A i \in w.computed \cap NodeIds(heap) : Read(w, i) = ValueNow(heap, i)
    BY <2>3, <2>5, <2>6, <2>8, <2>9 DEF Keeps
  <2> QED BY <2>2, <2>10 DEF FlaggedRight, Build
<1>9. CASE \E k \in 1 .. MaxBatch : \E ds, ss \in [1 .. k -> NodeIds(heap)] :
             Assign(ds, ss) \/ AssignRejected(ds, ss) \/ AssignFails(ds, ss)
  <2>1. PICK ds, ss : Assign(ds, ss) \/ AssignRejected(ds, ss) \/ AssignFails(ds, ss)
    BY <1>9
  <2>2. PICK h, outcome : /\ outcome \in {"assigned", "rejected", "realizeFailed", "deviceFailed"}
                          /\ Finish(h, ds, ss, outcome)
    BY <2>1 DEF Assign, AssignRejected, AssignFails
  <2>3. last'.call # "none"
    BY <2>2 DEF Finish
  <2> QED BY <2>3 DEF FlaggedRight
<1> QED BY <1>1, <1>2, <1>3, <1>5, <1>6, <1>7, <1>8, <1>9 DEF LazyNext

\* A call that returns, or throws, never flags a node whose memory does not hold
\* what its graph says (executor.cpp:130-138), for graphs of any size.
THEOREM FlagsAreEarned == LazySpec => FlaggedHoldsValue
<1>1. LazyInv /\ [LazyNext]_lvars => [FlaggedRight]_lvars
  BY FlagStep
<1>2. LazySpec => [][FlaggedRight]_lvars
  BY <1>1, HeapsAreSound, PTL DEF LazySpec
<1> QED BY <1>2 DEF FlaggedHoldsValue, FlaggedRight

-----------------------------------------------------------------------------
(* What an assign() delivers.                                              *)

\* The nodes a node depends on, as Reached computes them.
ReachRule(h, f) ==
  [m \in NodeIds(h) |-> {m} \cup UNION {f[Sources(h, m)[i]] : i \in DOMAIN Sources(h, m)}]
ReachOf(h) == CHOOSE f : f = ReachRule(h, f)

\* The recursion of Reached has a solution.
LEMMA ReachExists ==
  ASSUME NEW h, Built(h)
  PROVE  \E f : f = ReachRule(h, f)
<1> DEFINE At(f, m) == {m} \cup UNION {f[Sources(h, m)[i]] : i \in DOMAIN Sources(h, m)}
           Rule(n, f) == [m \in 1 .. n |-> At(f, m)]
           N == Len(h.nodes)
           Bad == {n \in 0 .. N : ~ \E f : f = Rule(n, f)}
<1>1. N \in Nat /\ NodeIds(h) = 1 .. N
  BY HeapIds DEF Built
<1>2. \E f : f = Rule(0, f)
  <2> DEFINE f == [m \in 1 .. 0 |-> {}]
  <2>1. f = Rule(0, f)
    OBVIOUS
  <2> QED BY <2>1
<1>3. ASSUME NEW n \in Nat, n + 1 \in NodeIds(h), NEW e, e = Rule(n, e) PROVE \E f : f = Rule(n + 1, f)
  <2> DEFINE f == [m \in 1 .. n + 1 |-> IF m = n + 1 THEN At(e, m) ELSE e[m]]
  <2>1. \A m \in 1 .. n : f[m] = e[m]
    OBVIOUS
  <2>2. ASSUME NEW m \in 1 .. n + 1 PROVE At(f, m) = At(e, m)
    <3>1. m \in NodeIds(h)
      <4>1. n + 1 <= N /\ m \in Nat /\ 1 <= m /\ m <= n + 1
        BY <1>1, <1>3
      <4>2. m \in 1 .. N
        BY <1>1, <4>1
      <4> HIDE DEF N
      <4> QED BY <1>1, <4>2
    <3>2. Sources(h, m) \in Seq(NodeIds(h)) /\ \A i \in 1 .. Len(Sources(h, m)) : Sources(h, m)[i] < m
      BY <3>1 DEF Built, NodeOK
    <3>3. DOMAIN Sources(h, m) = 1 .. Len(Sources(h, m))
      BY <3>2, LenProperties
    <3>4. \A i \in DOMAIN Sources(h, m) : Sources(h, m)[i] \in NodeIds(h) /\ Sources(h, m)[i] < m
      BY <3>2, <3>3, ElementOfSeq
    <3>5. \A i \in DOMAIN Sources(h, m) : Sources(h, m)[i] \in 1 .. n
      BY <1>1, <3>4
    <3>6. \A i \in DOMAIN Sources(h, m) : f[Sources(h, m)[i]] = e[Sources(h, m)[i]]
      BY <2>1, <3>5
    <3> HIDE DEF f
    <3> QED BY <3>6
  <2>3. ASSUME NEW m \in 1 .. n + 1 PROVE f[m] = At(f, m)
    <3>1. CASE m = n + 1
      <4>1. f[m] = At(e, m)
        BY <3>1
      <4> HIDE DEF f, At
      <4> QED BY <2>2, <4>1
    <3>2. CASE m # n + 1
      <4>1. m \in 1 .. n
        BY <3>2
      <4>2. f[m] = e[m] /\ e[m] = At(e, m)
        BY <1>3, <2>1, <4>1
      <4> HIDE DEF f, At
      <4> QED BY <2>2, <4>2
    <3> QED BY <3>1, <3>2
  <2>4. f = Rule(n + 1, f)
    <3>1. f = [m \in 1 .. n + 1 |-> f[m]]
      OBVIOUS
    <3> HIDE DEF f, At
    <3> QED BY <2>3, <3>1
  <2> QED BY <2>4
<1>4. Bad = {}
  <2> HIDE DEF Rule, N
  <2> SUFFICES ASSUME Bad # {} PROVE FALSE
    OBVIOUS
  <2>1. Bad \in SUBSET Nat
    BY <1>1
  <2>2. PICK n \in Bad : \A k \in Bad : n <= k
    BY <2>1, LeastExists
  <2>3. n # 0 /\ n \in Nat /\ n - 1 \in 0 .. N /\ n - 1 \in Nat /\ n - 1 + 1 = n /\ n \in NodeIds(h)
    BY <1>1, <1>2, <2>2
  <2>4. n - 1 \notin Bad
    <3> HIDE DEF Bad
    <3> QED BY <2>2, <2>3
  <2>5. PICK e : e = Rule(n - 1, e)
    BY <2>3, <2>4
  <2>6. \E f : f = Rule(n - 1 + 1, f)
    BY <1>3, <2>3, <2>5
  <2> QED BY <2>2, <2>3, <2>6
<1>5. PICK f : f = Rule(N, f)
  <2> HIDE DEF Rule
  <2>1. N \in 0 .. N
    BY <1>1
  <2> QED BY <1>4, <2>1
<1>6. Rule(N, f) = ReachRule(h, f)
  BY <1>1 DEF ReachRule
<1> QED BY <1>5, <1>6

\* A node reaches itself, so its own storage is among what it touches.
LEMMA TouchesOwn ==
  ASSUME NEW h, Built(h), NEW n \in NodeIds(h)
  PROVE  h.place[n].at \in Touches(h, n)
<1>1. ReachOf(h) = ReachRule(h, ReachOf(h))
  BY ReachExists, Zenon DEF ReachOf
<1>2. Reached(h, n) = ReachOf(h)[n]
  BY DEF Reached, ReachOf, ReachRule
<1>3. n \in ReachRule(h, ReachOf(h))[n]
  BY DEF ReachRule
<1>4. n \in Reached(h, n)
  BY <1>1, <1>2, <1>3
<1> QED BY <1>4 DEF Touches

\* A source as assign() copies it: itself, or a copy of it that is contiguous.
FlatOf(h, f, s, n) ==
  \/ n = s /\ IsContiguous(h, s)
  \/ n \notin NodeIds(h) /\ n \in NodeIds(f)
     /\ f.nodes[n] = Owning("contiguous", <<s>>, h.nodes[s].len, 1)

\* Flattening makes no more nodes than it needs, each of its own source.
LEMMA FlattenedIs ==
  ASSUME NEW h, Good(h), NEW a, Extends(h, a), NEW s \in NodeIds(h)
  PROVE  FlatOf(h, Flattened(a, s).heap, s, Flattened(a, s).node)
<1> DEFINE f == Flattened(a, s)
           x == Owning("contiguous", <<s>>, a.nodes[s].len, 1)
           g == WithNode(a, x)
<1>1. Good(a) /\ NodeIds(h) \subseteq NodeIds(a) /\ a.nodes[s] = h.nodes[s] /\ IsHeap(a)
  <2>1. Good(a) /\ Extends(a, a) /\ a.nodes[s] = h.nodes[s]
    BY ExtendsSelf DEF Extends
  <2> QED BY <2>1, ExtendsOn DEF Good, Built
<1>2. CASE IsContiguous(a, s)
  <2>1. f.node = s /\ IsContiguous(h, s)
    BY <1>1, <1>2 DEF Flattened, IsContiguous
  <2> QED BY <2>1 DEF FlatOf
<1>3. CASE ~IsContiguous(a, s)
  <2>1. f.heap = g /\ f.node = Len(a.nodes) + 1
    BY <1>3 DEF Flattened
  <2>2. Grows(a, g, x)
    BY <1>1, WithNodeGrows
  <2> HIDE DEF f, g, x
  <2>3. g.nodes[Len(a.nodes) + 1] = x /\ Len(a.nodes) + 1 \in NodeIds(g)
    <3>1. NodeIds(g) = 1 .. Len(a.nodes) + 1 /\ Len(a.nodes) \in Nat
      BY <1>1, <2>2, HeapIds DEF Grows
    <3> QED BY <2>2, <3>1 DEF Grows
  <2>4. Len(a.nodes) + 1 \notin NodeIds(h)
    BY <1>1, FreshId
  <2>5. FlatOf(h, f.heap, s, f.node)
    BY <1>1, <2>1, <2>3, <2>4 DEF FlatOf, x
  <2> QED BY <2>5 DEF f
<1> QED BY <1>2, <1>3

\* So does flattening all the sources.
LEMMA FlattenAllIs ==
  ASSUME NEW h, Good(h), NEW ss \in Seq(NodeIds(h))
  PROVE  \A k \in 1 .. Len(ss) : FlatOf(h, FlattenAll(h, ss).heap, ss[k], FlattenAll(h, ss).nodes[k])
<1>1. Len(ss) \in Nat /\ DOMAIN ss = 1 .. Len(ss)
  BY LenProperties
<1>2. PICK g : Steps("flatten", <<>>, <<>>, [heap |-> h, nodes |-> <<>>], ss, g)
               /\ g[Len(ss)] = FlattenAll(h, ss)
  BY <1>1, FlattenSteps
<1> DEFINE Inv(a, k) == /\ Extends(h, a.heap)
                        /\ a.nodes \in Seq(NodeIds(a.heap)) /\ Len(a.nodes) = k
                        /\ \A j \in 1 .. k : FlatOf(h, a.heap, ss[j], a.nodes[j])
           good == {k \in 0 .. Len(ss) : Inv(g[k], k)}
<1>3. 0 \in good
  <2>1. g[0] = [heap |-> h, nodes |-> <<>>]
    BY <1>2 DEF Steps
  <2>2. g[0].heap = h /\ g[0].nodes = <<>>
    BY <2>1
  <2>3. g[0].nodes \in Seq(NodeIds(g[0].heap)) /\ Len(g[0].nodes) = 0
    BY <2>2, EmptySeq
  <2>4. Inv(g[0], 0)
    BY <2>2, <2>3, ExtendsSelf
  <2> HIDE DEF Inv
  <2> QED BY <1>1, <2>4
<1>4. ASSUME NEW k \in 1 .. Len(ss), k - 1 \in good PROVE k \in good
  <2> DEFINE a == g[k - 1]
             f == Flattened(a.heap, ss[k])
             q == Append(a.nodes, f.node)
  <2>1. Inv(a, k - 1)
    BY <1>4
  <2>2. g[k] = FoldStep("flatten", <<>>, <<>>, a, ss[k])
    BY <1>2 DEF Steps
  <2> HIDE DEF a
  <2>3. g[k] = [heap |-> f.heap, nodes |-> q]
    BY <2>2 DEF FoldStep
  <2>4. g[k].heap = f.heap /\ g[k].nodes = q
    BY <2>3
  <2>5. Good(a.heap) /\ NodeIds(h) \subseteq NodeIds(a.heap) /\ ss[k] \in NodeIds(h) /\ Extends(h, a.heap)
    <3>1. Extends(a.heap, a.heap)
      BY <2>1, ExtendsSelf DEF Extends
    <3>2. ss[k] \in NodeIds(h)
      BY ElementOfSeq
    <3> QED BY <2>1, <3>1, <3>2, ExtendsOn DEF Extends
  <2>6. ss[k] \in NodeIds(a.heap)
    BY <2>5
  <2>7. Extends(a.heap, f.heap) /\ f.node \in NodeIds(f.heap)
    BY <2>5, <2>6, FlattenedGood
  <2>8. FlatOf(h, f.heap, ss[k], f.node)
    BY <2>5, FlattenedIs
  <2> HIDE DEF f
  <2>9. Extends(h, f.heap) /\ NodeIds(a.heap) \subseteq NodeIds(f.heap)
    BY <2>1, <2>7, ExtendsOn
  <2>10. a.nodes \in Seq(NodeIds(f.heap)) /\ Len(a.nodes) = k - 1
    BY <2>1, <2>9, SeqMonotonic
  <2>11. q \in Seq(NodeIds(f.heap)) /\ Len(q) = Len(a.nodes) + 1
    BY <2>7, <2>10, AppendProperties
  <2>12. (\A j \in 1 .. k - 1 : q[j] = a.nodes[j]) /\ q[k] = f.node
    BY <1>1, <2>7, <2>10, AppendProperties
  <2> HIDE DEF q
  <2>13. ASSUME NEW j \in 1 .. k PROVE FlatOf(h, f.heap, ss[j], q[j])
    <3>1. CASE j = k
      BY <2>8, <2>12, <3>1
    <3>2. CASE j # k
      <4>1. j \in 1 .. k - 1
        BY <1>1, <3>2
      <4>2. FlatOf(h, a.heap, ss[j], q[j])
        BY <2>1, <2>12, <4>1
      <4>3. \A n \in NodeIds(a.heap) : f.heap.nodes[n] = a.heap.nodes[n]
        BY <2>7 DEF Extends
      <4> QED BY <2>9, <4>2, <4>3 DEF FlatOf
    <3> QED BY <3>1, <3>2
  <2>14. Len(q) = k
    BY <1>1, <2>10, <2>11
  <2>15. Inv(g[k], k)
    BY <2>4, <2>9, <2>11, <2>13, <2>14
  <2> HIDE DEF Inv
  <2> QED BY <1>1, <2>15
<1> HIDE DEF good
<1>5. Len(ss) \in good
  <2>1. Len(ss) \in 0 .. Len(ss)
    BY <1>1
  <2> QED BY <1>1, <1>3, <1>4, <2>1, StepsHold
<1>6. Inv(g[Len(ss)], Len(ss))
  BY <1>5 DEF good
<1> QED BY <1>2, <1>6

\* The cells of a contiguous node, in order.
LEMMA CellOfRun ==
  ASSUME NEW h, Good(h), NEW n \in NodeIds(h), IsContiguous(h, n), NEW i \in 1 .. h.nodes[n].len
  PROVE  Cell(h, n, i) = h.place[n].off + i
<1>1. h.place[n].off \in Nat /\ h.nodes[n].len \in Nat /\ h.nodes[n].step \in Nat
  <2>1. PlaceOK(h, n) /\ NodeOK(h, n)
    BY DEF Good, Built, Stored
  <2>2. h.place[n].off \in Nat
    BY <2>1 DEF PlaceOK
  <2>3. h.nodes[n].len \in 1 .. MaxLen /\ h.nodes[n].step \in Nat /\ MaxLen \in Nat
    BY <2>1, GraphBoundsAssumption DEF NodeOK
  <2> QED BY <2>2, <2>3
<1>2. (i - 1) * h.nodes[n].step = i - 1
  <2>1. CASE h.nodes[n].len = 1
    <3>1. i - 1 = 0
      BY <1>1, <2>1
    <3>2. 0 * h.nodes[n].step = 0
      BY <1>1
    <3> QED BY <3>1, <3>2
  <2>2. CASE h.nodes[n].step = 1
    BY <1>1, <2>2
  <2> QED BY <2>1, <2>2 DEF IsContiguous
<1> DEFINE p == (i - 1) * h.nodes[n].step
<1>3. Cell(h, n, i) = h.place[n].off + 1 + p
  BY DEF Cell
<1>4. p = i - 1
  BY <1>2
<1> HIDE DEF p
<1> QED BY <1>1, <1>3, <1>4

\* A pair that can be copied: both computed and contiguous, of one length.
Copyable(h, d, s) ==
  /\ d \in h.computed /\ s \in h.computed
  /\ IsContiguous(h, d) /\ IsContiguous(h, s) /\ h.nodes[d].len = h.nodes[s].len

\* A copy leaves in the destination what the source held, even where they overlap.
LEMMA CopyDelivers ==
  ASSUME NEW h, Good(h), NEW d, NEW s, Copyable(h, d, s)
  PROVE  Read(Copy(h, d, s), d) = Read(h, s)
<1> DEFINE at == h.place[d].at
           x == [i \in 1 .. MaxLen |->
                   IF i > h.place[d].off /\ i <= h.place[d].off + h.nodes[d].len
                   THEN h.mem[h.place[s].at][h.place[s].off + (i - h.place[d].off)] ELSE h.mem[at][i]]
           g == Copy(h, d, s)
<1>1. g = [h EXCEPT !.mem[at] = x]
  BY DEF Copy
<1>2. at \in NodeIds(h) /\ IsHeap(h) /\ d \in NodeIds(h) /\ s \in NodeIds(h) /\ Bound(h, d)
  <2>1. d \in NodeIds(h) /\ s \in NodeIds(h) /\ h.computed \subseteq NodeIds(h) /\ IsHeap(h)
    BY DEF Good, Built, IsHeap, Copyable
  <2>2. PlaceOK(h, d) /\ d \in h.computed
    BY <2>1 DEF Good, Stored, Copyable
  <2> QED BY <2>1, <2>2 DEF PlaceOK
<1>3. Writes(h, g, {at}) /\ g.mem[at] = x
  <2> HIDE DEF at, x, g
  <2> QED BY <1>1, <1>2, FieldMem, ZenonT(60)
<1>4. h.place[d].off \in Nat /\ h.place[s].off \in Nat /\ h.nodes[d].len \in Nat /\ h.nodes[s].len = h.nodes[d].len
  <2>1. PlaceOK(h, d) /\ PlaceOK(h, s) /\ NodeOK(h, d)
    BY <1>2 DEF Good, Built, Stored
  <2>2. h.place[d].off \in Nat /\ h.place[s].off \in Nat
    BY <2>1 DEF PlaceOK
  <2>3. h.nodes[d].len \in 1 .. MaxLen /\ MaxLen \in Nat
    BY <2>1, GraphBoundsAssumption DEF NodeOK
  <2> QED BY <2>2, <2>3 DEF Copyable
<1>5. ASSUME NEW i \in 1 .. h.nodes[d].len
      PROVE  x[Cell(h, d, i)] = h.mem[h.place[s].at][Cell(h, s, i)]
  <2>1. Cell(h, d, i) = h.place[d].off + i /\ Cell(h, d, i) \in 1 .. MaxLen
    BY <1>2, CellOfRun, CellBounds DEF Copyable
  <2>2. Cell(h, s, i) = h.place[s].off + i
    BY <1>2, <1>4, CellOfRun DEF Copyable
  <2>3. Cell(h, d, i) > h.place[d].off /\ Cell(h, d, i) <= h.place[d].off + h.nodes[d].len
        /\ Cell(h, d, i) - h.place[d].off = i
    BY <1>4, <2>1
  <2> DEFINE c == Cell(h, d, i)
  <2>4. x[c] = h.mem[h.place[s].at][h.place[s].off + (c - h.place[d].off)]
    <3> HIDE DEF c
    <3> QED BY <2>1, <2>3 DEF c
  <2> QED BY <2>2, <2>3, <2>4
<1>6. \A i \in 1 .. h.nodes[d].len : Cell(g, d, i) = Cell(h, d, i)
  BY <1>3 DEF Writes, Cell
<1>7. g.nodes[d] = h.nodes[d] /\ g.place[d].at = at
  BY <1>3 DEF Writes
<1> HIDE DEF g, x
<1>8. ASSUME NEW i \in 1 .. h.nodes[d].len
      PROVE  g.mem[g.place[d].at][Cell(g, d, i)] = h.mem[h.place[s].at][Cell(h, s, i)]
  BY <1>3, <1>5, <1>6, <1>7
<1> HIDE DEF at
<1>9. Read(g, d) = Read(h, s)
  BY <1>4, <1>7, <1>8 DEF Read
<1> QED BY <1>9 DEF g

\* Two regions that are not found to overlap share no cell.
LEMMA ApartIsApart ==
  ASSUME NEW h, Good(h), NEW d, NEW s, Copyable(h, d, s), ~Overlap(h, d, s)
  PROVE  BatchCopy(h, d, s) = Copy(h, d, s)
<1>1. d \in NodeIds(h) /\ s \in NodeIds(h)
  BY DEF Good, Built, IsHeap, Copyable
<1>2. h.place[d].off \in Nat /\ h.place[s].off \in Nat /\ h.nodes[d].len \in Nat /\ h.nodes[s].len = h.nodes[d].len
  <2>1. PlaceOK(h, d) /\ PlaceOK(h, s) /\ NodeOK(h, d)
    BY <1>1 DEF Good, Built, Stored
  <2>2. h.place[d].off \in Nat /\ h.place[s].off \in Nat
    BY <2>1 DEF PlaceOK
  <2>3. h.nodes[d].len \in 1 .. MaxLen /\ MaxLen \in Nat
    BY <2>1, GraphBoundsAssumption DEF NodeOK
  <2> QED BY <2>2, <2>3 DEF Copyable
<1>3. ASSUME NEW i \in 1 .. h.nodes[d].len, NEW j \in 1 .. h.nodes[s].len, h.place[d].at = h.place[s].at
      PROVE  Cell(h, d, i) # Cell(h, s, j)
  <2>1. Cell(h, d, i) = h.place[d].off + i /\ Cell(h, s, j) = h.place[s].off + j
    BY <1>1, CellOfRun DEF Copyable
  <2>2. h.place[d].off >= h.place[s].off + h.nodes[d].len \/ h.place[s].off >= h.place[d].off + h.nodes[d].len
    BY <1>2, <1>3 DEF Overlap
  <2> QED BY <1>2, <2>1, <2>2
<1>4. Cells(h, d) \cap Cells(h, s) = {}
  <2> SUFFICES ASSUME NEW c \in Cells(h, d), c \in Cells(h, s) PROVE FALSE
    OBVIOUS
  <2>1. PICK i \in 1 .. h.nodes[d].len : c = <<h.place[d].at, Cell(h, d, i)>>
    BY DEF Cells
  <2>2. PICK j \in 1 .. h.nodes[s].len : c = <<h.place[s].at, Cell(h, s, j)>>
    BY DEF Cells
  <2>3. h.place[d].at = h.place[s].at /\ Cell(h, d, i) = Cell(h, s, j)
    BY <2>1, <2>2
  <2> QED BY <1>3, <2>3
<1> QED BY <1>4 DEF BatchCopy

\* The pairs of an assign(), ready to be copied, that do not touch each other's memory.
Apart(r, ds, fs) ==
  /\ Good(r)
  /\ \A k \in DOMAIN ds : Copyable(r, ds[k], fs[k])
  /\ \A i, j \in DOMAIN ds : i # j => r.place[ds[i]].at \notin {r.place[ds[j]].at, r.place[fs[j]].at}

\* The pairs of D are copied; the sources of the others are as they were.
Partly(r, g, ds, fs, D) ==
  /\ Overwrites(r, g, {ds[k] : k \in DOMAIN ds})
  /\ \A k \in D : Read(g, ds[k]) = Read(r, fs[k])
  /\ \A k \in DOMAIN ds \ D : Read(g, fs[k]) = Read(r, fs[k])

\* A copy leaves what is in other memory as it was.
LEMMA CopyElsewhere ==
  ASSUME NEW g, Good(g), NEW d \in g.computed, IsContiguous(g, d), NEW s, NEW n \in g.computed,
         g.place[d].at # g.place[n].at
  PROVE  Read(Copy(g, d, s), n) = Read(g, n)
<1>1. Overwrites(g, Copy(g, d, s), {d})
  BY CopyOverwrites
<1>2. Cells(g, d) \cap Cells(g, n) = {}
  BY DEF Cells
<1>3. \A x \in {d} : Cells(g, x) \cap Cells(g, n) = {}
  BY <1>2
<1> DEFINE f == Copy(g, d, s)
<1> HIDE DEF f
<1>4. Overwrites(g, f, {d})
  BY <1>1 DEF f
<1>5. Read(f, n) = Read(g, n)
  BY <1>3, <1>4, OverwritesGood
<1> QED BY <1>5 DEF f

\* One pair more.
LEMMA PairCopied ==
  ASSUME NEW r, NEW ds, NEW fs, Apart(r, ds, fs), NEW g, NEW D \in SUBSET DOMAIN ds, Partly(r, g, ds, fs, D),
         NEW k \in DOMAIN ds \ D
  PROVE  /\ Partly(r, Copy(g, ds[k], fs[k]), ds, fs, D \cup {k})
         /\ ~Overlap(r, ds[k], fs[k]) => BatchCopy(g, ds[k], fs[k]) = Copy(g, ds[k], fs[k])
<1> DEFINE f == Copy(g, ds[k], fs[k])
           W == {ds[j] : j \in DOMAIN ds}
<1>1. Good(g) /\ g.nodes = r.nodes /\ g.place = r.place /\ g.computed = r.computed
  <2>1. Good(r) /\ Overwrites(r, g, W)
    BY DEF Partly, Apart
  <2> HIDE DEF W
  <2>2. Good(g)
    BY <2>1, OverwritesGood
  <2> QED BY <2>1, <2>2 DEF Overwrites
<1>2. \A j \in DOMAIN ds : Copyable(g, ds[j], fs[j])
  BY <1>1 DEF Apart, Copyable, IsContiguous
<1>3. Read(f, ds[k]) = Read(g, fs[k])
  BY <1>1, <1>2, CopyDelivers
<1>4. ASSUME NEW n \in g.computed, r.place[ds[k]].at # r.place[n].at PROVE Read(f, n) = Read(g, n)
  BY <1>1, <1>2, <1>4, CopyElsewhere DEF Copyable
<1>5. Overwrites(g, f, {ds[k]})
  BY <1>1, <1>2, CopyOverwrites DEF Copyable
<1> HIDE DEF f
<1>6. Overwrites(r, f, W)
  <2>1. Overwrites(g, f, W)
    BY <1>5 DEF Overwrites
  <2>2. Overwrites(r, g, W)
    BY DEF Partly
  <2> HIDE DEF W
  <2> QED BY <2>1, <2>2, OverwritesOn
<1>7. ASSUME NEW j \in D \cup {k} PROVE Read(f, ds[j]) = Read(r, fs[j])
  <2>1. CASE j = k
    BY <1>3, <2>1 DEF Partly
  <2>2. CASE j # k
    <3>1. r.place[ds[k]].at # r.place[ds[j]].at /\ ds[j] \in g.computed
      BY <1>2, <2>2 DEF Apart, Copyable
    <3> QED BY <1>4, <2>2, <3>1 DEF Partly
  <2> QED BY <2>1, <2>2
<1>8. ASSUME NEW j \in DOMAIN ds \ (D \cup {k}) PROVE Read(f, fs[j]) = Read(r, fs[j])
  <2>1. r.place[ds[k]].at # r.place[fs[j]].at /\ fs[j] \in g.computed
    BY <1>2 DEF Apart, Copyable
  <2> QED BY <1>4, <2>1 DEF Partly
<1>9. ~Overlap(r, ds[k], fs[k]) => BatchCopy(g, ds[k], fs[k]) = Copy(g, ds[k], fs[k])
  <2>1. Overlap(r, ds[k], fs[k]) <=> Overlap(g, ds[k], fs[k])
    BY <1>1 DEF Overlap
  <2> QED BY <1>1, <1>2, <2>1, ApartIsApart
<1>10. Partly(r, f, ds, fs, D \cup {k})
  BY <1>6, <1>7, <1>8 DEF Partly
<1> QED BY <1>9, <1>10 DEF f

\* A list that names each element of a set once.
Enumerates(q, n, T) ==
  /\ n \in Nat /\ Len(q) = n /\ DOMAIN q = 1 .. n
  /\ T = {q[i] : i \in 1 .. n}
  /\ \A i, j \in 1 .. n : i # j => q[i] # q[j]

\* Copies of pairs, each named once.
LEMMA StepsDeliver ==
  ASSUME NEW r, NEW ds, NEW fs, Apart(r, ds, fs), NEW a, NEW D \in SUBSET DOMAIN ds, Partly(r, a, ds, fs, D),
         NEW T \in SUBSET (DOMAIN ds \ D), NEW ks, NEW n, Enumerates(ks, n, T), NEW what \in {"copy", "batch"},
         what = "batch" => \A k \in T : ~Overlap(r, ds[k], fs[k]),
         NEW g, Steps(what, ds, fs, a, ks, g)
  PROVE  Partly(r, g[n], ds, fs, D \cup T)
<1> DEFINE done(m) == D \cup {ks[i] : i \in 1 .. m}
           good == {m \in 0 .. n : Partly(r, g[m], ds, fs, done(m))}
<1>1. n \in Nat /\ Len(ks) = n
  BY DEF Enumerates
<1>2. 0 \in good
  <2>1. g[0] = a /\ done(0) = D
    BY DEF Steps
  <2>2. Partly(r, g[0], ds, fs, done(0))
    BY <2>1
  <2> HIDE DEF done
  <2> QED BY <1>1, <2>2
<1>3. ASSUME NEW m \in 1 .. n, m - 1 \in good PROVE m \in good
  <2> DEFINE k == ks[m]
             e == g[m - 1]
             E == done(m - 1)
  <2>1. Partly(r, e, ds, fs, E)
    BY <1>3
  <2>2. k \in T /\ E \in SUBSET DOMAIN ds
    BY <1>1 DEF Enumerates
  <2>3. k \notin E
    <3>1. \A i \in 1 .. m - 1 : i \in 1 .. n /\ i # m
      BY <1>1
    <3>2. \A i \in 1 .. m - 1 : ks[i] # ks[m]
      BY <3>1 DEF Enumerates
    <3> QED BY <2>2, <3>2
  <2>4. done(m) = E \cup {k}
    <3>1. 1 .. m = (1 .. m - 1) \cup {m}
      BY <1>1
    <3> QED BY <3>1
  <2>5. g[m] = FoldStep(what, ds, fs, e, k)
    BY <1>1 DEF Steps
  <2> HIDE DEF E, e, k, done
  <2>9. k \in DOMAIN ds \ E
    BY <2>2, <2>3
  <2>6. /\ Partly(r, Copy(e, ds[k], fs[k]), ds, fs, E \cup {k})
        /\ ~Overlap(r, ds[k], fs[k]) => BatchCopy(e, ds[k], fs[k]) = Copy(e, ds[k], fs[k])
    BY <2>1, <2>2, <2>9, PairCopied
  <2>7. g[m] = Copy(e, ds[k], fs[k])
    <3>1. CASE what = "copy"
      BY <2>5, <3>1 DEF FoldStep
    <3>2. CASE what = "batch"
      BY <2>2, <2>5, <2>6, <3>2 DEF FoldStep
    <3> QED BY <3>1, <3>2
  <2>8. Partly(r, g[m], ds, fs, done(m))
    BY <2>4, <2>6, <2>7
  <2> QED BY <1>1, <2>8
<1> HIDE DEF good
<1>4. n \in good
  <2>1. n \in 0 .. n
    BY <1>1
  <2> QED BY <1>1, <1>2, <1>3, <2>1, StepsHold
<1>5. done(n) = D \cup T
  BY DEF Enumerates
<1>6. Partly(r, g[n], ds, fs, done(n))
  BY <1>4 DEF good
<1> QED BY <1>5, <1>6

\* The pairs that overlap, and the others.
Clashing(h, ds, fs) == {k \in DOMAIN ds : Overlap(h, ds[k], fs[k])}
Clear(h, ds, fs) == {k \in DOMAIN ds : ~Overlap(h, ds[k], fs[k])}

\* The pairs of a call, sorted into those that overlap and those that do not.
LEMMA SortedPairs ==
  ASSUME NEW h, NEW ds, NEW fs, Len(ds) \in Nat, DOMAIN ds = 1 .. Len(ds)
  PROVE  /\ Enumerates(StagedPairs(h, ds, fs), Len(StagedPairs(h, ds, fs)), Clashing(h, ds, fs))
         /\ Enumerates(BatchPairs(h, ds, fs), Len(BatchPairs(h, ds, fs)), Clear(h, ds, fs))
<1>1. Len(Numbers(ds)) = Len(ds) /\ DOMAIN Numbers(ds) = 1 .. Len(Numbers(ds))
      /\ \A k \in DOMAIN ds : Numbers(ds)[k] = k
  BY DEF Numbers
<1> DEFINE ctx == [heap |-> h, dst |-> ds]
           Takes(what, k) == IF what = "staged" THEN Overlap(h, ds[k], fs[k]) ELSE ~Overlap(h, ds[k], fs[k])
<1>2. PICK g : Steps("staged", ctx, fs, <<>>, Numbers(ds), g) /\ g[Len(ds)] = StagedPairs(h, ds, fs)
  BY <1>1, StagedSteps
<1>3. PICK f : Steps("batched", ctx, fs, <<>>, Numbers(ds), f) /\ f[Len(ds)] = BatchPairs(h, ds, fs)
  BY <1>1, BatchedSteps
<1>4. ASSUME NEW what \in {"staged", "batched"}, NEW e, Steps(what, ctx, fs, <<>>, Numbers(ds), e)
      PROVE  Enumerates(e[Len(ds)], Len(e[Len(ds)]), {k \in DOMAIN ds : Takes(what, k)})
  <2> DEFINE Inv(k) == /\ e[k] \in Seq(1 .. k)
                       /\ Enumerates(e[k], Len(e[k]), {j \in 1 .. k : Takes(what, j)})
             good == {k \in 0 .. Len(ds) : Inv(k)}
  <2>1. 0 \in good
    <3>1. e[0] = <<>>
      BY <1>4 DEF Steps
    <3>2. e[0] \in Seq(1 .. 0) /\ Len(e[0]) = 0 /\ DOMAIN e[0] = 1 .. 0
      BY <3>1, EmptySeq
    <3>3. Enumerates(e[0], Len(e[0]), {j \in 1 .. 0 : Takes(what, j)})
      <4>1. {j \in 1 .. 0 : Takes(what, j)} = {} /\ {e[0][i] : i \in 1 .. 0} = {}
        OBVIOUS
      <4> QED BY <3>2, <4>1 DEF Enumerates
    <3>4. Inv(0)
      BY <3>2, <3>3
    <3> HIDE DEF Inv
    <3> QED BY <3>4
  <2>2. ASSUME NEW k \in 1 .. Len(ds), k - 1 \in good PROVE k \in good
    <3> DEFINE q == e[k - 1]
               S == {j \in 1 .. k - 1 : Takes(what, j)}
               T == {j \in 1 .. k : Takes(what, j)}
    <3>1. Inv(k - 1)
      BY <2>2
    <3>2. e[k] = FoldStep(what, ctx, fs, q, k)
      BY <1>1, <1>4 DEF Steps
    <3>3. e[k] = IF Takes(what, k) THEN Append(q, k) ELSE q
      <4>1. ctx.heap = h /\ ctx.dst = ds
        OBVIOUS
      <4> HIDE DEF ctx, q
      <4>2. CASE what = "staged"
        BY <3>2, <4>1, <4>2 DEF FoldStep
      <4>3. CASE what = "batched"
        BY <3>2, <4>1, <4>3 DEF FoldStep
      <4> QED BY <1>4, <4>2, <4>3
    <3>4. q \in Seq(1 .. k - 1) /\ Enumerates(q, Len(q), S) /\ 1 .. k - 1 \subseteq 1 .. k /\ k \in 1 .. k
      BY <3>1
    <3>5. q \in Seq(1 .. k)
      BY <3>4, SeqMonotonic
    <3> HIDE DEF q
    <3>6. CASE ~Takes(what, k)
      <4>1. e[k] = q
        BY <3>3, <3>6
      <4>2. S = T
        <5>1. \A j \in 1 .. k : j \in 1 .. k - 1 \/ j = k
          OBVIOUS
        <5> HIDE DEF Takes
        <5> QED BY <3>4, <3>6, <5>1
      <4>3. Inv(k)
        BY <3>4, <3>5, <4>1, <4>2
      <4> HIDE DEF Inv
      <4> QED BY <4>3
    <3>7. CASE Takes(what, k)
      <4> DEFINE p == Append(q, k)
                 n == Len(q)
      <4>1. e[k] = p
        BY <3>3, <3>7
      <4>2. p \in Seq(1 .. k) /\ Len(p) = n + 1 /\ n \in Nat /\ DOMAIN p = 1 .. n + 1
        BY <3>4, <3>5, AppendProperties, LenProperties
      <4>3. (\A i \in 1 .. n : p[i] = q[i]) /\ p[n + 1] = k
        BY <3>4, <3>5, AppendProperties
      <4>4. T = S \cup {k}
        <5>1. \A j \in 1 .. k : j \in 1 .. k - 1 \/ j = k
          OBVIOUS
        <5> HIDE DEF Takes
        <5> QED BY <3>4, <3>7, <5>1
      <4>5. S = {q[i] : i \in 1 .. n} /\ \A i, j \in 1 .. n : i # j => q[i] # q[j]
        BY <3>4 DEF Enumerates
      <4>6. k \notin S
        OBVIOUS
      <4> HIDE DEF p, n, S, T
      <4>7. \A i \in 1 .. n + 1 : i \in 1 .. n \/ i = n + 1
        BY <4>2
      <4>8. n + 1 \in 1 .. n + 1 /\ \A i \in 1 .. n : i \in 1 .. n + 1
        BY <4>2
      <4>9. T = {p[i] : i \in 1 .. n + 1}
        BY <4>3, <4>4, <4>5, <4>7, <4>8
      <4>10. ASSUME NEW i \in 1 .. n + 1, NEW j \in 1 .. n + 1, i # j PROVE p[i] # p[j]
        BY <4>3, <4>5, <4>6, <4>7, <4>10
      <4>11. Enumerates(e[k], Len(e[k]), T)
        BY <4>1, <4>2, <4>9, <4>10 DEF Enumerates
      <4>12. Inv(k)
        BY <4>1, <4>2, <4>11 DEF T
      <4> HIDE DEF Inv
      <4> QED BY <4>12
    <3> QED BY <3>6, <3>7
  <2> HIDE DEF good
  <2>3. Len(ds) \in good
    <3>1. Len(ds) \in 0 .. Len(ds)
      OBVIOUS
    <3> QED BY <2>1, <2>2, <3>1, StepsHold
  <2>4. Inv(Len(ds))
    BY <2>3 DEF good
  <2> QED BY <2>4
<1> HIDE DEF ctx
<1>5. Enumerates(g[Len(ds)], Len(g[Len(ds)]), {k \in DOMAIN ds : Takes("staged", k)})
  <2> HIDE DEF Takes
  <2> QED BY <1>2, <1>4
<1>6. Enumerates(f[Len(ds)], Len(f[Len(ds)]), {k \in DOMAIN ds : Takes("batched", k)})
  <2> HIDE DEF Takes
  <2> QED BY <1>3, <1>4
<1>7. /\ {k \in DOMAIN ds : Takes("staged", k)} = Clashing(h, ds, fs)
      /\ {k \in DOMAIN ds : Takes("batched", k)} = Clear(h, ds, fs)
  BY DEF Clashing, Clear
<1> HIDE DEF Takes
<1> QED BY <1>2, <1>3, <1>5, <1>6, <1>7

\* In whatever order the copies of a batch happen, each happens once.
LEMMA OrdersEnumerate ==
  ASSUME NEW m \in Nat, NEW T \in SUBSET (1 .. m), NEW ks, Enumerates(ks, Len(ks), T), NEW q \in BatchOrders(ks)
  PROVE  Enumerates(q, Len(q), T)
<1>1. CASE Backend = "cpu"
  BY <1>1 DEF BatchOrders
<1>2. CASE Backend # "cpu"
  <2> DEFINE c == Cardinality(T)
  <2>1. {ks[i] : i \in DOMAIN ks} = T
    BY DEF Enumerates
  <2>2. q \in SetToSeqs(T)
    BY <1>2, <2>1 DEF BatchOrders
  <2>3. q \in [1 .. c -> T] /\ \A i, j \in 1 .. c : i # j => q[i] # q[j]
    BY <2>2 DEF SetToSeqs
  <2>4. IsFiniteSet(T) /\ c \in Nat
    <3>1. IsFiniteSet(1 .. m)
      BY FS_Interval
    <3> QED BY <3>1, FS_Subset, FS_CardinalityType
  <2>5. Cardinality(1 .. c) = c
    <3> HIDE DEF c
    <3>1. Cardinality(1 .. c) = IF 1 > c THEN 0 ELSE c - 1 + 1
      BY <2>4, FS_Interval
    <3> QED BY <2>4, <3>1
  <2> HIDE DEF c
  <2>6. q \in Injection(1 .. c, T)
    BY <2>3 DEF Injection, IsInjective
  <2>7. q \in Surjection(1 .. c, T)
    BY <2>4, <2>5, <2>6, FS_Injection DEF c
  <2>8. T = {q[i] : i \in 1 .. c}
    <3>1. \A t \in T : \E i \in 1 .. c : q[i] = t
      BY <2>7 DEF Surjection
    <3>2. \A i \in 1 .. c : q[i] \in T
      BY <2>3
    <3> QED BY <3>1, <3>2
  <2>9. Len(q) = c /\ DOMAIN q = 1 .. c
    <3>1. q = [i \in 1 .. c |-> q[i]]
      BY <2>3
    <3>2. Len([i \in 1 .. c |-> q[i]]) = c
      BY <2>4, IsASeq
    <3> QED BY <3>1, <3>2
  <2> QED BY <2>3, <2>4, <2>8, <2>9 DEF Enumerates
<1> QED BY <1>1, <1>2

\* A destination and a flattened source of each pair are among the roots.
LEMMA SourcesAreRoots ==
  ASSUME NEW S, NEW ds \in Seq(S), NEW fs \in Seq(S), Len(fs) = Len(ds)
  PROVE  \A k \in 1 .. Len(ds) : \E i \in 1 .. Len(AssignRoots(ds, fs)) : AssignRoots(ds, fs)[i] = fs[k]
<1> DEFINE q == AssignRoots(ds, fs)
           n == Len(ds)
<1>1. n \in Nat /\ 2 * n \in Nat
  <2>1. n \in Nat
    BY LenProperties
  <2> HIDE DEF n
  <2> QED BY <2>1
<1>2. q = [i \in 1 .. 2 * n |-> IF i % 2 = 1 THEN ds[(i + 1) \div 2] ELSE fs[i \div 2]]
  BY DEF AssignRoots
<1>3. q \in Seq(S) /\ DOMAIN q = 1 .. Len(q) /\ Len(q) \in Nat
  BY RootsOfAssign, LenProperties
<1>4. Len(q) = 2 * n
  <2>1. DOMAIN q = 1 .. 2 * n
    BY <1>2
  <2> DEFINE m == 2 * n
  <2>2. m \in Nat /\ DOMAIN q = 1 .. m /\ DOMAIN q = 1 .. Len(q) /\ Len(q) \in Nat
    BY <1>1, <1>3, <2>1
  <2> HIDE DEF m, q
  <2>3. Len(q) = m
    BY <2>2
  <2> QED BY <2>3 DEF m
<1>5. ASSUME NEW k \in 1 .. n PROVE \E i \in 1 .. 2 * n : q[i] = fs[k]
  <2> HIDE DEF n
  <2>1. 2 * k \in 1 .. 2 * n /\ (2 * k) % 2 # 1 /\ (2 * k) \div 2 = k
    BY <1>1
  <2>2. q[2 * k] = fs[k]
    BY <1>2, <2>1
  <2> QED BY <2>1, <2>2
<1> QED BY <1>4, <1>5

\* What an assign() prepared: the sources flattened, everything realized.
Ready(h, ds, ss, f, fs, r) ==
  /\ Extends(h, f) /\ f.computed = h.computed /\ Good(f)
  /\ Extends(f, r) /\ Solves(f, r) /\ r.nodes = f.nodes /\ Extends(h, r) /\ Good(r)
  /\ \A k \in DOMAIN ds : /\ ds[k] \in r.computed /\ fs[k] \in r.computed
                          /\ FlatOf(h, f, ss[k], fs[k])

\* Everything an assign() needs is evaluated before anything is written.
LEMMA PreparedReady ==
  ASSUME NEW h, Good(h), NEW ds \in Seq(NodeIds(h)), NEW ss \in Seq(NodeIds(h)), Len(ds) = Len(ss)
  PROVE  Ready(h, ds, ss, FlattenAll(h, ss).heap, FlattenAll(h, ss).nodes, Prepared(h, ds, ss))
<1> DEFINE f == FlattenAll(h, ss).heap
           fs == FlattenAll(h, ss).nodes
           roots == AssignRoots(ds, fs)
           r == Prepared(h, ds, ss)
<1>1. /\ Extends(h, f) /\ f.computed = h.computed /\ fs \in Seq(NodeIds(f)) /\ Len(fs) = Len(ds)
  BY FlattenAllGood
<1>2. Good(f) /\ roots \in Seq(NodeIds(f)) /\ Extends(h, r) /\ \A k \in 1 .. Len(ds) : ds[k] \in r.computed
  BY PreparedGood
<1>3. r = Realized(f, roots)
  BY DEF Prepared
<1>4. \A k \in 1 .. Len(ss) : FlatOf(h, f, ss[k], fs[k])
  BY FlattenAllIs
<1>5. DOMAIN ds = 1 .. Len(ds)
  BY LenProperties
<1> HIDE DEF f, fs, r
<1>6. \A k \in 1 .. Len(ds) : \E i \in 1 .. Len(roots) : roots[i] = fs[k]
  <2>1. Extends(f, f)
    BY <1>2, ExtendsSelf
  <2>2. NodeIds(h) \subseteq NodeIds(f)
    BY <1>1, <2>1, ExtendsOn
  <2>3. ds \in Seq(NodeIds(f))
    BY <2>2, SeqMonotonic
  <2> DEFINE S == NodeIds(f)
  <2>4. ds \in Seq(S) /\ fs \in Seq(S) /\ Len(fs) = Len(ds)
    BY <1>1, <2>3
  <2> HIDE DEF S, roots
  <2>5. \A k \in 1 .. Len(ds) :
          \E i \in 1 .. Len(AssignRoots(ds, fs)) : AssignRoots(ds, fs)[i] = fs[k]
    BY <2>4, SourcesAreRoots
  <2> QED BY <2>5 DEF roots
<1> HIDE DEF roots
<1>7. Extends(f, r) /\ r.nodes = f.nodes /\ (\A i \in 1 .. Len(roots) : roots[i] \in r.computed) /\ Solves(f, r)
  BY <1>2, <1>3, RealizedGood, RealizedSolves
<1>8. Good(r)
  BY <1>2 DEF Extends
<1>9. \A k \in DOMAIN ds : fs[k] \in r.computed
  BY <1>5, <1>6, <1>7
<1> QED BY <1>1, <1>2, <1>4, <1>5, <1>7, <1>8, <1>9 DEF Ready, f, fs, r

\* What is realized for an assign() is what the graph before it says.
LEMMA ReadyValues ==
  ASSUME NEW h, Good(h), NEW ds, NEW ss, NEW f, NEW fs, NEW r, Ready(h, ds, ss, f, fs, r)
  PROVE  \A m \in r.computed \cap NodeIds(h) : Read(r, m) = ValueNow(h, m)
<1> DEFINE vf == [x \in NodeIds(f) |-> Read(r, x)]
           vh == [x \in NodeIds(h) |-> Read(r, x)]
<1>1. /\ Extends(h, f) /\ f.computed = h.computed /\ Good(f) /\ Extends(f, r) /\ Solves(f, r)
  BY DEF Ready
<1>2. NodeIds(h) \subseteq NodeIds(f) /\ \A n \in NodeIds(h) : f.nodes[n] = h.nodes[n]
  BY <1>1, ExtendsOn DEF Extends
<1>3. ASSUME NEW m \in r.computed \cap NodeIds(h)
      PROVE  /\ Read(r, m) = ValueOf(h, vh, m)
             /\ m \notin h.computed => \A k \in 1 .. Len(Sources(h, m)) : Sources(h, m)[k] \in r.computed
  <2>1. Read(r, m) = ValueOf(f, vf, m) /\ Sources(f, m) = Sources(h, m) /\ f.nodes[m] = h.nodes[m]
        /\ (m \notin h.computed => \A k \in 1 .. Len(Sources(h, m)) : Sources(h, m)[k] \in r.computed)
    BY <1>1, <1>2 DEF Solves, Sources
  <2>2. NodeOK(h, m)
    BY DEF Good, Built
  <2>3. Sources(h, m) \in Seq(NodeIds(h))
    BY <2>2 DEF NodeOK
  <2>4. DOMAIN Sources(h, m) = 1 .. Len(Sources(h, m))
    BY <2>3, LenProperties
  <2>5. \A k \in DOMAIN Sources(h, m) : vf[Sources(h, m)[k]] = vh[Sources(h, m)[k]]
    <3>1. \A k \in DOMAIN Sources(h, m) : Sources(h, m)[k] \in NodeIds(h)
      BY <2>3, <2>4, ElementOfSeq
    <3> QED BY <1>2, <3>1
  <2>6. CASE m \in h.computed
    <3>1. Read(r, m) = Read(f, m) /\ Read(f, m) = Read(h, m)
      BY <1>1, <2>6 DEF Extends, Keeps
    <3> HIDE DEF vf, vh
    <3> QED BY <2>1, <2>6, <3>1 DEF ValueOf
  <2>7. CASE m \notin h.computed /\ IsView(h, m)
    <3>1. Len(Sources(h, m)) = 1
      BY <2>2, <2>7 DEF NodeOK, ViewOK, Sources
    <3>2. 1 \in 1 .. Len(Sources(h, m))
      BY <3>1
    <3>3. vf[Sources(h, m)[1]] = vh[Sources(h, m)[1]]
      BY <2>4, <2>5, <3>2
    <3>4. IsView(f, m)
      BY <2>1, <2>7 DEF IsView
    <3> HIDE DEF vf, vh
    <3> QED BY <1>1, <2>1, <2>7, <3>3, <3>4 DEF ValueOf
  <2>8. CASE m \notin h.computed /\ ~IsView(h, m)
    <3>1. [k \in DOMAIN Sources(h, m) |-> vf[Sources(h, m)[k]]] = [k \in DOMAIN Sources(h, m) |-> vh[Sources(h, m)[k]]]
      BY <2>5
    <3>2. ~IsView(f, m)
      BY <2>1, <2>8 DEF IsView
    <3>3. \A in : Combine(f, m, in) = Combine(h, m, in)
      BY <2>1 DEF Combine
    <3> HIDE DEF vf, vh
    <3> QED BY <1>1, <2>1, <2>8, <3>1, <3>2, <3>3 DEF ValueOf
  <2> QED BY <2>1, <2>6, <2>7, <2>8
<1>4. Solves(h, r)
  BY <1>3 DEF Solves
<1> QED BY <1>4, SolvedValues

\* A flattened source holds what its source is, and is in memory of its own if it
\* is a copy.
LEMMA ReadySources ==
  ASSUME NEW h, Good(h), NEW ds, NEW ss, NEW f, NEW fs, NEW r, Ready(h, ds, ss, f, fs, r),
         NEW k \in DOMAIN ds, ss[k] \in NodeIds(h)
  PROVE  /\ Read(r, fs[k]) = ValueNow(h, ss[k])
         /\ IsContiguous(r, fs[k]) /\ r.nodes[fs[k]].len = h.nodes[ss[k]].len
         /\ r.place[fs[k]].at = r.place[ss[k]].at \/ r.place[fs[k]].at \notin NodeIds(h)
<1> DEFINE n == fs[k]
           s == ss[k]
<1>1. /\ Extends(h, f) /\ f.computed = h.computed /\ Good(f) /\ Extends(f, r) /\ Solves(f, r) /\ r.nodes = f.nodes
      /\ n \in r.computed /\ FlatOf(h, f, s, n) /\ Good(r)
  BY DEF Ready
<1>2. NodeIds(h) \subseteq NodeIds(f) /\ NodeIds(r) = NodeIds(f) /\ \A m \in NodeIds(h) : f.nodes[m] = h.nodes[m]
  BY <1>1, ExtendsOn DEF Extends, NodeIds
<1>3. \A m \in r.computed \cap NodeIds(h) : Read(r, m) = ValueNow(h, m)
  BY ReadyValues
<1>4. CASE n = s /\ IsContiguous(h, s)
  BY <1>1, <1>2, <1>3, <1>4 DEF IsContiguous
<1>5. CASE n \notin NodeIds(h) /\ n \in NodeIds(f) /\ f.nodes[n] = Owning("contiguous", <<s>>, h.nodes[s].len, 1)
  <2> DEFINE v == [x \in NodeIds(f) |-> Read(r, x)]
  <2>1. f.nodes[n].kind = "contiguous" /\ Sources(f, n) = <<s>> /\ f.nodes[n].len = h.nodes[s].len
        /\ f.nodes[n].step = 1
    BY <1>5 DEF Owning, Sources
  <2>2. n \notin f.computed
    BY <1>1, <1>5 DEF Good, Built, IsHeap
  <2>3. Read(r, n) = ValueOf(f, v, n) /\ \A j \in 1 .. Len(Sources(f, n)) : Sources(f, n)[j] \in r.computed
    BY <1>1, <1>5, <2>2 DEF Solves
  <2>4. s \in r.computed
    <3>1. 1 \in 1 .. Len(Sources(f, n)) /\ Sources(f, n)[1] = s
      BY <2>1
    <3> QED BY <2>3, <3>1
  <2> DEFINE in == [j \in DOMAIN Sources(f, n) |-> v[Sources(f, n)[j]]]
  <2>5. in[1] = Read(r, s)
    <3>1. 1 \in DOMAIN Sources(f, n) /\ Sources(f, n)[1] = s
      BY <2>1
    <3>2. v[s] = Read(r, s)
      BY <1>2
    <3> HIDE DEF v
    <3> QED BY <3>1, <3>2
  <2>6. Read(r, n) = Combine(f, n, in)
    <3> HIDE DEF v
    <3>1. ~IsView(f, n)
      BY <2>1 DEF IsView
    <3> QED BY <2>2, <2>3, <3>1 DEF ValueOf
  <2> HIDE DEF in
  <2>7. Combine(f, n, in) = [i \in 1 .. h.nodes[s].len |-> Read(r, s)[i]]
    BY <2>1, <2>5 DEF Combine
  <2>8. Read(r, s) = [i \in 1 .. h.nodes[s].len |-> Read(r, s)[i]]
    <3>1. r.nodes[s].len = h.nodes[s].len
      BY <1>1, <1>2
    <3> QED BY <3>1 DEF Read
  <2>9. Read(r, n) = ValueNow(h, s)
    BY <1>3, <2>4, <2>6, <2>7, <2>8
  <2>10. r.place[n].at = n
    <3>1. PlaceOK(r, n)
      BY <1>1, <1>2, <1>5 DEF Good, Stored
    <3>2. HasKernel(r, n)
      BY <1>1, <2>1 DEF HasKernel
    <3>3. Bound(r, n)
      BY <1>1, <3>1 DEF PlaceOK
    <3>4. r.place[n] = [at |-> n, off |-> 0]
      BY <3>1, <3>2, <3>3 DEF PlaceOK
    <3> QED BY <3>4
  <2> QED BY <1>1, <1>5, <2>1, <2>9, <2>10 DEF IsContiguous
<1> QED BY <1>1, <1>4, <1>5 DEF FlatOf

\* What AssignDelivers says of an assign() that returned.
Delivered(h, o, ds, ss) ==
  /\ \A k \in DOMAIN ds : Read(o, ds[k]) = ValueNow(h, ss[k])
  /\ \A n \in NodeIds(h) \cap o.computed :
       \/ Read(o, n) = ValueNow(h, n)
       \/ \E k \in DOMAIN ds : Cells(o, ds[k]) \cap Cells(o, n) # {}

\* The copies of an assign(), staged and then in a batch, copy every pair.
LEMMA AllCopied ==
  ASSUME NEW r, NEW ds, NEW fs, Apart(r, ds, fs), Len(ds) \in Nat, DOMAIN ds = 1 .. Len(ds),
         NEW ks \in BatchOrders(BatchPairs(r, ds, fs))
  PROVE  Partly(r, BatchAll(CopyAll(r, ds, fs, StagedPairs(r, ds, fs)), ds, fs, ks), ds, fs, DOMAIN ds)
<1> DEFINE sp == StagedPairs(r, ds, fs)
           bp == BatchPairs(r, ds, fs)
           S == Clashing(r, ds, fs)
           T == Clear(r, ds, fs)
           a == CopyAll(r, ds, fs, sp)
<1>1. Enumerates(sp, Len(sp), S) /\ Enumerates(bp, Len(bp), T)
  BY SortedPairs
<1>2. S \in SUBSET DOMAIN ds /\ T \in SUBSET (DOMAIN ds \ S) /\ S \cup T = DOMAIN ds
      /\ \A k \in T : ~Overlap(r, ds[k], fs[k])
  BY DEF Clashing, Clear
<1> HIDE DEF S, T, sp, bp
<1>3. Enumerates(ks, Len(ks), T)
  <2>1. T \in SUBSET (1 .. Len(ds)) /\ ks \in BatchOrders(bp)
    BY <1>2 DEF bp
  <2> QED BY <1>1, <2>1, OrdersEnumerate
<1>4. Partly(r, r, ds, fs, {})
  <2>1. Overwrites(r, r, {ds[k] : k \in DOMAIN ds})
    BY DEF Overwrites, Apart, Good, Built
  <2> QED BY <2>1 DEF Partly
<1>5. Partly(r, a, ds, fs, S)
  <2>1. Len(sp) \in Nat /\ DOMAIN sp = 1 .. Len(sp)
    BY <1>1 DEF Enumerates
  <2>2. PICK g : Steps("copy", ds, fs, r, sp, g) /\ g[Len(sp)] = a
    BY <2>1, CopySteps
  <2>3. {} \in SUBSET DOMAIN ds /\ S \in SUBSET (DOMAIN ds \ {}) /\ {} \cup S = S
    BY <1>2
  <2>4. Partly(r, g[Len(sp)], ds, fs, {} \cup S)
    <3> HIDE DEF a
    <3> QED BY <1>1, <1>4, <2>2, <2>3, StepsDeliver
  <2> QED BY <2>2, <2>3, <2>4
<1> HIDE DEF a
<1>6. Partly(r, BatchAll(a, ds, fs, ks), ds, fs, S \cup T)
  <2>1. Len(ks) \in Nat /\ DOMAIN ks = 1 .. Len(ks)
    BY <1>3 DEF Enumerates
  <2>2. PICK g : Steps("batch", ds, fs, a, ks, g) /\ g[Len(ks)] = BatchAll(a, ds, fs, ks)
    BY <2>1, BatchSteps
  <2>3. Partly(r, g[Len(ks)], ds, fs, S \cup T)
    BY <1>2, <1>3, <1>5, <2>2, StepsDeliver
  <2> QED BY <2>2, <2>3
<1> QED BY <1>2, <1>6 DEF a, sp

\* assign(), when it returns and its pairs do not touch each other's memory.
LEMMA AssignedDelivers ==
  ASSUME NEW h, Good(h), NEW ds \in Seq(NodeIds(h)), NEW ss \in Seq(NodeIds(h)), Len(ds) = Len(ss),
         \A k \in DOMAIN ds : Valid(h, ds[k], ss[k]), NEW o \in Assigned(h, ds, ss), Independent(o, ds, ss)
  PROVE  Delivered(h, o, ds, ss)
<1> DEFINE f == FlattenAll(h, ss).heap
           fs == FlattenAll(h, ss).nodes
           r == Prepared(h, ds, ss)
           sp == StagedPairs(r, ds, fs)
           D == {ds[k] : k \in DOMAIN ds}
<1>1. PICK ks \in BatchOrders(BatchPairs(r, ds, fs)) : o = OnReturn(h, BatchAll(CopyAll(r, ds, fs, sp), ds, fs, ks))
  BY DEF Assigned, Prepared
<1> DEFINE g == BatchAll(CopyAll(r, ds, fs, sp), ds, fs, ks)
<1>2. Len(ds) \in Nat /\ DOMAIN ds = 1 .. Len(ds) /\ DOMAIN ss = DOMAIN ds
  BY LenProperties
<1>3. \A k \in DOMAIN ds : ds[k] \in NodeIds(h) /\ ss[k] \in NodeIds(h)
  BY <1>2, ElementOfSeq
<1>4. Ready(h, ds, ss, f, fs, r)
  BY PreparedReady
<1>5. \A k \in DOMAIN ds : IsContiguous(h, ds[k]) /\ h.nodes[ds[k]].len = h.nodes[ss[k]].len
  BY DEF Valid
<1>6. Spared(h, o, ds)
  BY <1>5, AssignedSpared
<1> HIDE DEF f, fs, r
<1>7. Good(r) /\ Extends(h, r) /\ \A k \in DOMAIN ds : ds[k] \in r.computed /\ fs[k] \in r.computed
  BY <1>4 DEF Ready
<1>8. /\ \A m \in r.computed \cap NodeIds(h) : Read(r, m) = ValueNow(h, m)
      /\ \A n \in NodeIds(h) : r.nodes[n] = h.nodes[n]
  BY <1>4, <1>7, ReadyValues DEF Extends
<1>9. \A k \in DOMAIN ds : Copyable(r, ds[k], fs[k])
  <2> SUFFICES ASSUME NEW k \in DOMAIN ds PROVE Copyable(r, ds[k], fs[k])
    OBVIOUS
  <2>1. IsContiguous(r, fs[k]) /\ r.nodes[fs[k]].len = h.nodes[ss[k]].len
    BY <1>3, <1>4, ReadySources
  <2>2. IsContiguous(r, ds[k]) /\ r.nodes[ds[k]].len = h.nodes[ds[k]].len
    BY <1>3, <1>5, <1>8 DEF IsContiguous
  <2> QED BY <1>5, <1>7, <2>1, <2>2 DEF Copyable
\* The places an assign() leaves are those it copied in.
<1>10. o.nodes = h.nodes /\ o.computed \subseteq r.computed /\ (\A n \in NodeIds(h) : o.place[n] = r.place[n])
       /\ ((Overwrites(r, g, D) /\ Good(g)) => \A n \in NodeIds(h) : Bound(g, n) => Read(o, n) = Read(g, n))
       /\ NodeIds(h) \subseteq NodeIds(r) /\ h.computed \subseteq NodeIds(h)
  <2>1. Writable(r, ds, sp) /\ Writable(r, ds, ks)
    <3>1. sp \in Seq(DOMAIN ds) /\ BatchPairs(r, ds, fs) \in Seq(DOMAIN ds)
      BY <1>2, PairsOf
    <3>2. ks \in Seq(DOMAIN ds)
      BY <1>1, <1>2, <3>1, OrdersOf
    <3> HIDE DEF sp
    <3> QED BY <1>5, <1>7, <3>1, <3>2, PreparedWritable
  <2> DEFINE a == CopyAll(r, ds, fs, sp)
  <2> HIDE DEF sp
  <2>2. Overwrites(r, a, D) /\ Good(a)
    <3>1. Overwrites(r, a, D)
      BY <1>7, <2>1, CopiesOverwrite
    <3> HIDE DEF a, D
    <3> QED BY <1>7, <3>1, OverwritesGood
  <2> HIDE DEF a
  <2>3. Writable(a, ds, ks)
    BY <2>1, <2>2 DEF Overwrites, Writable, IsContiguous
  <2>4. Overwrites(a, BatchAll(a, ds, fs, ks), D)
    BY <2>2, <2>3, CopiesOverwrite
  <2>5. g = BatchAll(a, ds, fs, ks)
    BY DEF a
  <2> HIDE DEF g, D
  <2>6. Overwrites(r, g, D)
    BY <2>2, <2>4, <2>5, OverwritesOn
  <2>7. Good(g)
    BY <1>7, <2>6, OverwritesGood
  <2>8. g.nodes = r.nodes /\ g.place = r.place /\ g.computed = r.computed
    BY <2>6 DEF Overwrites
  <2>9. Begins(h, g)
    BY <1>7, <2>7, <2>8 DEF Begins, Extends
  <2>10. o = OnReturn(h, g)
    BY <1>1 DEF g, sp
  <2>11. /\ o.nodes = h.nodes /\ o.computed = g.computed \cap NodeIds(h) /\ \A n \in NodeIds(h) : o.place[n] = g.place[n]
         /\ \A n \in NodeIds(h) : Bound(g, n) => Read(o, n) = Read(g, n)
    BY <2>9, <2>10, OnReturnGood
  <2>12. NodeIds(h) \subseteq NodeIds(r) /\ h.computed \subseteq NodeIds(h)
    <3>1. Extends(r, r)
      BY <1>7, ExtendsSelf
    <3> QED BY <1>7, <3>1, ExtendsOn DEF Good, Built, IsHeap
  <2> QED BY <2>8, <2>11, <2>12
<1>11. Good(o) /\ NodeIds(o) = NodeIds(h)
  BY <1>6, <1>10 DEF Spared, NodeIds
<1>12. Apart(r, ds, fs)
  <2> SUFFICES ASSUME NEW i \in DOMAIN ds, NEW j \in DOMAIN ds, i # j
               PROVE  r.place[ds[i]].at \notin {r.place[ds[j]].at, r.place[fs[j]].at}
    BY <1>7, <1>9 DEF Apart
  <2>1. o.place[ds[i]].at \notin Touches(o, ds[j]) /\ o.place[ds[i]].at \notin Touches(o, ss[j])
    BY DEF Independent
  <2>2. o.place[ds[j]].at \in Touches(o, ds[j]) /\ o.place[ss[j]].at \in Touches(o, ss[j])
    BY <1>3, <1>11, TouchesOwn DEF Good
  <2>3. r.place[ds[i]].at # r.place[ds[j]].at /\ r.place[ds[i]].at # r.place[ss[j]].at
    <3>1. o.place[ds[i]] = r.place[ds[i]] /\ o.place[ds[j]] = r.place[ds[j]] /\ o.place[ss[j]] = r.place[ss[j]]
      BY <1>3, <1>10
    <3> QED BY <2>1, <2>2, <3>1
  <2>4. r.place[fs[j]].at = r.place[ss[j]].at \/ r.place[fs[j]].at \notin NodeIds(h)
    BY <1>3, <1>4, ReadySources
  <2>5. r.place[ds[i]].at \in NodeIds(h)
    <3>1. PlaceOK(o, ds[i]) /\ o.place[ds[i]] = r.place[ds[i]] /\ ds[i] \in 1 .. Len(h.nodes)
          /\ NodeIds(h) = 1 .. Len(h.nodes) /\ Len(h.nodes) \in Nat
      BY <1>3, <1>10, <1>11, HeapIds DEF Good, Built, Stored
    <3>2. r.place[ds[i]].at \in 0 .. ds[i]
      BY <3>1 DEF PlaceOK
    <3>3. r.place[ds[i]].at # 0
      BY <1>3, <1>7, <1>10 DEF Good, Stored, PlaceOK, Bound
    <3>4. r.place[ds[i]].at \in 1 .. Len(h.nodes)
      <4> DEFINE at == r.place[ds[i]].at
                 n == Len(h.nodes)
      <4>1. at \in 0 .. ds[i] /\ at # 0 /\ ds[i] \in 1 .. n /\ n \in Nat
        BY <3>1, <3>2, <3>3
      <4> HIDE DEF at, n
      <4>2. at \in 1 .. n
        BY <4>1
      <4> QED BY <4>2 DEF at, n
    <3> QED BY <3>1, <3>4
  <2> QED BY <2>3, <2>4, <2>5
<1>13. Partly(r, g, ds, fs, DOMAIN ds)
  <2> HIDE DEF sp
  <2> QED BY <1>1, <1>2, <1>12, AllCopied DEF sp
<1> HIDE DEF g, sp
<1>14. Overwrites(r, g, D) /\ \A k \in DOMAIN ds : Read(g, ds[k]) = Read(r, fs[k])
  BY <1>13 DEF Partly
<1>15. Good(g) /\ (\A n \in r.computed : (\A d \in D : Cells(r, d) \cap Cells(r, n) = {}) => Read(g, n) = Read(r, n))
  <2> HIDE DEF D
  <2> QED BY <1>7, <1>14, OverwritesGood
<1>16. \A n \in r.computed \cap NodeIds(h) : Read(o, n) = Read(g, n)
  <2> SUFFICES ASSUME NEW n \in r.computed \cap NodeIds(h) PROVE Read(o, n) = Read(g, n)
    OBVIOUS
  <2>1. Bound(r, n)
    BY <1>7, <1>10 DEF Good, Stored, PlaceOK
  <2>2. Bound(g, n)
    BY <1>14, <2>1 DEF Overwrites, Bound
  <2> HIDE DEF D
  <2> QED BY <1>10, <1>14, <1>15, <2>2
<1>17. \A k \in DOMAIN ds : Read(o, ds[k]) = ValueNow(h, ss[k])
  <2> SUFFICES ASSUME NEW k \in DOMAIN ds PROVE Read(o, ds[k]) = ValueNow(h, ss[k])
    OBVIOUS
  <2>1. Read(r, fs[k]) = ValueNow(h, ss[k])
    BY <1>3, <1>4, ReadySources
  <2>2. Read(o, ds[k]) = Read(g, ds[k])
    BY <1>3, <1>7, <1>16
  <2> QED BY <1>14, <2>1, <2>2
<1>18. ASSUME NEW n \in NodeIds(h) \cap o.computed, \A k \in DOMAIN ds : Cells(o, ds[k]) \cap Cells(o, n) = {}
       PROVE  Read(o, n) = ValueNow(h, n)
  <2>1. \A m \in NodeIds(h) : Cells(o, m) = Cells(r, m)
    BY <1>8, <1>10 DEF Cells, Cell
  <2>2. \A d \in D : Cells(r, d) \cap Cells(r, n) = {}
    BY <1>3, <1>18, <2>1
  <2>3. n \in r.computed
    BY <1>10
  <2> HIDE DEF D
  <2> QED BY <1>8, <1>15, <1>16, <2>2, <2>3
<1> QED BY <1>17, <1>18 DEF Delivered

\* What AssignDelivers says of one step.
DeliveredRight ==
  (last'.call = "assigned" /\ Independent(heap', last'.ds, last'.ss)) => Delivered(heap, heap', last'.ds, last'.ss)

\* Every step is right in that.
LEMMA DeliverStep ==
  ASSUME LazyInv, LazyNext
  PROVE  DeliveredRight
<1>0. Good(heap)
  BY DEF LazyInv, Good
<1>1. ASSUME NEW h, Build(h) PROVE DeliveredRight
  <2>1. last'.call = "none"
    BY <1>1 DEF Build, Quiet
  <2> QED BY <2>1 DEF DeliveredRight
<1>2. CASE NewLeaf
  BY <1>1, <1>2 DEF NewLeaf
<1>3. CASE \E srcs \in Lists(NodeIds(heap), 2) : NewOp(srcs)
  BY <1>1, <1>3 DEF NewOp
<1>4. CASE \E b \in NodeIds(heap) : NewSlice(b)
  BY <1>1, <1>4 DEF NewSlice
<1>5. CASE \E b \in NodeIds(heap) : NewBroadcast(b)
  BY <1>1, <1>5 DEF NewBroadcast
<1>6. CASE \E b \in NodeIds(heap) : NewContiguous(b)
  BY <1>1, <1>6 DEF NewContiguous
<1>7. CASE \E roots \in Lists(NodeIds(heap), 2) : Realize(roots)
  BY <1>1, <1>7 DEF Realize
<1>8. CASE \E roots \in Lists(NodeIds(heap), 2) : RealizeFails(roots)
  BY <1>1, <1>8 DEF RealizeFails
<1>9. CASE \E n \in NodeIds(heap) : Detach(n)
  BY <1>1, <1>9 DEF Detach
<1>10. ASSUME NEW k \in 1 .. MaxBatch, NEW ds \in [1 .. k -> NodeIds(heap)], NEW ss \in [1 .. k -> NodeIds(heap)],
              Assign(ds, ss) \/ AssignRejected(ds, ss) \/ AssignFails(ds, ss)
       PROVE  DeliveredRight
  <2>1. CASE Assign(ds, ss)
    <3>1. ds \in Seq(NodeIds(heap)) /\ ss \in Seq(NodeIds(heap)) /\ Len(ds) = Len(ss)
      BY PairsAreLists
    <3>2. PICK h \in Assigned(heap, ds, ss) : Finish(h, ds, ss, "assigned")
      BY <2>1 DEF Assign
    <3>3. \A j \in DOMAIN ds : Valid(heap, ds[j], ss[j])
      BY <2>1 DEF Assign, AllValid
    <3>4. heap' = h /\ last'.ds = ds /\ last'.ss = ss
      BY <3>2 DEF Finish
    <3>5. Independent(h, ds, ss) => Delivered(heap, h, ds, ss)
      BY <1>0, <3>1, <3>2, <3>3, AssignedDelivers
    <3> QED BY <3>4, <3>5 DEF DeliveredRight
  <2>2. CASE AssignRejected(ds, ss) \/ AssignFails(ds, ss)
    <3>1. last'.call # "assigned"
      BY <2>2 DEF AssignRejected, AssignFails, Finish
    <3> QED BY <3>1 DEF DeliveredRight
  <2> QED BY <1>10, <2>1, <2>2
<1> QED BY <1>2, <1>3, <1>4, <1>5, <1>6, <1>7, <1>8, <1>9, <1>10 DEF LazyNext

\* An assign() of pairs that do not touch each other's memory leaves in every
\* destination what its source would have evaluated to, in whatever order the
\* copies of its batch happen (tensor.cpp:336-441, vk_backend.cpp), for graphs,
\* views and batches of any size and either backend.
THEOREM AssignsDeliver == LazySpec => AssignDelivers
<1>1. LazyInv /\ [LazyNext]_lvars => [DeliveredRight]_lvars
  BY DeliverStep
<1>2. LazySpec => [][DeliveredRight]_lvars
  BY <1>1, HeapsAreSound, PTL DEF LazySpec
<1> QED BY <1>2 DEF AssignDelivers, DeliveredRight, Delivered
=============================================================================
