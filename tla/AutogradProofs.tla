---------------------------- MODULE AutogradProofs ----------------------------
(***************************************************************************)
(* Proofs about Autograd: for graphs of any size and shape, backward()     *)
(* adds to each leaf the whole derivative of the root.                     *)
(***************************************************************************)
EXTENDS LazyProofs, Autograd

Size == GraphLeaves + GraphOps
TapeOK ==
  /\ tape \in [Operation -> GraphNode \X GraphNode]
  /\ \A n \in Operation : \A i \in 1 .. 2 : tape[n][i] < n
AgInv ==
  /\ TapeOK
  /\ requires \subseteq GraphNode
  /\ leafGrad \in [Leaf -> Int]
  /\ backwards \in Nat /\ regraded \in Nat

\* The nodes are numbered, leaves first.
LEMMA NodesNumbered ==
  /\ Size \in Nat /\ GraphNode = 1 .. Size
  /\ Leaf \subseteq GraphNode /\ Operation \subseteq GraphNode /\ Leaf \cap Operation = {}
<1>1. GraphLeaves \in Nat /\ GraphOps \in Nat
  BY AutogradBounds
<1> QED BY <1>1 DEF Size, GraphNode, Leaf, Operation

-----------------------------------------------------------------------------
(* The order of the sweep.                                                 *)

\* The graph that backward() walks, for the search of topological_order().
Graph == [nodes |-> [n \in GraphNode |-> [src |-> Contributing(n)]], computed |-> {}]

\* What a node contributes to: those of its sources that require a gradient.
LEMMA ContributingSources ==
  ASSUME AgInv, NEW n \in GraphNode
  PROVE  /\ Contributing(n) \in Seq(GraphNode)
         /\ \A i \in 1 .. Len(Contributing(n)) : Contributing(n)[i] < n
         /\ n \in Operation => \A i \in 1 .. 2 : tape[n][i] \in requires =>
              \E j \in 1 .. Len(Contributing(n)) : Contributing(n)[j] = tape[n][i]
<1>1. CASE n \in Leaf
  <2>1. Contributing(n) = <<>> /\ n \notin Operation
    BY <1>1, NodesNumbered DEF Contributing
  <2> QED BY <2>1
<1>2. CASE n \notin Leaf
  <2> DEFINE a == tape[n][1]
             b == tape[n][2]
             p == IfRequires(a)
             q == IfRequires(b)
  <2>1. n \in Operation
    BY <1>2 DEF GraphNode
  <2>2. a \in GraphNode /\ b \in GraphNode /\ a < n /\ b < n
    BY <2>1 DEF AgInv, TapeOK
  <2> HIDE DEF a, b
  <2>3. /\ p \in Seq(GraphNode) /\ (\A i \in 1 .. Len(p) : p[i] < n) /\ Len(p) \in 0 .. 1
        /\ a \in requires => Len(p) = 1 /\ p[1] = a
    BY <2>2 DEF IfRequires
  <2>4. /\ q \in Seq(GraphNode) /\ (\A i \in 1 .. Len(q) : q[i] < n) /\ Len(q) \in 0 .. 1
        /\ b \in requires => Len(q) = 1 /\ q[1] = b
    BY <2>2 DEF IfRequires
  <2>5. Contributing(n) = p \o q
    BY <1>2 DEF Contributing, a, b
  <2> HIDE DEF p, q
  <2> DEFINE c == p \o q
  <2>6. /\ c \in Seq(GraphNode) /\ Len(c) = Len(p) + Len(q)
        /\ \A i \in 1 .. Len(p) + Len(q) : c[i] = IF i <= Len(p) THEN p[i] ELSE q[i - Len(p)]
    BY <2>3, <2>4, ConcatProperties, Zenon
  <2> HIDE DEF c
  <2>7. \A i \in 1 .. Len(c) : c[i] < n
    BY <2>3, <2>4, <2>6
  <2>8. ASSUME a \in requires PROVE 1 \in 1 .. Len(c) /\ c[1] = a
    <3>1. Len(p) = 1 /\ p[1] = a /\ 1 \in 1 .. Len(p) + Len(q) /\ 1 <= Len(p)
      BY <2>3, <2>4, <2>8
    <3>2. c[1] = p[1]
      BY <2>6, <3>1
    <3> QED BY <2>6, <3>1, <3>2
  <2>9. ASSUME b \in requires PROVE Len(p) + 1 \in 1 .. Len(c) /\ c[Len(p) + 1] = b
    <3>1. /\ Len(q) = 1 /\ q[1] = b /\ Len(p) + 1 \in 1 .. Len(p) + Len(q)
          /\ ~(Len(p) + 1 <= Len(p)) /\ Len(p) + 1 - Len(p) = 1
      BY <2>3, <2>4, <2>9
    <3>2. c[Len(p) + 1] = q[1]
      BY <2>6, <3>1
    <3> QED BY <2>6, <3>1, <3>2
  <2>10. ASSUME NEW i \in 1 .. 2, tape[n][i] \in requires
         PROVE  \E j \in 1 .. Len(c) : c[j] = tape[n][i]
    <3>1. CASE i = 1
      BY <3>1, <2>8, <2>10 DEF a
    <3>2. CASE i = 2
      BY <3>2, <2>9, <2>10 DEF b
    <3> QED BY <3>1, <3>2
  <2> QED BY <2>5, <2>6, <2>7, <2>10 DEF c
<1> QED BY <1>1, <1>2

\* The search goes from a node to older ones.
LEMMA GraphAcyclic ==
  ASSUME AgInv
  PROVE  Acyclic(Graph) /\ NodeIds(Graph) = GraphNode
<1>1. Size \in Nat /\ GraphNode = 1 .. Size
  BY NodesNumbered
<1>2. DOMAIN Graph.nodes = 1 .. Size /\ Len(Graph.nodes) = Size
  BY <1>1 DEF Graph
<1>3. \A n \in GraphNode : Sources(Graph, n) = Contributing(n)
  BY DEF Graph, Sources
<1>4. NodeIds(Graph) = 1 .. Size
  BY <1>2 DEF NodeIds
<1> QED BY <1>1, <1>2, <1>3, <1>4, ContributingSources DEF Acyclic

\* The search of autograd_order(), as it is written there.
WalkRule(f) ==
  [s \in Seq(GraphNode) \X Seq(GraphNode) |->
     LET stack == s[1]  done == s[2]  n == Head(stack) IN
     IF stack = <<>> THEN done
     ELSE IF n \in ToSet(done) THEN f[<<Tail(stack), done>>]
     ELSE IF ToSet(Contributing(n)) \subseteq ToSet(done)
          THEN f[<<Tail(stack), Append(done, n)>>]
     ELSE f[<<Contributing(n) \o stack, done>>]]
Walk == CHOOSE f : f = WalkRule(f)

\* The steps of the two searches are the same: a source that contributes no
\* gradient is to the one what a computed node is to the other.
LEMMA SameSearch ==
  ASSUME AgInv, NEW root \in GraphNode
  PROVE  AutogradOrder(root) = Order(Graph, <<root>>)
<1> DEFINE Rule(f) ==
      [s \in Seq(NodeIds(Graph)) \X Seq(NodeIds(Graph)) |->
        LET todo == s[1]  out == s[2]  n == Head(todo) IN
        IF todo = <<>> THEN out
        ELSE IF n \in Visited(Graph, out) THEN f[<<Tail(todo), out>>]
        ELSE IF \A i \in DOMAIN Sources(Graph, n) : Sources(Graph, n)[i] \in Visited(Graph, out)
             THEN f[<<Tail(todo), Append(out, n)>>]
        ELSE f[<<Sources(Graph, n) \o todo, out>>]]
<1>1. NodeIds(Graph) = GraphNode
  BY GraphAcyclic
<1>2. \A out : Visited(Graph, out) = ToSet(out)
  BY DEF Visited, Graph, ToSet
<1>3. \A n \in GraphNode : Sources(Graph, n) = Contributing(n)
  BY DEF Graph, Sources
<1>4. \A n, out : ToSet(Contributing(n)) \subseteq ToSet(out)
        <=> \A i \in DOMAIN Contributing(n) : Contributing(n)[i] \in ToSet(out)
  BY DEF ToSet
<1>5. ASSUME NEW f PROVE Rule(f) = WalkRule(f)
  <2>1. ASSUME NEW s \in Seq(GraphNode) \X Seq(GraphNode) PROVE Rule(f)[s] = WalkRule(f)[s]
    <3>1. CASE s[1] = <<>>
      <4>1. WalkRule(f)[s] = s[2]
        BY <3>1 DEF WalkRule
      <4>2. Rule(f)[s] = s[2]
        BY <1>1, <3>1
      <4> QED BY <4>1, <4>2
    <3>2. CASE s[1] # <<>>
      <4>1. s[1] \in Seq(GraphNode) /\ Head(s[1]) \in GraphNode
        BY <3>2, HeadTailProperties
      <4> DEFINE n == Head(s[1])
      <4> HIDE DEF n
      <4>2. Sources(Graph, n) = Contributing(n)
        BY <1>3, <4>1 DEF n
      <4>3. n \in Visited(Graph, s[2]) <=> n \in ToSet(s[2])
        BY <1>2
      <4>4. (\A i \in DOMAIN Sources(Graph, n) : Sources(Graph, n)[i] \in Visited(Graph, s[2]))
              <=> ToSet(Contributing(n)) \subseteq ToSet(s[2])
        BY <1>2, <1>4, <4>2
      <4>5. CASE n \in ToSet(s[2])
        <5>1. WalkRule(f)[s] = f[<<Tail(s[1]), s[2]>>]
          BY <3>2, <4>5 DEF WalkRule, n
        <5>2. Rule(f)[s] = f[<<Tail(s[1]), s[2]>>]
          BY <1>1, <3>2, <4>3, <4>5 DEF n
        <5> QED BY <5>1, <5>2
      <4>6. CASE n \notin ToSet(s[2]) /\ ToSet(Contributing(n)) \subseteq ToSet(s[2])
        <5>1. WalkRule(f)[s] = f[<<Tail(s[1]), Append(s[2], n)>>]
          BY <3>2, <4>6 DEF WalkRule, n
        <5>2. Rule(f)[s] = f[<<Tail(s[1]), Append(s[2], n)>>]
          BY <1>1, <3>2, <4>3, <4>4, <4>6 DEF n
        <5> QED BY <5>1, <5>2
      <4>7. CASE n \notin ToSet(s[2]) /\ ~ (ToSet(Contributing(n)) \subseteq ToSet(s[2]))
        <5>1. WalkRule(f)[s] = f[<<Contributing(n) \o s[1], s[2]>>]
          BY <3>2, <4>7 DEF WalkRule, n
        <5>2. Rule(f)[s] = f[<<Sources(Graph, n) \o s[1], s[2]>>]
          BY <1>1, <3>2, <4>3, <4>4, <4>7 DEF n
        <5> QED BY <4>2, <5>1, <5>2
      <4> QED BY <4>5, <4>6, <4>7
    <3> QED BY <3>1, <3>2
  <2>2. Rule(f) = [s \in Seq(GraphNode) \X Seq(GraphNode) |-> Rule(f)[s]]
        /\ WalkRule(f) = [s \in Seq(GraphNode) \X Seq(GraphNode) |-> WalkRule(f)[s]]
    BY <1>1 DEF WalkRule
  <2> HIDE DEF Rule
  <2> QED BY <2>1, <2>2
<1>6. EmitOf(Graph) = CHOOSE f : f = Rule(f)
  BY DEF EmitOf
<1> HIDE DEF Rule
<1>7. EmitOf(Graph) = Walk
  BY <1>5, <1>6, Zenon DEF Walk
<1>8. Order(Graph, <<root>>) = EmitOf(Graph)[<<<<root>>, <<>>>>]
  BY DEF Order, EmitOf
<1>9. AutogradOrder(root) = Walk[<<<<root>>, <<>>>>]
  BY DEF AutogradOrder, Walk, WalkRule
<1> QED BY <1>7, <1>8, <1>9

\* What the sweep needs of the order: no node twice, the root in it, and before a
\* node the sources that its gradient goes to.
SweepOrder(o, root) ==
  /\ o \in Seq(GraphNode)
  /\ \E k \in 1 .. Len(o) : o[k] = root
  /\ \A k \in 1 .. Len(o) : \A j \in 1 .. k - 1 : o[j] # o[k]
  /\ \A k \in 1 .. Len(o) : o[k] \in Operation =>
       \A i \in 1 .. 2 : tape[o[k]][i] \in requires => \E j \in 1 .. k - 1 : o[j] = tape[o[k]][i]

\* autograd_order() gives that.
LEMMA OrderForSweep ==
  ASSUME AgInv, NEW root \in GraphNode
  PROVE  SweepOrder(AutogradOrder(root), root)
<1> DEFINE o == Order(Graph, <<root>>)
<1>1. <<root>> \in Seq(NodeIds(Graph)) /\ Len(<<root>>) = 1 /\ <<root>>[1] = root
  BY GraphAcyclic
<1>2. /\ o \in Seq(NodeIds(Graph)) /\ Sound(Graph, o)
      /\ \A i \in 1 .. Len(<<root>>) : <<root>>[i] \in Visited(Graph, o)
  BY <1>1, GraphAcyclic, OrderSound
<1> HIDE DEF o
<1>3. o \in Seq(GraphNode) /\ DOMAIN o = 1 .. Len(o)
  BY <1>2, GraphAcyclic
<1>4. root \in Visited(Graph, o)
  BY <1>1, <1>2
<1>5. \E k \in 1 .. Len(o) : o[k] = root
  BY <1>3, <1>4 DEF Visited, Graph
<1>6. \A k \in 1 .. Len(o) : \A j \in 1 .. k - 1 : o[j] # o[k]
  BY <1>2 DEF Sound
<1>7. ASSUME NEW k \in 1 .. Len(o), o[k] \in Operation, NEW i \in 1 .. 2, tape[o[k]][i] \in requires
      PROVE  \E j \in 1 .. k - 1 : o[j] = tape[o[k]][i]
  <2>1. o[k] \in GraphNode
    BY <1>3, ElementOfSeq
  <2>2. Sources(Graph, o[k]) = Contributing(o[k]) /\ Graph.computed = {}
    BY <2>1 DEF Graph, Sources
  <2>3. PICK l \in 1 .. Len(Contributing(o[k])) : Contributing(o[k])[l] = tape[o[k]][i]
    BY <1>7, <2>1, ContributingSources
  <2>4. \A m \in 1 .. Len(Contributing(o[k])) : \E j \in 1 .. k - 1 : o[j] = Contributing(o[k])[m]
    BY <1>2, <2>2 DEF Sound
  <2> QED BY <2>3, <2>4
<1>8. AutogradOrder(root) = o
  BY SameSearch DEF o
<1> QED BY <1>3, <1>5, <1>6, <1>7, <1>8 DEF SweepOrder

-----------------------------------------------------------------------------
(* The sweep, operation by operation.                                      *)

\* The gradients before the sweep, and the recursion of its fold.
Seed(root) == [n \in GraphNode |-> IF n = root THEN 1 ELSE NoGradient]
BackRule(order, base, it) ==
  [s \in SUBSET DOMAIN order |->
    IF s = {} THEN base ELSE LET x == Min(s) IN ApplyBackward(it[s \ {x}], order[x])]
BackIter(order, base) == CHOOSE it : it = BackRule(order, base, it)

\* The gradients a sweep goes through: g[k] when the nodes after the k-th are done.
SweepSteps(order, root, g) ==
  /\ g[Len(order)] = Seed(root)
  /\ \A k \in 1 .. Len(order) : g[k - 1] = ApplyBackward(g[k], order[k])

\* The first of the last numbers.
LEMMA MinOfBottom ==
  ASSUME NEW m \in Nat, NEW L \in Nat, NEW s \in SUBSET (m .. L), m \in s
  PROVE  Min(s) = m
<1>1. \A x \in s : x \in Nat /\ m <= x
  OBVIOUS
<1>2. \A x \in s : (\A y \in s : x <= y) <=> x = m
  BY <1>1
<1> QED BY <1>2 DEF Min

\* Numbers have a first one.
LEMMA MinIn ==
  ASSUME NEW s \in SUBSET Nat, s # {}
  PROVE  Min(s) \in s
<1>1. \E x \in s : \A y \in s : x <= y
  BY LeastExists
<1> QED BY <1>1 DEF Min

\* The recursion of the fold has a solution.
LEMMA BackExists ==
  ASSUME NEW order, NEW base, Len(order) \in Nat, DOMAIN order = 1 .. Len(order)
  PROVE  \E it : it = BackRule(order, base, it)
<1> DEFINE L == Len(order)
           Rule(m, it) == [s \in SUBSET (m .. L) |->
              IF s = {} THEN base ELSE ApplyBackward(it[s \ {Min(s)}], order[Min(s)])]
           Bad == {k \in 0 .. L : ~ \E it : it = Rule(L + 1 - k, it)}
<1>1. \E it : it = Rule(L + 1, it)
  <2> DEFINE it == [s \in SUBSET (L + 1 .. L) |-> base]
  <2>1. \A s \in SUBSET (L + 1 .. L) : s = {}
    OBVIOUS
  <2>2. it = Rule(L + 1, it)
    BY <2>1
  <2> QED BY <2>2
<1>2. ASSUME NEW m \in 1 .. L, NEW f, f = Rule(m + 1, f) PROVE \E it : it = Rule(m, it)
  <2> DEFINE it == [s \in SUBSET (m .. L) |->
                      IF m \in s THEN ApplyBackward(f[s \ {m}], order[m]) ELSE f[s]]
  <2>1. ASSUME NEW s \in SUBSET (m .. L) PROVE it[s] = Rule(m, it)[s]
    <3>1. CASE m \in s
      <4>1. Min(s) = m /\ s # {}
        BY <3>1, MinOfBottom
      <4>2. s \ {m} \in SUBSET (m .. L) /\ m \notin s \ {m}
        OBVIOUS
      <4>3. it[s \ {m}] = f[s \ {m}]
        BY <4>2
      <4>4. it[s] = ApplyBackward(f[s \ {m}], order[m])
        BY <3>1
      <4>5. Rule(m, it)[s] = ApplyBackward(it[s \ {Min(s)}], order[Min(s)])
        BY <4>1
      <4> HIDE DEF it, Rule
      <4> QED BY <4>1, <4>3, <4>4, <4>5
    <3>2. CASE m \notin s
      <4>1. s \in SUBSET (m + 1 .. L) /\ s \in SUBSET Nat
        BY <3>2
      <4>2. it[s] = f[s] /\ f[s] = Rule(m + 1, f)[s]
        BY <1>2, <3>2
      <4>3. CASE s = {}
        BY <4>1, <4>2, <4>3
      <4>4. CASE s # {}
        <5>1. Min(s) \in s
          BY <4>1, <4>4, MinIn
        <5>2. m \notin s \ {Min(s)} /\ s \ {Min(s)} \in SUBSET (m .. L)
          BY <3>2
        <5>3. it[s \ {Min(s)}] = f[s \ {Min(s)}]
          BY <5>2
        <5>4. Rule(m + 1, f)[s] = ApplyBackward(f[s \ {Min(s)}], order[Min(s)])
          BY <4>1, <4>4
        <5>5. Rule(m, it)[s] = ApplyBackward(it[s \ {Min(s)}], order[Min(s)])
          BY <4>4
        <5> HIDE DEF it, Rule
        <5> QED BY <4>2, <5>3, <5>4, <5>5
      <4> QED BY <4>3, <4>4
    <3> QED BY <3>1, <3>2
  <2>2. it = Rule(m, it)
    <3>1. it = [s \in SUBSET (m .. L) |-> it[s]]
          /\ Rule(m, it) = [s \in SUBSET (m .. L) |-> Rule(m, it)[s]]
      OBVIOUS
    <3> HIDE DEF it, Rule
    <3> QED BY <2>1, <3>1
  <2> QED BY <2>2
<1>3. Bad = {}
  <2> HIDE DEF Rule
  <2> SUFFICES ASSUME Bad # {} PROVE FALSE
    OBVIOUS
  <2>1. Bad \in SUBSET Nat
    OBVIOUS
  <2>2. PICK k \in Bad : \A j \in Bad : k <= j
    BY <2>1, LeastExists
  <2>3. k # 0 /\ k \in Nat /\ k - 1 \in 0 .. L /\ L + 1 - k \in 1 .. L /\ L + 1 - (k - 1) = L + 1 - k + 1
    BY <1>1, <2>2
  <2>4. k - 1 \notin Bad
    <3> HIDE DEF Bad
    <3> QED BY <2>2, <2>3
  <2>5. PICK f : f = Rule(L + 1 - k + 1, f)
    BY <2>3, <2>4
  <2>6. \E it : it = Rule(L + 1 - k, it)
    BY <1>2, <2>3, <2>5
  <2> QED BY <2>2, <2>6
<1>4. PICK it : it = Rule(1, it)
  <2> HIDE DEF Rule
  <2>1. L \in 0 .. L /\ L + 1 - L = 1
    OBVIOUS
  <2> QED BY <1>3, <2>1
<1> QED BY <1>4 DEF BackRule

\* The sweep goes through the gradients after each node of the order.
LEMMA SweepStates ==
  ASSUME NEW order, NEW root, Len(order) \in Nat, DOMAIN order = 1 .. Len(order)
  PROVE  \E g : SweepSteps(order, root, g) /\ g[0] = Sweep(order, root)
<1> DEFINE it == BackIter(order, Seed(root))
           L == Len(order)
           g == [k \in 0 .. L |-> it[k + 1 .. L]]
<1>1. Sweep(order, root) = it[DOMAIN order]
  BY DEF Sweep, FoldRight, MapThenFoldSet, BackIter, BackRule, Seed
<1>2. it = BackRule(order, Seed(root), it)
  BY BackExists, Zenon DEF BackIter
<1> HIDE DEF it
<1>3. \A s \in SUBSET DOMAIN order :
        it[s] = IF s = {} THEN Seed(root) ELSE ApplyBackward(it[s \ {Min(s)}], order[Min(s)])
  BY <1>2 DEF BackRule
<1>4. g[L] = Seed(root)
  <2>1. L + 1 .. L = {} /\ {} \in SUBSET DOMAIN order /\ g[L] = it[L + 1 .. L]
    OBVIOUS
  <2> HIDE DEF g
  <2> QED BY <1>3, <2>1
<1>5. ASSUME NEW k \in 1 .. L PROVE g[k - 1] = ApplyBackward(g[k], order[k])
  <2>1. Min(k .. L) = k
    <3>1. k \in Nat /\ L \in Nat /\ k .. L \in SUBSET (k .. L) /\ k \in k .. L
      OBVIOUS
    <3> QED BY <3>1, MinOfBottom
  <2>2. (k .. L) \ {k} = k + 1 .. L /\ k .. L # {} /\ k .. L \in SUBSET DOMAIN order
    OBVIOUS
  <2>3. it[k .. L] = ApplyBackward(it[k + 1 .. L], order[k])
    BY <1>3, <2>1, <2>2
  <2>4. g[k - 1] = it[k .. L] /\ g[k] = it[k + 1 .. L]
    OBVIOUS
  <2> HIDE DEF g
  <2> QED BY <2>3, <2>4
<1>6. g[0] = it[DOMAIN order]
  OBVIOUS
<1> HIDE DEF g
<1> QED BY <1>1, <1>4, <1>5, <1>6 DEF SweepSteps
-----------------------------------------------------------------------------
(* The derivative.                                                         *)

\* Its recursion, for a leaf.
DerivRule(leaf, f) ==
  [n \in GraphNode |->
     IF n \notin requires THEN 0
     ELSE IF n \in Leaf THEN (IF n = leaf THEN 1 ELSE 0)
     ELSE Partial(1) * f[tape[n][1]] + Partial(2) * f[tape[n][2]]]
Derivs(leaf) == CHOOSE f : f = DerivRule(leaf, f)

\* The recursion has a solution: sources are older than what is built from them.
LEMMA DerivExists ==
  ASSUME AgInv, NEW leaf
  PROVE  \E f : f = DerivRule(leaf, f)
<1> DEFINE At(f, n) == IF n \notin requires THEN 0
                       ELSE IF n \in Leaf THEN (IF n = leaf THEN 1 ELSE 0)
                       ELSE Partial(1) * f[tape[n][1]] + Partial(2) * f[tape[n][2]]
           Rule(m, f) == [n \in 1 .. m |-> At(f, n)]
           Bad == {m \in 0 .. Size : ~ \E f : f = Rule(m, f)}
<1>1. Size \in Nat /\ GraphNode = 1 .. Size
  BY NodesNumbered
<1>2. \E f : f = Rule(0, f)
  <2> DEFINE f == [n \in 1 .. 0 |-> 0]
  <2>1. f = Rule(0, f)
    OBVIOUS
  <2> QED BY <2>1
<1>3. ASSUME NEW m \in Nat, m + 1 \in GraphNode, NEW e, e = Rule(m, e) PROVE \E f : f = Rule(m + 1, f)
  <2> DEFINE f == [n \in 1 .. m + 1 |-> IF n = m + 1 THEN At(e, n) ELSE e[n]]
  <2>1. \A n \in 1 .. m : f[n] = e[n]
    OBVIOUS
  <2>2. ASSUME NEW n \in 1 .. m + 1 PROVE At(f, n) = At(e, n)
    <3>1. CASE n \notin requires
      BY <3>1
    <3>2. CASE n \in Leaf
      BY <3>2
    <3>3. CASE n \in requires /\ n \notin Leaf
      <4>1. n \in Operation
        BY <3>3 DEF AgInv, GraphNode
      <4>2. tape[n][1] \in 1 .. m /\ tape[n][2] \in 1 .. m
        BY <1>1, <4>1 DEF AgInv, TapeOK
      <4>3. f[tape[n][1]] = e[tape[n][1]] /\ f[tape[n][2]] = e[tape[n][2]]
        BY <2>1, <4>2
      <4> HIDE DEF f
      <4> QED BY <4>3
    <3> QED BY <3>1, <3>2, <3>3
  <2>3. ASSUME NEW n \in 1 .. m + 1 PROVE f[n] = At(f, n)
    <3>1. CASE n = m + 1
      <4>1. f[n] = At(e, n)
        BY <3>1
      <4> HIDE DEF f, At
      <4> QED BY <2>2, <4>1
    <3>2. CASE n # m + 1
      <4>1. n \in 1 .. m
        BY <3>2
      <4>2. f[n] = e[n] /\ e[n] = At(e, n)
        BY <1>3, <2>1, <4>1
      <4> HIDE DEF f, At
      <4> QED BY <2>2, <4>2
    <3> QED BY <3>1, <3>2
  <2>4. f = Rule(m + 1, f)
    <3>1. f = [n \in 1 .. m + 1 |-> f[n]]
      OBVIOUS
    <3> HIDE DEF f, At
    <3> QED BY <2>3, <3>1
  <2> QED BY <2>4
<1>4. Bad = {}
  <2> HIDE DEF Rule
  <2> SUFFICES ASSUME Bad # {} PROVE FALSE
    OBVIOUS
  <2>1. Bad \in SUBSET Nat
    BY <1>1
  <2>2. PICK m \in Bad : \A k \in Bad : m <= k
    BY <2>1, LeastExists
  <2>3. m # 0 /\ m \in Nat /\ m - 1 \in 0 .. Size /\ m - 1 \in Nat /\ m - 1 + 1 = m /\ m \in GraphNode
    BY <1>1, <1>2, <2>2
  <2>4. m - 1 \notin Bad
    <3> HIDE DEF Bad
    <3> QED BY <2>2, <2>3
  <2>5. PICK e : e = Rule(m - 1, e)
    BY <2>3, <2>4
  <2>6. \E f : f = Rule(m - 1 + 1, f)
    BY <1>3, <2>3, <2>5
  <2> QED BY <2>2, <2>3, <2>6
<1>5. PICK f : f = Rule(Size, f)
  <2> HIDE DEF Rule
  <2>1. Size \in 0 .. Size
    BY <1>1
  <2> QED BY <1>4, <2>1
<1>6. Rule(Size, f) = DerivRule(leaf, f)
  BY <1>1 DEF DerivRule
<1> QED BY <1>5, <1>6

\* What a solution says of each node.
DerivOf(leaf, d) ==
  /\ d \in [GraphNode -> Int]
  /\ \A n \in GraphNode : n \notin requires => d[n] = 0
  /\ \A n \in Leaf : n \in requires => d[n] = IF n = leaf THEN 1 ELSE 0
  /\ \A n \in Operation : n \in requires => d[n] = d[tape[n][1]] + 2 * d[tape[n][2]]

\* The derivative is a number at every node, and obeys the sum rule.
LEMMA DerivIs ==
  ASSUME AgInv, NEW leaf
  PROVE  /\ DerivOf(leaf, Derivs(leaf))
         /\ \A root : Derivative(root, leaf) = Derivs(leaf)[root]
<1> DEFINE d == Derivs(leaf)
<1>1. d = DerivRule(leaf, d)
  BY DerivExists, Zenon DEF Derivs
<1>2. \A root : Derivative(root, leaf) = d[root]
  BY DEF Derivative, Derivs, DerivRule
<1> HIDE DEF d
<1>3. \A n \in GraphNode : n \notin requires => d[n] = 0
  BY <1>1 DEF DerivRule
<1>4. ASSUME NEW n \in Leaf, n \in requires PROVE d[n] = IF n = leaf THEN 1 ELSE 0
  BY <1>1, <1>4, NodesNumbered DEF DerivRule
<1>5. ASSUME NEW n \in Operation, n \in requires
      PROVE  d[n] = Partial(1) * d[tape[n][1]] + Partial(2) * d[tape[n][2]]
  <2>1. n \in GraphNode /\ n \notin Leaf
    BY NodesNumbered
  <2> QED BY <1>1, <1>5, <2>1 DEF DerivRule
<1>6. DOMAIN d = GraphNode
  BY <1>1 DEF DerivRule
<1> DEFINE Bad == {n \in GraphNode : d[n] \notin Int}
<1>7. Bad = {}
  <2> SUFFICES ASSUME Bad # {} PROVE FALSE
    OBVIOUS
  <2>1. Bad \in SUBSET Nat
    BY NodesNumbered
  <2>2. PICK n \in Bad : \A k \in Bad : n <= k
    BY <2>1, LeastExists
  <2>3. n \in requires /\ n \notin Leaf /\ n \in Operation
    BY <1>3, <1>4, <2>2 DEF GraphNode
  <2> DEFINE a == tape[n][1]
             b == tape[n][2]
  <2>4. a \in GraphNode /\ b \in GraphNode /\ a < n /\ b < n
    BY <2>3 DEF AgInv, TapeOK
  <2>5. d[n] = Partial(1) * d[a] + Partial(2) * d[b]
    BY <1>5, <2>3
  <2> HIDE DEF a, b
  <2>6. a \in Nat /\ b \in Nat /\ n \in Nat
    BY <2>2, <2>4, NodesNumbered
  <2>7. a \notin Bad /\ b \notin Bad
    <3> HIDE DEF Bad
    <3> QED BY <2>2, <2>4, <2>6
  <2>8. d[a] \in Int /\ d[b] \in Int
    BY <2>4, <2>7
  <2> QED BY <2>2, <2>5, <2>8 DEF Partial
<1>8. d \in [GraphNode -> Int]
  <2>1. d = [n \in GraphNode |-> d[n]]
    BY <1>1 DEF DerivRule
  <2>2. \A n \in GraphNode : d[n] \in Int
    BY <1>7
  <2> HIDE DEF Bad
  <2> QED BY <2>1, <2>2
<1>9. ASSUME NEW n \in Operation, n \in requires PROVE d[n] = d[tape[n][1]] + 2 * d[tape[n][2]]
  <2>1. tape[n][1] \in GraphNode /\ tape[n][2] \in GraphNode
    BY DEF AgInv, TapeOK
  <2>2. d[tape[n][1]] \in Int /\ d[tape[n][2]] \in Int
    BY <1>8, <2>1
  <2> QED BY <1>5, <1>9, <2>2 DEF Partial
<1>10. DerivOf(leaf, d)
  BY <1>3, <1>4, <1>8, <1>9 DEF DerivOf
<1> QED BY <1>2, <1>10 DEF d

-----------------------------------------------------------------------------
(* Sums over the nodes.                                                    *)

\* The partial sums of f, and what they come to.
Sums(f, N, t) ==
  /\ t \in [0 .. N -> Int] /\ t[0] = 0
  /\ \A i \in 1 .. N : t[i] = t[i - 1] + f[i]
Total(f, N, s) == \E t : Sums(f, N, t) /\ t[N] = s

\* One term changed changes the sum by as much.
LEMMA TotalChanged ==
  ASSUME NEW N \in Nat, NEW f \in [1 .. N -> Int], NEW s \in Int, Total(f, N, s),
         NEW i \in 1 .. N, NEW x \in Int,
         NEW g \in [1 .. N -> Int], g[i] = f[i] + x, \A j \in 1 .. N : j # i => g[j] = f[j]
  PROVE  Total(g, N, s + x)
<1>1. PICK t : Sums(f, N, t) /\ t[N] = s
  BY DEF Total
<1> DEFINE u == [j \in 0 .. N |-> IF j < i THEN t[j] ELSE t[j] + x]
<1>2. \A j \in 0 .. N : t[j] \in Int
  BY <1>1 DEF Sums
<1>3. u \in [0 .. N -> Int] /\ u[0] = 0 /\ u[N] = s + x
  <2>1. u \in [0 .. N -> Int]
    BY <1>2
  <2>2. t[0] = 0 /\ t[N] = s
    BY <1>1 DEF Sums
  <2>3. 0 \in 0 .. N /\ 0 < i /\ N \in 0 .. N /\ ~(N < i)
    OBVIOUS
  <2> QED BY <2>1, <2>2, <2>3
<1>4. ASSUME NEW j \in 1 .. N PROVE u[j] = u[j - 1] + g[j]
  <2>1. t[j] = t[j - 1] + f[j] /\ j - 1 \in 0 .. N /\ j \in 0 .. N
    BY <1>1 DEF Sums
  <2>2. t[j] \in Int /\ t[j - 1] \in Int /\ f[j] \in Int /\ g[j] \in Int
    BY <1>2, <2>1
  <2>3. CASE j < i
    BY <2>1, <2>2, <2>3
  <2>4. CASE j = i
    BY <2>1, <2>2, <2>4
  <2>5. CASE j > i
    <3>1. u[j] = t[j] + x /\ u[j - 1] = t[j - 1] + x
      <4>1. ~(j < i) /\ ~(j - 1 < i)
        BY <2>5
      <4> QED BY <2>1, <4>1
    <3>2. g[j] = f[j]
      BY <2>5
    <3> HIDE DEF u
    <3> QED BY <2>1, <2>2, <3>1, <3>2
  <2> QED BY <2>3, <2>4, <2>5
<1> HIDE DEF u
<1> QED BY <1>3, <1>4 DEF Total, Sums

\* A sum with one term that is not 0 is that term.
LEMMA TotalOfOne ==
  ASSUME NEW N \in Nat, NEW f \in [1 .. N -> Int], NEW n \in 1 .. N, \A j \in 1 .. N : j # n => f[j] = 0
  PROVE  /\ Total(f, N, f[n])
         /\ \A s : Total(f, N, s) => s = f[n]
<1> DEFINE u == [j \in 0 .. N |-> IF j < n THEN 0 ELSE f[n]]
<1>1. Sums(f, N, u) /\ u[N] = f[n]
  BY DEF Sums
<1>2. ASSUME NEW s, Total(f, N, s) PROVE s = f[n]
  <2>1. PICK t : Sums(f, N, t) /\ t[N] = s
    BY <1>2 DEF Total
  <2> DEFINE Bad == {j \in 0 .. N : t[j] # u[j]}
  <2>2. Bad = {}
    <3> SUFFICES ASSUME Bad # {} PROVE FALSE
      OBVIOUS
    <3>1. PICK j \in Bad : \A k \in Bad : j <= k
      <4>1. Bad \in SUBSET Nat
        OBVIOUS
      <4> QED BY <4>1, LeastExists
    <3>2. j # 0 /\ j \in 1 .. N /\ j - 1 \in 0 .. N
      <4>1. t[0] = 0 /\ u[0] = 0
        BY <1>1, <2>1 DEF Sums
      <4>2. j \in 0 .. N /\ t[j] # u[j]
        OBVIOUS
      <4> HIDE DEF u, Bad
      <4>3. j # 0
        BY <4>1, <4>2
      <4> QED BY <4>2, <4>3
    <3>3. j - 1 \notin Bad
      <4> HIDE DEF Bad
      <4> QED BY <3>1, <3>2
    <3>4. t[j - 1] = u[j - 1]
      BY <3>2, <3>3
    <3>5. t[j] = t[j - 1] + f[j] /\ u[j] = u[j - 1] + f[j]
      BY <1>1, <2>1, <3>2 DEF Sums
    <3> HIDE DEF u
    <3> QED BY <3>1, <3>4, <3>5
  <2>3. t[N] = u[N]
    <3>1. N \in 0 .. N
      OBVIOUS
    <3> HIDE DEF u
    <3> QED BY <2>2, <3>1
  <2> QED BY <1>1, <2>1, <2>3
<1> HIDE DEF u
<1> QED BY <1>1, <1>2 DEF Total
-----------------------------------------------------------------------------
(* What the sweep keeps.                                                   *)

\* Each gradient times the derivative of its node, for the nodes whose gradient
\* has not yet been passed on: those of P have.
Weighted(d, G, P) == [m \in GraphNode |-> IF m \in P THEN 0 ELSE G[m] * d[m]]

\* The operations of an order after its k-th node.
Passed(order, k) == {m \in Operation : \E j \in k + 1 .. Len(order) : order[j] = m}

\* What the sweep keeps: the sum of those products is the derivative of the root.
SweepInv(order, root, d, G, P) ==
  /\ G \in [GraphNode -> Int]
  /\ \A m \in GraphNode : G[m] # 0 => m \in requires /\ \E j \in 1 .. Len(order) : order[j] = m
  /\ Total(Weighted(d, G, P), Size, d[root])

\* The products that the proofs meet.
LEMMA Products ==
  /\ \A x, y \in Int : x * y \in Int
  /\ \A x, y, z \in Int : (x + y) * z = x * z + y * z
  /\ \A x, y, z \in Int : x * (y + 2 * z) = x * y + (2 * x) * z
  /\ \A x \in Int : x * 0 = 0 /\ 0 * x = 0 /\ x * 1 = x /\ 1 * x = x
<1>1. \A x, y \in Int : x * y \in Int
  OBVIOUS
<1>2. \A x, y, z \in Int : (x + y) * z = x * z + y * z
  OBVIOUS
<1>3. \A x, y, z \in Int : x * (y + 2 * z) = x * y + (2 * x) * z
  OBVIOUS
<1>4. \A x \in Int : x * 0 = 0 /\ 0 * x = 0 /\ x * 1 = x /\ 1 * x = x
  OBVIOUS
<1> QED BY <1>1, <1>2, <1>3, <1>4

\* The products are numbers.
LEMMA WeightedTyped ==
  ASSUME NEW d \in [GraphNode -> Int], NEW G \in [GraphNode -> Int], NEW P
  PROVE  Weighted(d, G, P) \in [1 .. Size -> Int]
<1>1. GraphNode = 1 .. Size
  BY NodesNumbered
<1>2. ASSUME NEW m \in GraphNode PROVE (IF m \in P THEN 0 ELSE G[m] * d[m]) \in Int
  <2>1. G[m] \in Int /\ d[m] \in Int
    OBVIOUS
  <2>2. G[m] * d[m] \in Int
    BY <2>1, Products
  <2> QED BY <2>2
<1> QED BY <1>1, <1>2 DEF Weighted

\* What a contribution of x to c makes of the gradients G, whose sum was s.
Added(d, G, P, c, x, s) ==
  /\ Accumulate(G, c, x) \in [GraphNode -> Int]
  /\ Total(Weighted(d, Accumulate(G, c, x), P), Size, s + x * d[c])
  /\ \A m \in GraphNode : m # c => Accumulate(G, c, x)[m] = G[m]

\* A contribution to a node that has not had its turn adds its own product; to a
\* node that does not require grad it adds nothing, and its derivative is 0.
LEMMA AddTo ==
  ASSUME AgInv, NEW leaf, NEW d, DerivOf(leaf, d), NEW G \in [GraphNode -> Int], NEW P,
         NEW c \in GraphNode, c \in requires => c \notin P, NEW x \in Int,
         NEW s \in Int, Total(Weighted(d, G, P), Size, s)
  PROVE  Added(d, G, P, c, x, s)
<1> DEFINE A == Accumulate(G, c, x)
           W == Weighted(d, G, P)
           V == Weighted(d, A, P)
<1>1. d \in [GraphNode -> Int]
  BY DEF DerivOf
<1>2. A \in [GraphNode -> Int] /\ (\A m \in GraphNode : m # c => A[m] = G[m])
      /\ A[c] = IF c \in requires THEN G[c] + x ELSE G[c]
  BY DEF Accumulate
<1>3. Size \in Nat /\ GraphNode = 1 .. Size
  BY NodesNumbered
<1> HIDE DEF A
<1>4. W \in [1 .. Size -> Int] /\ V \in [1 .. Size -> Int]
  BY <1>1, <1>2, WeightedTyped
<1>5. d[c] \in Int /\ G[c] \in Int /\ x * d[c] \in Int
  BY <1>1, Products
<1>6. V[c] = W[c] + x * d[c]
  <2> DEFINE y == d[c]
  <2>1. CASE c \in requires
    <3>1. V[c] = A[c] * d[c] /\ W[c] = G[c] * d[c]
      BY <2>1 DEF Weighted
    <3>2. (G[c] + x) * d[c] = G[c] * d[c] + x * d[c]
      BY <1>5, Products
    <3> HIDE DEF V, W
    <3> QED BY <1>2, <2>1, <3>1, <3>2
  <2>2. CASE c \notin requires
    <3>1. d[c] = 0
      BY <2>2 DEF DerivOf
    <3>2. x * d[c] = 0
      BY <3>1
    <3>3. V[c] = W[c]
      BY <1>2, <2>2 DEF Weighted
    <3>4. W[c] \in Int
      BY <1>3, <1>4
    <3> HIDE DEF V, W
    <3> QED BY <3>2, <3>3, <3>4
  <2> QED BY <2>1, <2>2
<1>7. \A m \in 1 .. Size : m # c => V[m] = W[m]
  BY <1>2, <1>3 DEF Weighted
<1>8. c \in 1 .. Size
  BY <1>3
<1> HIDE DEF V, W
<1>9. Total(W, Size, s)
  BY DEF W
<1>10. Total(V, Size, s + x * d[c])
  BY <1>3, <1>4, <1>5, <1>6, <1>7, <1>8, <1>9, TotalChanged
<1> QED BY <1>2, <1>10 DEF A, V, Added

\* A node that has passed its gradient on no longer counts.
LEMMA Retire ==
  ASSUME NEW d \in [GraphNode -> Int], NEW G \in [GraphNode -> Int], NEW P,
         NEW n \in GraphNode, n \notin P, NEW s \in Int, Total(Weighted(d, G, P), Size, s)
  PROVE  Total(Weighted(d, G, P \cup {n}), Size, s - G[n] * d[n])
<1> DEFINE W == Weighted(d, G, P)
           V == Weighted(d, G, P \cup {n})
           w == G[n] * d[n]
           x == 0 - w
<1>1. Size \in Nat /\ GraphNode = 1 .. Size
  BY NodesNumbered
<1>2. W \in [1 .. Size -> Int] /\ V \in [1 .. Size -> Int]
  BY WeightedTyped
<1>3. V[n] = 0 /\ W[n] = w
  BY DEF Weighted
<1>4. \A m \in 1 .. Size : m # n => V[m] = W[m]
  BY <1>1 DEF Weighted
<1>5. w \in Int
  <2>1. G[n] \in Int /\ d[n] \in Int
    OBVIOUS
  <2> QED BY <2>1, Products
<1>6. Total(W, Size, s) /\ n \in 1 .. Size
  BY <1>1
<1> HIDE DEF V, W, w
<1>7. x \in Int /\ V[n] = W[n] + x /\ s + x = s - w
  BY <1>3, <1>5
<1> HIDE DEF x
<1>8. Total(V, Size, s + x)
  BY <1>1, <1>2, <1>4, <1>6, <1>7, TotalChanged
<1>9. Total(V, Size, s - w)
  BY <1>7, <1>8
<1> QED BY <1>9 DEF V, w
\* The sweep starts from the root's own derivative.
LEMMA SweepStart ==
  ASSUME AgInv, NEW root \in requires, NEW order, SweepOrder(order, root), NEW leaf, NEW d, DerivOf(leaf, d)
  PROVE  SweepInv(order, root, d, Seed(root), Passed(order, Len(order)))
<1> DEFINE G == Seed(root)
           P == Passed(order, Len(order))
           W == Weighted(d, G, P)
<1>1. root \in GraphNode /\ d \in [GraphNode -> Int] /\ d[root] \in Int
  BY DEF AgInv, DerivOf
<1>2. G \in [GraphNode -> Int] /\ G[root] = 1 /\ \A m \in GraphNode : m # root => G[m] = 0
  BY <1>1 DEF Seed, NoGradient
<1>3. P = {}
  <2>1. Len(order) \in Nat
    BY DEF SweepOrder
  <2>2. Len(order) + 1 .. Len(order) = {}
    BY <2>1
  <2> QED BY <2>2 DEF Passed
<1> HIDE DEF G
<1>4. W \in [1 .. Size -> Int]
  BY <1>1, <1>2, WeightedTyped
<1>5. Size \in Nat /\ GraphNode = 1 .. Size
  BY NodesNumbered
<1>6. W[root] = d[root]
  <2>1. W[root] = 1 * d[root]
    BY <1>1, <1>2, <1>3 DEF Weighted
  <2> QED BY <1>1, <2>1
<1>7. ASSUME NEW m \in 1 .. Size, m # root PROVE W[m] = 0
  <2>1. m \in GraphNode /\ d[m] \in Int
    BY <1>1, <1>5
  <2>2. W[m] = 0 * d[m]
    BY <1>2, <1>3, <1>7, <2>1 DEF Weighted
  <2> QED BY <2>1, <2>2
<1> HIDE DEF W
<1>8. root \in 1 .. Size
  BY <1>1, <1>5
<1>9. Total(W, Size, W[root])
  BY <1>4, <1>5, <1>7, <1>8, TotalOfOne
<1>10. Total(W, Size, d[root])
  BY <1>6, <1>9
<1>11. \E j \in 1 .. Len(order) : order[j] = root
  BY DEF SweepOrder
<1>12. \A m \in GraphNode : G[m] # 0 => m \in requires /\ \E j \in 1 .. Len(order) : order[j] = m
  BY <1>2, <1>11
<1> QED BY <1>2, <1>10, <1>12 DEF SweepInv, W, G

\* Passing a node's gradient to its sources keeps the sum: the node comes after
\* none of the operations that contribute to it, and before none of its sources.
LEMMA SweepStep ==
  ASSUME AgInv, NEW root \in requires, NEW order, SweepOrder(order, root), NEW leaf, NEW d, DerivOf(leaf, d),
         NEW k \in 1 .. Len(order), NEW G, SweepInv(order, root, d, G, Passed(order, k))
  PROVE  SweepInv(order, root, d, ApplyBackward(G, order[k]), Passed(order, k - 1))
<1> DEFINE n == order[k]
           P == Passed(order, k)
           Q == Passed(order, k - 1)
           s == d[root]
<1>1. /\ G \in [GraphNode -> Int] /\ Total(Weighted(d, G, P), Size, s)
      /\ \A m \in GraphNode : G[m] # 0 => m \in requires /\ \E j \in 1 .. Len(order) : order[j] = m
  BY DEF SweepInv
<1>2. n \in GraphNode /\ Len(order) \in Nat
  BY ElementOfSeq DEF SweepOrder
<1>3. d \in [GraphNode -> Int] /\ s \in Int
  BY DEF DerivOf, AgInv
<1>4. n \notin P
  <2>1. ASSUME NEW j \in k + 1 .. Len(order) PROVE order[j] # order[k]
    <3>1. j \in 1 .. Len(order) /\ k \in 1 .. j - 1
      BY <1>2
    <3> QED BY <3>1 DEF SweepOrder
  <2> QED BY <2>1 DEF Passed
<1>5. Q = IF n \in Operation THEN P \cup {n} ELSE P
  <2>1. \A j \in Int : j \in k - 1 + 1 .. Len(order) <=> j = k \/ j \in k + 1 .. Len(order)
    BY <1>2
  <2> QED BY <2>1 DEF Passed
<1>6. ASSUME NEW H \in [GraphNode -> Int], Total(Weighted(d, H, Q), Size, s),
             \A m \in GraphNode : H[m] # 0 => m \in requires /\ \E j \in 1 .. Len(order) : order[j] = m
      PROVE  SweepInv(order, root, d, H, Q)
  BY <1>6 DEF SweepInv
<1> HIDE DEF n, P, Q, s
<1>7. CASE n \in Leaf
  <2>1. ApplyBackward(G, n) = G /\ Q = P
    BY <1>5, <1>7, NodesNumbered DEF ApplyBackward
  <2>2. SweepInv(order, root, d, G, Q)
    BY <1>1, <1>6, <2>1
  <2> QED BY <2>1, <2>2 DEF n, Q
<1>8. CASE n \in Operation /\ G[n] = 0
  <2>1. ApplyBackward(G, n) = G
    BY <1>8 DEF ApplyBackward, NoGradient
  <2>2. Q = P \cup {n}
    BY <1>5, <1>8
  <2>3. Total(Weighted(d, G, Q), Size, s - G[n] * d[n])
    BY <1>1, <1>2, <1>3, <1>4, <2>2, Retire
  <2>4. s - G[n] * d[n] = s
    <3>1. d[n] \in Int
      BY <1>2, <1>3
    <3>2. G[n] * d[n] = 0
      BY <1>8, <3>1
    <3> QED BY <1>3, <3>2
  <2>5. SweepInv(order, root, d, G, Q)
    BY <1>1, <1>6, <2>3, <2>4
  <2> QED BY <2>1, <2>5 DEF n, Q
<1>9. CASE n \in Operation /\ G[n] # 0
  <2> DEFINE a == tape[n][1]
             b == tape[n][2]
             g == G[n]
             A == Accumulate(G, a, Partial(1) * g)
             B == Accumulate(A, b, Partial(2) * g)
  <2>1. n \notin Leaf /\ ApplyBackward(G, n) = B
    BY <1>9, NodesNumbered DEF ApplyBackward, NoGradient
  <2>2. a \in GraphNode /\ b \in GraphNode /\ a < n /\ b < n
    BY <1>9 DEF AgInv, TapeOK
  <2>3. n \in requires /\ g \in Int
    BY <1>1, <1>2, <1>9
  <2>4. d[n] = d[a] + 2 * d[b] /\ d[a] \in Int /\ d[b] \in Int /\ d[n] \in Int
    BY <1>2, <1>3, <1>9, <2>2, <2>3 DEF DerivOf
  <2>5. Partial(1) * g = g /\ Partial(2) * g = 2 * g /\ 2 * g \in Int
    BY <2>3 DEF Partial
  <2>6. ASSUME NEW i \in 1 .. 2, tape[n][i] \in requires
        PROVE  tape[n][i] \notin Q /\ \E j \in 1 .. Len(order) : order[j] = tape[n][i]
    <3>1. PICK j \in 1 .. k - 1 : order[j] = tape[n][i]
      BY <1>9, <2>6 DEF SweepOrder, n
    <3>2. j \in 1 .. Len(order)
      BY <1>2
    <3>3. ASSUME NEW l \in k - 1 + 1 .. Len(order) PROVE order[l] # tape[n][i]
      <4>1. l \in 1 .. Len(order) /\ j \in 1 .. l - 1
        BY <1>2
      <4> QED BY <3>1, <4>1 DEF SweepOrder
    <3> QED BY <3>1, <3>2, <3>3 DEF Q, Passed
  <2>7. /\ a \in requires => a \notin Q /\ \E j \in 1 .. Len(order) : order[j] = a
        /\ b \in requires => b \notin Q /\ \E j \in 1 .. Len(order) : order[j] = b
    BY <2>6
  <2>8. Q = P \cup {n}
    BY <1>5, <1>9
  <2> HIDE DEF a, b
  <2> DEFINE p == g * d[n]
             q == g * d[a]
             r == (2 * g) * d[b]
  <2>9. p \in Int /\ q \in Int /\ r \in Int /\ p = q + r
    <3> HIDE DEF g
    <3>1. p \in Int /\ q \in Int /\ r \in Int
      BY <2>3, <2>4, <2>5, Products
    <3>2. g * (d[a] + 2 * d[b]) = g * d[a] + (2 * g) * d[b]
      BY <2>3, <2>4, Products
    <3>3. p = q + r
      BY <2>4, <3>2
    <3> QED BY <3>1, <3>3
  <2>10. Total(Weighted(d, G, Q), Size, s - p)
    BY <1>1, <1>2, <1>3, <1>4, <2>8, Retire
  <2> HIDE DEF p, g
  <2>11. s - p \in Int /\ s - p + q \in Int /\ s - p + q + r = s
    <3> HIDE DEF q, r
    <3> QED BY <1>3, <2>9
  <2>12. /\ A \in [GraphNode -> Int] /\ Total(Weighted(d, A, Q), Size, s - p + q)
         /\ \A m \in GraphNode : m # a => A[m] = G[m]
    <3>1. A = Accumulate(G, a, g)
      BY <2>5
    <3> HIDE DEF A
    <3> DEFINE t == s - p
    <3>2. t \in Int /\ Total(Weighted(d, G, Q), Size, t)
      BY <2>10, <2>11
    <3> HIDE DEF t
    <3>3. Added(d, G, Q, a, g, t)
      BY <1>1, <2>2, <2>3, <2>7, <3>2, AddTo
    <3> QED BY <3>1, <3>3 DEF t, Added
  <2>13. A[a] # 0 => a \in requires \/ G[a] # 0
    BY <1>1, <2>2 DEF Accumulate
  <2> HIDE DEF A
  <2>14. /\ B \in [GraphNode -> Int] /\ Total(Weighted(d, B, Q), Size, s - p + q + r)
         /\ \A m \in GraphNode : m # b => B[m] = A[m]
    <3>1. B = Accumulate(A, b, 2 * g)
      BY <2>5
    <3> HIDE DEF B
    <3> DEFINE t == s - p + q
               x == 2 * g
    <3>2. t \in Int /\ Total(Weighted(d, A, Q), Size, t) /\ x \in Int
      BY <2>5, <2>11, <2>12
    <3> HIDE DEF t, x
    <3>3. Added(d, A, Q, b, x, t)
      BY <2>2, <2>7, <2>12, <3>2, AddTo
    <3> QED BY <3>1, <3>3 DEF t, x, Added
  <2>15. B[b] # 0 => b \in requires \/ A[b] # 0
    BY <2>2, <2>12 DEF Accumulate
  <2> HIDE DEF B, q, r
  <2>16. ASSUME NEW m \in GraphNode, B[m] # 0
         PROVE  m \in requires /\ \E j \in 1 .. Len(order) : order[j] = m
    <3>1. CASE G[m] # 0
      BY <1>1, <3>1
    <3>2. CASE G[m] = 0
      <4>1. (m = a /\ a \in requires) \/ (m = b /\ b \in requires)
        BY <2>12, <2>13, <2>14, <2>15, <2>16, <3>2
      <4> QED BY <2>7, <4>1
    <3> QED BY <3>1, <3>2
  <2>17. SweepInv(order, root, d, B, Q)
    BY <1>6, <2>11, <2>14, <2>16
  <2> QED BY <2>1, <2>17 DEF n, Q
<1> QED BY <1>2, <1>7, <1>8, <1>9 DEF GraphNode

\* After the sweep a leaf has the derivative of the root; one that the order does
\* not hold, or that requires no grad, has none to get.
LEMMA SweepEnd ==
  ASSUME AgInv, NEW root \in requires, NEW order, SweepOrder(order, root), NEW leaf \in Leaf,
         NEW d, DerivOf(leaf, d), NEW G, SweepInv(order, root, d, G, Passed(order, 0))
  PROVE  d[root] = IF leaf \in requires /\ leaf \in ToSet(order) THEN G[leaf] ELSE 0
<1> DEFINE P == Passed(order, 0)
           W == Weighted(d, G, P)
<1>1. /\ G \in [GraphNode -> Int] /\ Total(W, Size, d[root])
      /\ \A m \in GraphNode : G[m] # 0 => m \in requires /\ \E j \in 1 .. Len(order) : order[j] = m
  BY DEF SweepInv
<1>2. d \in [GraphNode -> Int]
  BY DEF DerivOf
<1>3. Size \in Nat /\ GraphNode = 1 .. Size /\ leaf \in GraphNode /\ leaf \notin Operation
  BY NodesNumbered
<1>4. P = {m \in Operation : \E j \in 1 .. Len(order) : order[j] = m}
  BY DEF Passed
<1> HIDE DEF P
<1>5. W \in [1 .. Size -> Int]
  BY <1>1, <1>2, WeightedTyped
<1>6. ASSUME NEW m \in 1 .. Size, m # leaf PROVE W[m] = 0
  <2>1. m \in GraphNode /\ G[m] \in Int /\ d[m] \in Int
    BY <1>1, <1>2, <1>3
  <2>2. CASE m \in P
    BY <2>1, <2>2 DEF Weighted
  <2>3. CASE m \notin P
    <3>1. W[m] = G[m] * d[m]
      BY <2>1, <2>3 DEF Weighted
    <3>2. G[m] = 0 \/ d[m] = 0
      <4>1. CASE m \in Operation
        BY <1>1, <1>4, <2>1, <2>3, <4>1
      <4>2. CASE m \in Leaf
        BY <1>6, <4>2, <2>1 DEF DerivOf
      <4> QED BY <2>1, <4>1, <4>2 DEF GraphNode
    <3>3. \A x \in Int : x * 0 = 0 /\ 0 * x = 0
      OBVIOUS
    <3> HIDE DEF W
    <3> QED BY <2>1, <3>1, <3>2, <3>3
  <2> QED BY <2>2, <2>3
<1>7. W[leaf] = G[leaf] * d[leaf]
  BY <1>3, <1>4 DEF Weighted
<1> HIDE DEF W
<1>8. leaf \in 1 .. Size
  BY <1>3
<1>9. d[root] = W[leaf]
  BY <1>1, <1>3, <1>5, <1>6, <1>8, TotalOfOne
<1>10. G[leaf] \in Int /\ d[leaf] \in Int
  BY <1>1, <1>2, <1>3
<1>11. leaf \in ToSet(order) <=> \E j \in 1 .. Len(order) : order[j] = leaf
  <2>1. DOMAIN order = 1 .. Len(order)
    BY DEF SweepOrder
  <2> QED BY <2>1 DEF ToSet
<1>12. CASE leaf \notin requires
  <2>1. d[leaf] = 0
    BY <1>3, <1>12 DEF DerivOf
  <2>2. W[leaf] = 0
    BY <1>7, <1>10, <2>1
  <2> QED BY <1>9, <1>12, <2>2
<1>13. CASE leaf \in requires
  <2>1. d[leaf] = 1
    BY <1>13 DEF DerivOf
  <2>2. W[leaf] = G[leaf]
    BY <1>7, <1>10, <2>1
  <2>3. leaf \notin ToSet(order) => G[leaf] = 0
    BY <1>1, <1>3, <1>11
  <2> QED BY <1>9, <1>13, <2>2, <2>3
<1> QED BY <1>12, <1>13
\* The whole sweep, from the root's own derivative to the leaves.
LEMMA SweepComplete ==
  ASSUME AgInv, NEW root \in requires, NEW leaf \in Leaf
  PROVE  LET o == AutogradOrder(root) IN
         /\ Sweep(o, root) \in [GraphNode -> Int]
         /\ Derivative(root, leaf) = IF leaf \in requires /\ leaf \in ToSet(o) THEN Sweep(o, root)[leaf] ELSE 0
<1> DEFINE o == AutogradOrder(root)
           d == Derivs(leaf)
           L == Len(o)
<1>1. SweepOrder(o, root)
  BY OrderForSweep DEF AgInv
<1>2. L \in Nat /\ DOMAIN o = 1 .. L
  BY <1>1 DEF SweepOrder
<1>3. DerivOf(leaf, d) /\ Derivative(root, leaf) = d[root]
  BY DerivIs
<1> HIDE DEF o, d
<1>4. PICK g : SweepSteps(o, root, g) /\ g[0] = Sweep(o, root)
  BY <1>2, SweepStates
<1> DEFINE Ok(k) == SweepInv(o, root, d, g[k], Passed(o, k))
           Bad == {j \in 0 .. L : ~ Ok(L - j)}
<1>5. Ok(L)
  BY <1>1, <1>3, <1>4, SweepStart DEF SweepSteps
<1>6. ASSUME NEW k \in 1 .. L, Ok(k) PROVE Ok(k - 1)
  <2>1. g[k - 1] = ApplyBackward(g[k], o[k])
    BY <1>4 DEF SweepSteps
  <2>2. SweepInv(o, root, d, ApplyBackward(g[k], o[k]), Passed(o, k - 1))
    BY <1>1, <1>3, <1>6, SweepStep
  <2> QED BY <2>1, <2>2
<1> HIDE DEF Ok
<1>7. Bad = {}
  <2> SUFFICES ASSUME Bad # {} PROVE FALSE
    OBVIOUS
  <2>1. Bad \in SUBSET Nat
    BY <1>2
  <2>2. PICK j \in Bad : \A i \in Bad : j <= i
    BY <2>1, LeastExists
  <2>3. j # 0
    BY <1>2, <1>5, <2>2
  <2>4. j \in Nat /\ j - 1 \in 0 .. L /\ L - (j - 1) \in 1 .. L /\ L - (j - 1) - 1 = L - j
    BY <1>2, <2>2, <2>3
  <2>5. j - 1 \notin Bad
    <3> HIDE DEF Bad
    <3> QED BY <2>2, <2>4
  <2>6. Ok(L - (j - 1))
    BY <2>4, <2>5
  <2>7. Ok(L - (j - 1) - 1)
    BY <1>6, <2>4, <2>6
  <2> QED BY <2>2, <2>4, <2>7
<1>8. Ok(0)
  <2>1. L \in 0 .. L /\ L - L = 0
    BY <1>2
  <2> QED BY <1>7, <2>1
<1>9. SweepInv(o, root, d, Sweep(o, root), Passed(o, 0))
  BY <1>4, <1>8 DEF Ok
<1>10. Sweep(o, root) \in [GraphNode -> Int]
  BY <1>9 DEF SweepInv
<1>11. d[root] = IF leaf \in requires /\ leaf \in ToSet(o) THEN Sweep(o, root)[leaf] ELSE 0
  BY <1>1, <1>3, <1>9, SweepEnd
<1> QED BY <1>3, <1>10, <1>11 DEF o

\* What backward() leaves in a leaf.
LEMMA DepositIs ==
  ASSUME AgInv, NEW root \in requires
  PROVE  /\ Deposited(root) \in [Leaf -> Int]
         /\ \A l \in Leaf : Deposited(root)[l] = leafGrad[l] + Derivative(root, l)
<1> DEFINE o == AutogradOrder(root)
           G == Sweep(o, root)
           D == Deposited(root)
<1>1. D = [l \in Leaf |-> IF l \in requires /\ l \in ToSet(o) THEN leafGrad[l] + G[l] ELSE leafGrad[l]]
  BY DEF Deposited
<1>2. ASSUME NEW l \in Leaf
      PROVE  /\ G \in [GraphNode -> Int]
             /\ Derivative(root, l) = IF l \in requires /\ l \in ToSet(o) THEN G[l] ELSE 0
  BY SweepComplete
<1> HIDE DEF o, G, D
<1>3. ASSUME NEW l \in Leaf PROVE D[l] = leafGrad[l] + Derivative(root, l) /\ D[l] \in Int
  <2>1. G[l] \in Int /\ leafGrad[l] \in Int
    BY <1>2, NodesNumbered DEF AgInv
  <2>2. CASE l \in requires /\ l \in ToSet(o)
    <3>1. D[l] = leafGrad[l] + G[l] /\ Derivative(root, l) = G[l]
      BY <1>1, <1>2, <2>2
    <3> QED BY <2>1, <3>1
  <2>3. CASE ~ (l \in requires /\ l \in ToSet(o))
    <3>1. D[l] = leafGrad[l] /\ Derivative(root, l) = 0
      BY <1>1, <1>2, <2>3
    <3> QED BY <2>1, <3>1
  <2> QED BY <2>2, <2>3
<1>4. D \in [Leaf -> Int]
  BY <1>1, <1>3
<1> QED BY <1>3, <1>4 DEF D

-----------------------------------------------------------------------------
(* The state machine.                                                      *)

\* The invariant holds at first.
LEMMA AgInitOk == AgInit => AgInv
<1> SUFFICES ASSUME AgInit PROVE AgInv
  OBVIOUS
<1>1. TapeOK
  BY DEF AgInit, TapeOK
<1>2. requires \subseteq GraphNode
  BY DEF AgInit, RequiresGrad
<1>3. leafGrad \in [Leaf -> Int] /\ backwards \in Nat /\ regraded \in Nat
  BY DEF AgInit, NoGradient
<1> QED BY <1>1, <1>2, <1>3 DEF AgInv

\* Each action keeps it.
LEMMA AgNextOk == AgInv /\ [AgNext]_agVars => AgInv'
<1> SUFFICES ASSUME AgInv, [AgNext]_agVars PROVE AgInv'
  OBVIOUS
<1>1. ASSUME NEW n \in GraphNode, RunBackward(n) PROVE AgInv'
  <2>1. leafGrad' \in [Leaf -> Int]
    BY <1>1, DepositIs DEF RunBackward
  <2> QED BY <1>1, <2>1 DEF AgInv, TapeOK, RunBackward
<1>2. ASSUME NEW n \in GraphNode, SetRequiresGrad(n) PROVE AgInv'
  BY <1>2 DEF AgInv, TapeOK, SetRequiresGrad
<1>3. CASE BackwardRaises
  BY <1>3 DEF AgInv, TapeOK, BackwardRaises
<1>4. ASSUME NEW l \in Leaf, ClearGrad(l) PROVE AgInv'
  BY <1>4 DEF AgInv, TapeOK, ClearGrad, NoGradient
<1>5. CASE UNCHANGED agVars
  BY <1>5 DEF AgInv, TapeOK, agVars
<1> QED BY <1>1, <1>2, <1>3, <1>4, <1>5 DEF AgNext

\* The tape stays acyclic, and what requires grad and the leaves' gradients stay
\* what they should be, whatever backward(), zero_grad() and set_requires_grad()
\* are called in.
THEOREM AutogradTyped == AgSpec => []AgInv
<1> QED BY AgInitOk, AgNextOk, PTL DEF AgSpec

\* The sum of each leaf's gradient over all the paths from the root, whatever the
\* graph: backward() of autograd.cpp adds the whole derivative to every leaf, and
\* nothing when it raises.
THEOREM BackwardIsComplete == AgSpec => GradientsComplete
<1> DEFINE Complete == backwards' > backwards =>
             \A l \in Leaf :
               leafGrad'[l] = leafGrad[l] + IF answered' = 0 THEN 0 ELSE Derivative(answered', l)
<1>1. AgInv /\ [AgNext]_agVars => [Complete]_agVars
  <2> SUFFICES ASSUME AgInv, AgNext PROVE Complete
    OBVIOUS
  <2>1. ASSUME NEW n \in GraphNode, RunBackward(n) PROVE Complete
    <3>1. n \in requires /\ leafGrad' = Deposited(n) /\ answered' = n
      BY <2>1 DEF RunBackward
    <3>2. n # 0
      <4>1. Size \in Nat /\ n \in 1 .. Size
        BY NodesNumbered
      <4> QED BY <4>1
    <3>3. \A l \in Leaf : leafGrad'[l] = leafGrad[l] + Derivative(n, l)
      BY <3>1, DepositIs
    <3> QED BY <3>1, <3>2, <3>3
  <2>2. ASSUME NEW n \in GraphNode, SetRequiresGrad(n) PROVE Complete
    BY <2>2 DEF SetRequiresGrad, AgInv
  <2>3. CASE BackwardRaises
    <3>1. leafGrad' = leafGrad /\ answered' = 0
      BY <2>3 DEF BackwardRaises
    <3>2. \A l \in Leaf : leafGrad[l] \in Int
      BY DEF AgInv
    <3> QED BY <3>1, <3>2
  <2>4. ASSUME NEW l \in Leaf, ClearGrad(l) PROVE Complete
    BY <2>4 DEF ClearGrad, AgInv
  <2> QED BY <2>1, <2>2, <2>3, <2>4 DEF AgNext
<1>2. AgInv /\ [AgNext]_agVars => AgInv'
  BY AgNextOk
<1> HIDE DEF Complete
<1>3. AgSpec => [][Complete]_agVars
  BY AgInitOk, <1>1, <1>2, PTL DEF AgSpec
<1> QED BY <1>3 DEF GradientsComplete, Complete
===============================================================================
