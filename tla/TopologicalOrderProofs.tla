------------------------ MODULE TopologicalOrderProofs ------------------------
(* The order realize() evaluates is sound for every graph: sources first, no    *)
(* node twice, none that is computed, and all of what the roots need and no     *)
(* more.                                                                        *)
EXTENDS TopologicalOrder, SequenceTheorems, WellFoundedInduction, TLAPS

Frame == [node : Node, next : Nat \ {0}]

(* The graph is one a program can build: sources are older. *)
GraphOK ==
  \A n \in Node : /\ src[n] \in Seq(Node)
                  /\ \A k \in 1 .. Len(src[n]) : src[n][k] < n

SearchType ==
  /\ roots \in Seq(Node)
  /\ stack \in Seq(Frame)
  /\ done \subseteq Node
  /\ order \in Seq(Node)

(* A node is done when it is in the order or holds its value. *)
DoneIsSettled ==
  /\ done \subseteq computed \cup Ordered
  /\ Ordered \subseteq done

(* Every frame of the stack is below its parent, and none is done.              *)
StackDescends ==
  /\ \A i \in 1 .. Len(stack) : stack[i].node \notin done
  /\ \A i, j \in 1 .. Len(stack) : i < j => stack[j].node < stack[i].node

(* A frame is done with the sources it has advanced past, except the one the    *)
(* frame above it is for.                                                       *)
SourcesBehind ==
  \A i \in 1 .. Len(stack) : \A k \in 1 .. Len(src[stack[i].node]) :
    k < stack[i].next =>
      \/ src[stack[i].node][k] \in done
      \/ i < Len(stack) /\ src[stack[i].node][k] = stack[i + 1].node

TopoInv == GraphOK /\ SearchType /\ DoneIsSettled /\ StackDescends /\ SourcesBehind /\ SourcesFirst

\* Any acyclic graph, before the search starts.
LEMMA TopoInvInit == TopoInit => TopoInv
<1> SUFFICES ASSUME TopoInit PROVE TopoInv
  OBVIOUS
<1>1. GraphOK
  <2> SUFFICES ASSUME NEW n \in Node
               PROVE  src[n] \in Seq(Node) /\ \A k \in 1 .. Len(src[n]) : src[n][k] < n
    BY DEF GraphOK
  <2>1. src[n] \in UNION {[1 .. k -> Node] : k \in 0 .. MaxSrc} /\ \A i \in DOMAIN src[n] : src[n][i] < n
    BY DEF TopoInit, Graphs
  <2>2. PICK k \in 0 .. MaxSrc : src[n] \in [1 .. k -> Node]
    BY <2>1
  <2>3. src[n] \in Seq(Node) /\ DOMAIN src[n] = 1 .. Len(src[n])
    BY <2>2, NumNodesAssumption
  <2> QED BY <2>1, <2>3
<1>2. roots \in Seq(Node)
  <2>1. PICK k \in 0 .. MaxRoots : asked \in [1 .. k -> Node]
    BY DEF TopoInit
  <2> QED BY <2>1, NumNodesAssumption DEF TopoInit
<1>3. SearchType
  BY <1>2 DEF TopoInit, SearchType
<1>4. DoneIsSettled /\ StackDescends /\ SourcesBehind /\ SourcesFirst
  BY DEF TopoInit, DoneIsSettled, StackDescends, SourcesBehind, SourcesFirst, Ordered
<1> QED BY <1>1, <1>3, <1>4 DEF TopoInv

(* What popping a stack leaves. *)
LEMMA PoppedFrames ==
  ASSUME SearchType, stack # <<>>
  PROVE  /\ Popped \in Seq(Frame) /\ Len(Popped) = Len(stack) - 1
         /\ \A i \in 1 .. Len(Popped) : Popped[i] = stack[i]
         /\ Len(stack) \in Nat \ {0} /\ Top \in Frame /\ Top = stack[Len(stack)]
<1>1. Len(stack) \in Nat \ {0}
  BY DEF SearchType
<1>2. Top \in Frame
  BY <1>1 DEF SearchType, Top
<1>3. \A i \in 1 .. Len(stack) - 1 : stack[i] \in Frame
  BY <1>1 DEF SearchType
<1>4. /\ Popped \in Seq(Frame)
      /\ Len(Popped) = Len(stack) - 1
      /\ \A i \in 1 .. Len(stack) - 1 : Popped[i] = stack[i]
  <2>1. /\ SubSeq(stack, 1, Len(stack) - 1) \in Seq(Frame)
        /\ Len(SubSeq(stack, 1, Len(stack) - 1)) = Len(stack) - 1
        /\ \A i \in 1 .. Len(stack) - 1 : SubSeq(stack, 1, Len(stack) - 1)[i] = stack[i]
    <3> DEFINE m == Len(stack) - 1
    <3>1. m \in Nat /\ \A i \in 1 .. m : stack[i] \in Frame
      BY <1>1, <1>3
    <3> HIDE DEF m
    <3>2. /\ SubSeq(stack, 1, m) \in Seq(Frame)
          /\ Len(SubSeq(stack, 1, m)) = IF 1 <= m THEN m - 1 + 1 ELSE 0
          /\ \A i \in 1 .. m - 1 + 1 : SubSeq(stack, 1, m)[i] = stack[1 + i - 1]
      BY <3>1, SubSeqProperties
    <3>3. /\ SubSeq(stack, 1, m) \in Seq(Frame)
          /\ Len(SubSeq(stack, 1, m)) = m
          /\ \A i \in 1 .. m : SubSeq(stack, 1, m)[i] = stack[i]
      BY <3>1, <3>2
    <3> QED BY <3>3 DEF m
  <2> QED BY <1>1, <2>1 DEF Popped
<1> QED BY <1>1, <1>2, <1>4 DEF Top

(* The nodes of the stack. *)
LEMMA StackNodes ==
  ASSUME SearchType
  PROVE  \A i \in 1 .. Len(stack) : stack[i].node \in Node /\ stack[i].node \in Int
                                     /\ stack[i].next \in Nat \ {0}
<1> SUFFICES ASSUME NEW i \in 1 .. Len(stack)
             PROVE  stack[i].node \in Node /\ stack[i].node \in Int /\ stack[i].next \in Nat \ {0}
  OBVIOUS
<1>1. stack[i] \in Frame
  BY ElementOfSeq DEF SearchType
<1>2. stack[i].node \in Node /\ stack[i].next \in Nat \ {0}
  BY <1>1 DEF Frame
<1>3. Node \subseteq Int
  BY NumNodesAssumption DEF Node
<1> QED BY <1>2, <1>3

(* Leaving a node: it is done, and the frames below it are as they were. *)
LEMMA LeavingKeeps ==
  ASSUME TopoInv, stack # <<>>, stack' = Popped, done' = done \cup {Top.node},
         UNCHANGED <<src, computed, asked, roots>>
  PROVE  StackDescends' /\ SourcesBehind'
<1> USE DEF TopoInv
<1> DEFINE m == Len(stack)
<1>1. /\ m \in Nat \ {0} /\ Len(stack') = m - 1 /\ Top = stack[m]
      /\ \A i \in 1 .. m - 1 : stack'[i] = stack[i]
  BY PoppedFrames
<1>2. StackDescends'
  <2>1. \A i \in 1 .. m - 1 : stack[i].node # Top.node
    BY <1>1, StackNodes DEF StackDescends
  <2>2. \A i \in 1 .. Len(stack') : stack'[i].node \notin done'
    BY <1>1, <2>1 DEF StackDescends
  <2>3. \A i, j \in 1 .. Len(stack') : i < j => stack'[j].node < stack'[i].node
    BY <1>1 DEF StackDescends
  <2> QED BY <2>2, <2>3 DEF StackDescends
<1>3. SourcesBehind'
  <2> SUFFICES ASSUME NEW i \in 1 .. m - 1, NEW k \in 1 .. Len(src[stack[i].node]), k < stack[i].next
               PROVE  \/ src[stack[i].node][k] \in done'
                      \/ i < m - 1 /\ src[stack[i].node][k] = stack[i + 1].node
    BY <1>1, SMTT(60) DEF SourcesBehind
  <2>1. \/ src[stack[i].node][k] \in done
        \/ i < m /\ src[stack[i].node][k] = stack[i + 1].node
    BY <1>1 DEF SourcesBehind
  <2> QED BY <1>1, <2>1
<1> QED BY <1>2, <1>3

\* A root starts a stack of one frame.
LEMMA NextRootKeeps == ASSUME TopoInv, NextRoot PROVE TopoInv'
<1> USE DEF TopoInv
<1>1. Head(roots) \in Node /\ Tail(roots) \in Seq(Node)
  BY HeadTailProperties DEF SearchType, NextRoot
<1> DEFINE frame == [node |-> Head(roots), next |-> FirstSource]
<1>2. frame \in Frame /\ frame.node = Head(roots) /\ frame.next = 1
  BY <1>1 DEF Frame, FirstSource
<1>3. stack' = <<>> \/ (stack' = <<frame>> /\ frame.node \notin done)
  BY DEF NextRoot, Skip
<1> HIDE DEF frame
<1>4. UNCHANGED <<src, computed, done, order>> /\ roots' = Tail(roots)
  BY DEF NextRoot, graph
<1>5. GraphOK' /\ DoneIsSettled' /\ SourcesFirst'
  BY <1>4 DEF GraphOK, DoneIsSettled, SourcesFirst, Ordered
<1>6. CASE stack' = <<>>
  BY <1>1, <1>4, <1>5, <1>6 DEF SearchType, StackDescends, SourcesBehind
<1>7. CASE stack' = <<frame>> /\ frame.node \notin done
  <2>1. stack' \in Seq(Frame) /\ Len(stack') = 1 /\ stack'[1] = frame
    BY <1>2, <1>7
  <2>2. SearchType'
    BY <1>1, <1>4, <2>1 DEF SearchType
  <2>3. StackDescends' /\ SourcesBehind'
    BY <1>2, <1>4, <1>7, <2>1 DEF StackDescends, SourcesBehind
  <2> QED BY <1>5, <2>2, <2>3
<1> QED BY <1>3, <1>6, <1>7

\* The search does not walk behind a computed node.
LEMMA StopKeeps == ASSUME TopoInv, StopAtComputed PROVE TopoInv'
<1> USE DEF TopoInv
<1>1. UNCHANGED <<src, computed, asked, roots, order>> /\ done' = done \cup {Top.node}
      /\ stack' = Popped /\ stack # <<>> /\ Top.node \in computed
  BY DEF StopAtComputed, graph, IsLeaf
<1>2. StackDescends' /\ SourcesBehind'
  BY <1>1, LeavingKeeps
<1>3. Top.node \in Node /\ Popped \in Seq(Frame)
  BY <1>1, PoppedFrames DEF Frame
<1>4. GraphOK' /\ SearchType' /\ SourcesFirst'
  BY <1>1, <1>3 DEF GraphOK, SearchType, SourcesFirst
<1>5. DoneIsSettled'
  BY <1>1 DEF DoneIsSettled, Ordered
<1> QED BY <1>2, <1>4, <1>5

\* A node is emitted when all its sources are settled.
LEMMA EmitKeeps == ASSUME TopoInv, Emit PROVE TopoInv'
<1> USE DEF TopoInv
<1> DEFINE n == Top.node
<1>1. UNCHANGED <<src, computed, asked, roots>> /\ done' = done \cup {n} /\ order' = Append(order, n)
      /\ stack' = Popped /\ stack # <<>> /\ n \notin computed /\ ~(Top.next <= Len(src[n]))
  BY DEF Emit, graph, IsLeaf, SourcesLeft
<1>2. StackDescends' /\ SourcesBehind'
  BY <1>1, LeavingKeeps
<1>3. n \in Node /\ Top.next \in Nat /\ Popped \in Seq(Frame) /\ Top = stack[Len(stack)] /\ Len(stack) \in Nat \ {0}
  BY <1>1, PoppedFrames DEF Frame
<1>4. n \notin done
  BY <1>3 DEF StackDescends
<1>5. src[n] \in Seq(Node) /\ \A k \in 1 .. Len(src[n]) : src[n][k] \in done
  <2>1. src[n] \in Seq(Node) /\ Len(src[n]) \in Nat
    BY <1>3 DEF GraphOK
  <2>2. ASSUME NEW k \in 1 .. Len(src[n]) PROVE src[n][k] \in done
    <3>1. k < Top.next
      BY <1>1, <1>3, <2>1
    <3> QED BY <1>3, <3>1 DEF SourcesBehind
  <2> QED BY <2>1, <2>2
<1>6. /\ order' \in Seq(Node) /\ Len(order') = Len(order) + 1 /\ Len(order) \in Nat
      /\ \A i \in 1 .. Len(order) : order'[i] = order[i]
      /\ order'[Len(order) + 1] = n
  BY <1>1, <1>3, AppendProperties DEF SearchType
<1>7. GraphOK' /\ SearchType'
  BY <1>1, <1>3, <1>6 DEF GraphOK, SearchType
<1>8. DOMAIN order = 1 .. Len(order) /\ DOMAIN order' = 1 .. Len(order) + 1
  BY <1>6 DEF SearchType
<1>9. DoneIsSettled'
  BY <1>1, <1>6, <1>8 DEF DoneIsSettled, Ordered
<1>10. SourcesFirst'
  <2> SUFFICES ASSUME NEW i \in 1 .. Len(order) + 1
               PROVE  /\ order'[i] \notin computed
                      /\ \A k \in DOMAIN src[order'[i]] :
                           src[order'[i]][k] \in computed \cup {order'[j] : j \in 1 .. i - 1}
                      /\ \A j \in 1 .. i - 1 : order'[j] # order'[i]
    BY <1>1, <1>8 DEF SourcesFirst
  <2>1. CASE i \in 1 .. Len(order)
    <3>1. \A j \in 1 .. i - 1 : order'[j] = order[j]
      BY <1>6, <2>1
    <3>2. order'[i] = order[i]
      BY <1>6, <2>1
    <3>3. {order'[j] : j \in 1 .. i - 1} = {order[j] : j \in 1 .. i - 1}
      BY <3>1
    <3> QED BY <1>8, <2>1, <3>1, <3>2, <3>3 DEF SourcesFirst
  <2>2. CASE i = Len(order) + 1
    <3>1. order'[i] = n
      BY <1>6, <2>2
    <3>2. \A j \in 1 .. i - 1 : order'[j] = order[j] /\ order[j] \in done
      BY <1>6, <1>8, <2>2 DEF DoneIsSettled, Ordered
    <3>3. done \subseteq computed \cup {order'[j] : j \in 1 .. i - 1}
      BY <1>6, <1>8, <2>2, <3>2 DEF DoneIsSettled, Ordered
    <3>4. DOMAIN src[n] = 1 .. Len(src[n])
      BY <1>5
    <3> QED BY <1>1, <1>4, <1>5, <3>1, <3>2, <3>3, <3>4
  <2> QED BY <1>6, <2>1, <2>2
<1> QED BY <1>2, <1>7, <1>9, <1>10

(* Down: the source is younger than every node on the stack. *)
LEMMA DescendKeeps == ASSUME TopoInv, Descend PROVE TopoInv'
<1> USE DEF TopoInv
<1> DEFINE m == Len(stack)
           n == Top.node
           child == src[n][Top.next]
           rest == Append(Popped, Advanced)
           frame == [node |-> child, next |-> FirstSource]
<1>1. UNCHANGED <<src, computed, asked, roots, done, order>> /\ stack # <<>> /\ Top.next <= Len(src[n])
      /\ stack' = IF child \in done THEN rest ELSE Append(rest, frame)
  BY DEF Descend, graph, SourcesLeft, Skip
<1>2. /\ Popped \in Seq(Frame) /\ Len(Popped) = m - 1 /\ m \in Nat \ {0}
      /\ \A i \in 1 .. m - 1 : Popped[i] = stack[i]
      /\ Top \in Frame /\ Top = stack[m]
  BY <1>1, PoppedFrames
<1>3. n \in Node /\ Top.next \in Nat \ {0}
  BY <1>2 DEF Frame
<1>4. child \in Node /\ child < n
  <2>1. src[n] \in Seq(Node) /\ Top.next \in 1 .. Len(src[n])
    BY <1>1, <1>3 DEF GraphOK
  <2> QED BY <1>3, <2>1, ElementOfSeq DEF GraphOK
<1>5. Advanced \in Frame /\ Advanced.node = n /\ Advanced.next = Top.next + 1
  BY <1>2 DEF Advanced, Frame
<1>6. /\ rest \in Seq(Frame) /\ Len(rest) = m
      /\ \A i \in 1 .. m - 1 : rest[i] = stack[i]
      /\ rest[m] = Advanced
  BY <1>2, <1>5, AppendProperties
<1>7. GraphOK' /\ DoneIsSettled' /\ SourcesFirst'
  BY <1>1 DEF GraphOK, DoneIsSettled, SourcesFirst, Ordered
<1>8. \A i \in 1 .. m : rest[i].node = stack[i].node
  BY <1>2, <1>5, <1>6
<1>9. ASSUME NEW i \in 1 .. m, NEW k \in 1 .. Len(src[rest[i].node]), k < rest[i].next
      PROVE  \/ src[rest[i].node][k] \in done
             \/ i < m /\ src[rest[i].node][k] = rest[i + 1].node
             \/ i = m /\ src[rest[i].node][k] = child
  <2>1. CASE i = m
    <3>1. rest[i].node = n /\ rest[i].next = Top.next + 1
      BY <1>5, <1>6, <2>1
    <3>2. k < Top.next \/ k = Top.next
      BY <1>3, <1>9, <3>1
    <3>3. k < Top.next => src[n][k] \in done
      BY <1>2, <1>9, <2>1, <3>1 DEF SourcesBehind
    <3> QED BY <2>1, <3>1, <3>2, <3>3
  <2>2. CASE i < m
    <3>1. rest[i] = stack[i] /\ rest[i + 1].node = stack[i + 1].node
      BY <1>2, <1>6, <1>8, <2>2
    <3> QED BY <1>2, <1>9, <2>2, <3>1 DEF SourcesBehind
  <2> QED BY <1>2, <2>1, <2>2
<1> HIDE DEF rest, child, n
<1>10. CASE child \in done
  <2>1. stack' = rest
    BY <1>1, <1>10
  <2>2. SearchType'
    BY <1>1, <1>6, <2>1 DEF SearchType
  <2>3. StackDescends'
    BY <1>1, <1>6, <1>8, <2>1 DEF StackDescends
  <2>4. SourcesBehind'
    BY <1>1, <1>6, <1>9, <1>10, <2>1 DEF SourcesBehind
  <2> QED BY <1>7, <2>2, <2>3, <2>4
<1>11. CASE child \notin done
  <2>1. frame \in Frame /\ frame.node = child /\ frame.next = 1
    BY <1>4 DEF Frame, FirstSource
  <2> HIDE DEF frame
  <2>2. stack' = Append(rest, frame)
    BY <1>1, <1>11
  <2>3. /\ stack' \in Seq(Frame) /\ Len(stack') = m + 1
        /\ \A i \in 1 .. m : stack'[i] = rest[i]
        /\ stack'[m + 1] = frame
    BY <1>6, <2>1, <2>2, AppendProperties
  <2>4. SearchType'
    BY <1>1, <2>3 DEF SearchType
  <2>5. \A i \in 1 .. m : stack[i].node \in Int /\ child < stack[i].node
    <3>1. child \in Int /\ n \in Int
      BY <1>3, <1>4, NumNodesAssumption DEF Node
    <3>2. \A i \in 1 .. m : stack[i].node \in Int
      BY StackNodes
    <3>3. n = stack[m].node
      BY <1>2 DEF n
    <3>4. \A i \in 1 .. m : i < m => n < stack[i].node
      BY <1>2, <3>3 DEF StackDescends
    <3> QED BY <1>2, <1>4, <3>1, <3>2, <3>3, <3>4
  <2>6. StackDescends'
    <3>1. \A i \in 1 .. m + 1 : stack'[i].node \notin done'
      BY <1>1, <1>2, <1>8, <1>11, <2>1, <2>3 DEF StackDescends
    <3>2. ASSUME NEW i \in 1 .. m + 1, NEW j \in 1 .. m + 1, i < j
          PROVE  stack'[j].node < stack'[i].node
      <4>1. i \in 1 .. m /\ stack'[i].node = stack[i].node
        BY <1>2, <1>8, <2>3, <3>2
      <4>2. CASE j = m + 1
        BY <2>1, <2>3, <2>5, <4>1, <4>2
      <4>3. CASE j \in 1 .. m
        BY <1>8, <2>3, <3>2, <4>1, <4>3 DEF StackDescends
      <4> QED BY <1>2, <4>2, <4>3
    <3> QED BY <2>3, <3>1, <3>2 DEF StackDescends
  <2>7. SourcesBehind'
    <3> SUFFICES ASSUME NEW i \in 1 .. m + 1, NEW k \in 1 .. Len(src[stack'[i].node]), k < stack'[i].next
                 PROVE  \/ src[stack'[i].node][k] \in done
                        \/ i < m + 1 /\ src[stack'[i].node][k] = stack'[i + 1].node
      BY <1>1, <2>3, SMTT(60) DEF SourcesBehind
    <3>1. i # m + 1
      BY <1>2, <2>1, <2>3
    <3>2. i \in 1 .. m /\ stack'[i] = rest[i]
      BY <1>2, <2>3, <3>1
    <3>3. i < m => stack'[i + 1] = rest[i + 1]
      BY <1>2, <2>3, <3>2
    <3>4. i = m => stack'[i + 1].node = child
      BY <2>1, <2>3
    <3> QED BY <1>2, <1>9, <3>2, <3>3, <3>4, SMTT(60)
  <2> QED BY <1>7, <2>4, <2>6, <2>7
<1> QED BY <1>10, <1>11

\* Every step of the search preserves the invariant.
LEMMA TopoInvNext == TopoInv /\ [TopoNext]_tvars => TopoInv'
<1> SUFFICES ASSUME TopoInv, [TopoNext]_tvars PROVE TopoInv'
  OBVIOUS
<1>1. CASE UNCHANGED tvars
  BY <1>1 DEF tvars, TopoInv, GraphOK, SearchType, DoneIsSettled, StackDescends, SourcesBehind, SourcesFirst, Ordered
<1>2. CASE NextRoot
  BY <1>2, NextRootKeeps
<1>3. CASE StopAtComputed
  BY <1>3, StopKeeps
<1>4. CASE Descend
  BY <1>4, DescendKeeps
<1>5. CASE Emit
  BY <1>5, EmitKeeps
<1> QED BY <1>1, <1>2, <1>3, <1>4, <1>5 DEF TopoNext

(* The inductive invariant of the search: what is done is settled, the stack is *)
(* a chain of ever older nodes none of which is done, and a frame leaves no     *)
(* source behind that is neither done nor being searched.                       *)
THEOREM SearchInvariant == TopoSpec => []TopoInv
BY TopoInvInit, TopoInvNext, PTL DEF TopoSpec

(* SourcesFirst, the contract of topological_order(), for every acyclic graph,  *)
(* every set of computed nodes and every list of roots.                         *)
THEOREM OrderIsTopological == TopoSpec => []SourcesFirst
<1>1. TopoInv => SourcesFirst
  BY DEF TopoInv
<1> QED BY <1>1, SearchInvariant, PTL

(* topological_order()'s branch "Reached again through a second parent": no     *)
(* frame is ever of a node that is done, so the branch cannot be taken.         *)
THEOREM NoFrameIsDone == TopoSpec => [](\A i \in 1 .. Len(stack) : stack[i].node \notin done)
<1>1. TopoInv => \A i \in 1 .. Len(stack) : stack[i].node \notin done
  BY DEF TopoInv, StackDescends
<1> QED BY <1>1, SearchInvariant, PTL
-----------------------------------------------------------------------------
(* Exactly what the roots need                                             *)

\* Needed()'s equation: n is needed for what is needed above it.
NeededFor(rs, n, above) ==
  /\ n \notin computed
  /\ n \in rs \/ \E m \in n + 1 .. NumNodes : m \in above /\ \E i \in DOMAIN src[m] : src[m][i] = n
UpOf(rs) ==
  CHOOSE up : up = [n \in Node |-> n \notin computed /\
                      (n \in rs \/ \E m \in n + 1 .. NumNodes : up[m] /\ \E i \in DOMAIN src[m] : src[m][i] = n)]

\* The least set that holds what is needed for it satisfies the equation, so
\* Needed() is well defined.
LEMMA NeededExists ==
  ASSUME NEW rs
  PROVE  \E R \in SUBSET Node : \A n \in Node : n \in R <=> NeededFor(rs, n, R)
<1> DEFINE Closed(S) == \A n \in Node : NeededFor(rs, n, S) => n \in S
           R == {n \in Node : \A S \in SUBSET Node : Closed(S) => n \in S}
<1>1. \A S, T : S \subseteq T => \A n : NeededFor(rs, n, S) => NeededFor(rs, n, T)
  BY DEF NeededFor
<1>2. \A S \in SUBSET Node : Closed(S) => R \subseteq S
  OBVIOUS
<1>3. ASSUME NEW n \in Node, NeededFor(rs, n, R) PROVE n \in R
  <2>1. ASSUME NEW S \in SUBSET Node, Closed(S) PROVE n \in S
    <3>1. NeededFor(rs, n, S)
      BY <1>1, <1>2, <1>3, <2>1
    <3> QED BY <2>1, <3>1
  <2> QED BY <2>1
<1>4. ASSUME NEW n \in R, ~NeededFor(rs, n, R) PROVE FALSE
  <2> DEFINE S == R \ {n}
  <2>1. Closed(S)
    <3> SUFFICES ASSUME NEW m \in Node, NeededFor(rs, m, S) PROVE m \in S
      OBVIOUS
    <3>1. NeededFor(rs, m, R)
      BY <1>1
    <3>2. m \in R
      BY <1>3, <3>1
    <3>3. m # n
      BY <1>4, <3>1
    <3> QED BY <3>2, <3>3
  <2>2. S \in SUBSET Node
    OBVIOUS
  <2> HIDE DEF Closed, R
  <2>3. R \subseteq S
    BY <1>2, <2>1, <2>2
  <2> QED BY <1>4, <2>3
<1>5. R \in SUBSET Node
  OBVIOUS
<1> HIDE DEF R
<1> QED BY <1>3, <1>4, <1>5

\* A node is needed exactly when it has no value and is a root or a source of a
\* needed node.
LEMMA NeededStep ==
  ASSUME NEW rs
  PROVE  Needed(rs) \subseteq Node /\ \A n \in Node : n \in Needed(rs) <=> NeededFor(rs, n, Needed(rs))
<1> DEFINE Rule(up) == [n \in Node |-> n \notin computed /\
                          (n \in rs \/ \E m \in n + 1 .. NumNodes : up[m] /\ \E i \in DOMAIN src[m] : src[m][i] = n)]
<1>1. PICK R \in SUBSET Node : \A n \in Node : n \in R <=> NeededFor(rs, n, R)
  BY NeededExists
<1>2. \A n \in Node : \A m \in n + 1 .. NumNodes : m \in Node
  BY NumNodesAssumption DEF Node
<1> DEFINE f == [n \in Node |-> n \in R]
<1>3. f = Rule(f)
  <2>1. ASSUME NEW n \in Node PROVE f[n] = Rule(f)[n]
    <3>1. \A m \in n + 1 .. NumNodes : f[m] <=> m \in R
      BY <1>2
    <3>2. Rule(f)[n] <=> NeededFor(rs, n, R)
      BY <3>1 DEF NeededFor
    <3>3. f[n] <=> NeededFor(rs, n, R)
      BY <1>1
    <3>4. f[n] \in BOOLEAN /\ Rule(f)[n] \in BOOLEAN
      OBVIOUS
    <3> HIDE DEF f, Rule
    <3> QED BY <3>2, <3>3, <3>4
  <2> QED BY <2>1
<1> DEFINE U == UpOf(rs)
<1>4. U = Rule(U)
  BY <1>3 DEF UpOf
<1>5. Needed(rs) = {n \in Node : U[n]}
  BY DEF Needed, UpOf
<1>6. ASSUME NEW n \in Node PROVE n \in Needed(rs) <=> NeededFor(rs, n, Needed(rs))
  <2>1. \A m \in n + 1 .. NumNodes : U[m] <=> m \in Needed(rs)
    BY <1>2, <1>5
  <2>2. Rule(U)[n] <=> NeededFor(rs, n, Needed(rs))
    BY <2>1 DEF NeededFor
  <2>3. U[n] <=> Rule(U)[n]
    BY <1>4
  <2> HIDE DEF U, Rule
  <2> QED BY <1>5, <2>2, <2>3
<1> QED BY <1>5, <1>6

\* A set of nodes that is not empty has a latest one.
LEMMA LatestExists ==
  ASSUME NEW S \in SUBSET Node, S # {}
  PROVE  \E n \in S : \A m \in S : m <= n
<1> DEFINE Later == OpToRel(<, Nat)
           T == {NumNodes - n : n \in S}
<1>1. T \in SUBSET Nat /\ T # {}
  BY NumNodesAssumption DEF Node
<1>2. \E t \in T : \A u \in T : ~ (<<u, t>> \in Later)
  <2> HIDE DEF T
  <2> QED BY <1>1, NatLessThanWellFounded, WFMin
<1>3. \A t, u \in Nat : <<u, t>> \in Later <=> u < t
  BY DEF OpToRel
<1> HIDE DEF Later
<1>4. PICK t \in T : \A u \in T : ~ (u < t)
  BY <1>1, <1>2, <1>3
<1>5. PICK n \in S : t = NumNodes - n
  BY <1>4
<1>6. \A m \in S : ~ (NumNodes - m < NumNodes - n)
  BY <1>4, <1>5
<1>7. \A m \in S : m \in Int /\ n \in Int
  BY NumNodesAssumption DEF Node
<1> QED BY <1>6, <1>7, NumNodesAssumption

(* What the search enters is needed or has its value already, and no root is    *)
(* forgotten: it is still listed, or being searched, or done.                   *)
FramesNeeded == \A i \in 1 .. Len(stack) : stack[i].node \in computed \cup Needed(Asked)
RootsAsked == \A j \in 1 .. Len(roots) : roots[j] \in Asked
RootsKept ==
  \A n \in Asked :
    \/ n \in done
    \/ \E j \in 1 .. Len(roots) : roots[j] = n
    \/ stack # <<>> /\ stack[1].node = n

NeedInv ==
  /\ TopoInv /\ Asked \subseteq Node
  /\ FramesNeeded /\ RootsAsked /\ RootsKept
  /\ Ordered \subseteq Needed(Asked)

\* Before the search starts, all roots are still to come.
LEMMA NeedInit == TopoInit => NeedInv
<1> SUFFICES ASSUME TopoInit PROVE NeedInv
  OBVIOUS
<1>1. stack = <<>> /\ order = <<>> /\ roots = asked
  BY DEF TopoInit
<1>2. TopoInv /\ asked \in Seq(Node)
  BY <1>1, TopoInvInit DEF TopoInv, SearchType
<1>3. DOMAIN asked = 1 .. Len(asked) /\ Asked \subseteq Node
  BY <1>2 DEF Asked
<1>4. FramesNeeded /\ RootsAsked /\ RootsKept
  BY <1>1, <1>3 DEF FramesNeeded, RootsAsked, RootsKept, Asked
<1>5. Ordered = {}
  BY <1>1 DEF Ordered
<1> QED BY <1>2, <1>3, <1>4, <1>5 DEF NeedInv

\* The graph and the call do not change.
LEMMA GraphStays == ASSUME UNCHANGED graph PROVE Asked' = Asked /\ Needed(Asked)' = Needed(Asked)
BY DEF graph, Asked, Needed

\* A root is needed because it was asked for.
LEMMA NextRootNeeds == ASSUME NeedInv, NextRoot PROVE NeedInv'
<1> USE DEF NeedInv
<1>1. UNCHANGED <<graph, done, order>> /\ roots' = Tail(roots) /\ roots # <<>> /\ stack = <<>>
      /\ Asked' = Asked /\ Needed(Asked)' = Needed(Asked)
  BY GraphStays DEF NextRoot
<1> DEFINE r == Head(roots)
           frame == [node |-> r, next |-> FirstSource]
<1>2. /\ r = roots[1] /\ Len(roots) \in Nat \ {0} /\ Len(roots') = Len(roots) - 1
      /\ \A j \in 1 .. Len(roots') : roots'[j] = roots[j + 1]
  BY <1>1, HeadTailProperties DEF TopoInv, SearchType
<1>3. r \in Asked /\ r \in Node
  BY <1>2 DEF RootsAsked
<1>4. (stack' = <<>> /\ r \in done) \/ stack' = <<frame>>
  BY DEF NextRoot, Skip
<1>5. r \in computed \cup Needed(Asked)
  BY <1>3, NeededStep DEF NeededFor
<1>6. FramesNeeded'
  <2>1. stack' = <<frame>> => Len(stack') = 1 /\ stack'[1].node = r
    OBVIOUS
  <2> HIDE DEF frame, r
  <2> QED BY <1>1, <1>4, <1>5, <2>1 DEF FramesNeeded, graph
<1>7. RootsAsked'
  BY <1>1, <1>2 DEF RootsAsked
<1>8. RootsKept'
  <2>1. stack' = <<frame>> => stack' # <<>> /\ stack'[1].node = r
    OBVIOUS
  <2> HIDE DEF frame, r
  <2>2. ASSUME NEW n \in Asked
        PROVE  n \in done \/ (\E j \in 1 .. Len(roots') : roots'[j] = n) \/ (stack' # <<>> /\ stack'[1].node = n)
    <3>1. n \in done \/ \E j \in 1 .. Len(roots) : roots[j] = n
      BY <1>1 DEF RootsKept
    <3>2. ASSUME NEW j \in 1 .. Len(roots), roots[j] = n, j # 1
          PROVE  \E k \in 1 .. Len(roots') : roots'[k] = n
      <4>1. j - 1 \in 1 .. Len(roots') /\ roots'[j - 1] = roots[j - 1 + 1] /\ j - 1 + 1 = j
        BY <1>2, <3>2
      <4> QED BY <3>2, <4>1
    <3> QED BY <1>2, <1>4, <2>1, <3>1, <3>2
  <2> QED BY <1>1, <2>2 DEF RootsKept
<1>9. TopoInv' /\ (Asked \subseteq Node)' /\ (Ordered \subseteq Needed(Asked))'
  BY <1>1, NextRootKeeps DEF Ordered
<1> QED BY <1>6, <1>7, <1>8, <1>9

\* A node the search leaves is done; its frame is gone, the others are not.
LEMMA LeavingNeeds ==
  ASSUME NeedInv, stack # <<>>, stack' = Popped, done' = done \cup {Top.node}, UNCHANGED <<graph, roots>>
  PROVE  FramesNeeded' /\ RootsAsked' /\ RootsKept' /\ (Asked \subseteq Node)'
<1> DEFINE m == Len(stack)
<1>1. Asked' = Asked /\ Needed(Asked)' = Needed(Asked) /\ computed' = computed
  BY GraphStays DEF graph
<1>2. /\ m \in Nat \ {0} /\ Len(stack') = m - 1 /\ Top = stack[m]
      /\ \A i \in 1 .. m - 1 : stack'[i] = stack[i]
  BY PoppedFrames DEF NeedInv, TopoInv
<1> HIDE DEF m
<1>3. FramesNeeded'
  BY <1>1, <1>2 DEF NeedInv, FramesNeeded, m
<1>4. RootsAsked'
  BY <1>1 DEF NeedInv, RootsAsked
<1>5. RootsKept'
  <2> SUFFICES ASSUME NEW n \in Asked
               PROVE  n \in done' \/ (\E j \in 1 .. Len(roots) : roots[j] = n) \/ (stack' # <<>> /\ stack'[1].node = n)
    BY <1>1 DEF RootsKept
  <2>1. n \in done \/ (\E j \in 1 .. Len(roots) : roots[j] = n) \/ stack[1].node = n
    BY DEF NeedInv, RootsKept
  <2>2. CASE stack[1].node = n /\ m = 1
    BY <1>2, <2>2
  <2>3. CASE stack[1].node = n /\ m > 1
    <3>1. stack'[1] = stack[1] /\ stack' # <<>>
      BY <1>2, <2>3
    <3> QED BY <2>3, <3>1
  <2> QED BY <1>2, <2>1, <2>2, <2>3
<1> QED BY <1>1, <1>3, <1>4, <1>5 DEF NeedInv

\* A computed node needs nothing to be emitted.
LEMMA StopNeeds == ASSUME NeedInv, StopAtComputed PROVE NeedInv'
<1>1. /\ stack # <<>> /\ stack' = Popped /\ done' = done \cup {Top.node} /\ UNCHANGED <<graph, roots>>
      /\ order' = order
  BY DEF StopAtComputed
<1>2. FramesNeeded' /\ RootsAsked' /\ RootsKept' /\ (Asked \subseteq Node)'
  BY <1>1, LeavingNeeds
<1>3. (Ordered \subseteq Needed(Asked))'
  BY <1>1, GraphStays DEF NeedInv, Ordered
<1> QED BY <1>2, <1>3, StopKeeps DEF NeedInv

\* An emitted node is one that a root needs.
LEMMA EmitNeeds == ASSUME NeedInv, Emit PROVE NeedInv'
<1>1. /\ stack # <<>> /\ stack' = Popped /\ done' = done \cup {Top.node} /\ UNCHANGED <<graph, roots>>
      /\ order' = Append(order, Top.node) /\ Top.node \notin computed
  BY DEF Emit, IsLeaf
<1>2. FramesNeeded' /\ RootsAsked' /\ RootsKept' /\ (Asked \subseteq Node)'
  BY <1>1, LeavingNeeds
<1>3. Top = stack[Len(stack)] /\ Len(stack) \in Nat \ {0} /\ Top.node \in Node
  BY <1>1, PoppedFrames DEF NeedInv, TopoInv, Frame
<1>4. Top.node \in Needed(Asked)
  BY <1>1, <1>3 DEF NeedInv, FramesNeeded
<1>5. order \in Seq(Node)
  BY DEF NeedInv, TopoInv, SearchType
<1>6. Ordered' \subseteq Ordered \cup {Top.node}
  BY <1>1, <1>3, <1>5, AppendProperties DEF Ordered
<1>7. (Ordered \subseteq Needed(Asked))'
  BY <1>1, <1>4, <1>6, GraphStays DEF NeedInv
<1> QED BY <1>2, <1>7, EmitKeeps DEF NeedInv

\* A source of a needed node that is not computed is needed.
LEMMA DescendNeeds == ASSUME NeedInv, Descend PROVE NeedInv'
<1> DEFINE n == Top.node
           child == src[n][Top.next]
           rest == Append(Popped, Advanced)
           frame == [node |-> child, next |-> FirstSource]
           m == Len(stack)
<1>1. /\ UNCHANGED <<graph, roots, done, order>> /\ stack # <<>> /\ n \notin computed /\ Top.next <= Len(src[n])
      /\ stack' = rest \/ stack' = Append(rest, frame)
  BY DEF Descend, SourcesLeft, IsLeaf
<1>2. /\ Popped \in Seq(Frame) /\ Len(Popped) = m - 1 /\ m \in Nat \ {0}
      /\ \A i \in 1 .. m - 1 : Popped[i] = stack[i]
      /\ Top \in Frame /\ Top = stack[m]
  BY <1>1, PoppedFrames DEF NeedInv, TopoInv
<1>3. n \in Node /\ Top.next \in 1 .. Len(src[n]) /\ src[n] \in Seq(Node)
  BY <1>1, <1>2 DEF Frame, NeedInv, TopoInv, GraphOK
<1>4. child \in Node /\ child < n
  BY <1>3, ElementOfSeq DEF NeedInv, TopoInv, GraphOK
<1>5. n \in Needed(Asked)
  BY <1>1, <1>2, <1>3 DEF NeedInv, FramesNeeded
<1>6. child \in computed \cup Needed(Asked)
  <2>1. n \in child + 1 .. NumNodes
    BY <1>3, <1>4, NumNodesAssumption DEF Node
  <2>2. Top.next \in DOMAIN src[n]
    BY <1>3
  <2>3. child \notin computed => NeededFor(Asked, child, Needed(Asked))
    BY <1>5, <2>1, <2>2 DEF NeededFor
  <2> QED BY <1>4, <2>3, NeededStep
<1>7. Advanced \in Frame /\ Advanced.node = n
  BY <1>2 DEF Advanced, Frame
<1>8. /\ rest \in Seq(Frame) /\ Len(rest) = m
      /\ \A i \in 1 .. m - 1 : rest[i] = stack[i]
      /\ rest[m] = Advanced
  BY <1>2, <1>7, AppendProperties
<1>9. \A i \in 1 .. m : rest[i].node = stack[i].node
  BY <1>2, <1>7, <1>8
<1>10. frame \in Frame /\ frame.node = child
  BY <1>4 DEF Frame, FirstSource
<1> HIDE DEF n, child, rest, frame, m
<1>11. /\ Len(stack') \in {m, m + 1} /\ \A i \in 1 .. m : stack'[i].node = stack[i].node
       /\ Len(stack') = m + 1 => stack'[m + 1].node = child
  BY <1>1, <1>2, <1>8, <1>9, <1>10, AppendProperties
<1>12. Asked' = Asked /\ Needed(Asked)' = Needed(Asked) /\ computed' = computed
  BY <1>1, GraphStays DEF graph
<1>13. FramesNeeded'
  <2> SUFFICES ASSUME NEW i \in 1 .. Len(stack') PROVE stack'[i].node \in computed \cup Needed(Asked)
    BY <1>12 DEF FramesNeeded
  <2>1. i \in 1 .. m \/ (i = m + 1 /\ Len(stack') = m + 1)
    BY <1>2, <1>11
  <2> QED BY <1>6, <1>11, <2>1 DEF NeedInv, FramesNeeded, m
<1>14. RootsKept'
  <2>1. stack'[1].node = stack[1].node /\ stack' # <<>>
    BY <1>2, <1>11
  <2> QED BY <1>1, <1>12, <2>1 DEF NeedInv, RootsKept
<1>15. RootsAsked' /\ (Asked \subseteq Node)' /\ (Ordered \subseteq Needed(Asked))'
  BY <1>1, <1>12 DEF NeedInv, RootsAsked, Ordered
<1> QED BY <1>13, <1>14, <1>15, DescendKeeps DEF NeedInv

\* Every step of the search preserves what it has to say of what is needed.
LEMMA NeedNext == NeedInv /\ [TopoNext]_tvars => NeedInv'
<1> SUFFICES ASSUME NeedInv, [TopoNext]_tvars PROVE NeedInv'
  OBVIOUS
<1>1. CASE UNCHANGED tvars
  <2>1. TopoInv'
    BY TopoInvNext DEF NeedInv
  <2>2. Asked' = Asked /\ Needed(Asked)' = Needed(Asked)
    BY <1>1, GraphStays DEF tvars, graph
  <2>3. UNCHANGED <<src, computed, roots, stack, done, order>>
    BY <1>1 DEF tvars
  <2> QED BY <2>1, <2>2, <2>3 DEF NeedInv, FramesNeeded, RootsAsked, RootsKept, Ordered
<1>2. CASE NextRoot
  BY <1>2, NextRootNeeds
<1>3. CASE StopAtComputed
  BY <1>3, StopNeeds
<1>4. CASE Descend
  BY <1>4, DescendNeeds
<1>5. CASE Emit
  BY <1>5, EmitNeeds
<1> QED BY <1>1, <1>2, <1>3, <1>4, <1>5 DEF TopoNext

\* When the search is over, all that is needed is in the order.
LEMMA NothingMissed == ASSUME NeedInv, Finished PROVE Needed(Asked) \subseteq Ordered
<1> DEFINE S == Needed(Asked) \ Ordered
<1> SUFFICES ASSUME S # {} PROVE FALSE
  OBVIOUS
<1>1. S \in SUBSET Node
  BY NeededStep
<1>2. PICK n \in S : \A m \in S : m <= n
  <2> HIDE DEF S
  <2> QED BY <1>1, LatestExists
<1>3. n \in Node /\ n \notin Ordered /\ n \notin computed /\ NeededFor(Asked, n, Needed(Asked))
  <2>1. n \in Node /\ n \notin Ordered /\ NeededFor(Asked, n, Needed(Asked))
    BY <1>1, <1>2, NeededStep
  <2> QED BY <2>1 DEF NeededFor
<1>4. n \notin done
  BY <1>3 DEF NeedInv, TopoInv, DoneIsSettled
<1>5. n \notin Asked
  <2>1. stack = <<>> /\ Len(roots) = 0
    BY DEF Finished
  <2> QED BY <1>4, <2>1 DEF NeedInv, RootsKept
<1>6. PICK m \in n + 1 .. NumNodes : m \in Needed(Asked) /\ \E i \in DOMAIN src[m] : src[m][i] = n
  BY <1>3, <1>5 DEF NeededFor
<1>7. m \in Ordered
  BY <1>2, <1>3, <1>6, NumNodesAssumption DEF Node
<1>8. PICK p \in DOMAIN order : order[p] = m
  BY <1>7 DEF Ordered
<1>9. PICK i \in DOMAIN src[m] : src[m][i] = n
  BY <1>6
<1>10. n \in computed \cup {order[j] : j \in 1 .. p - 1}
  BY <1>8, <1>9 DEF NeedInv, TopoInv, SourcesFirst
<1>11. {order[j] : j \in 1 .. p - 1} \subseteq Ordered
  BY <1>8 DEF NeedInv, TopoInv, SearchType, Ordered
<1> QED BY <1>3, <1>10, <1>11

(* topological_order() lists nothing its roots do not need and, when it returns, *)
(* all of what they need, for every graph and every list of roots.              *)
THEOREM OrderIsWhatIsNeeded == TopoSpec => []ExactlyNeeded
<1>1. NeedInv => ExactlyNeeded
  BY NothingMissed DEF NeedInv, ExactlyNeeded
<1> QED BY <1>1, NeedInit, NeedNext, PTL DEF TopoSpec
===============================================================================
