--------------------------- MODULE TopologicalOrder ---------------------------
(***************************************************************************)
(* topological_order() of graph.cpp: the iterative depth-first search that *)
(* lists the nodes a realize() has to evaluate, sources first.  A node     *)
(* that is computed already is a leaf of the search.                       *)
(*                                                                         *)
(* The code also pops a frame whose node is done ("Reached again through a *)
(* second parent", graph.cpp).  A source that is done is never pushed and  *)
(* the graph is acyclic, so that branch has no action here.                *)
(***************************************************************************)
EXTENDS Integers, Sequences, FiniteSets

CONSTANTS
  NumNodes,   \* nodes of the graph; a node's sources are older than it
  MaxSrc,     \* kMaxSrc: sources of a node
  MaxRoots    \* bound: roots of one call

ASSUME NumNodesAssumption == {NumNodes, MaxSrc, MaxRoots} \subseteq Nat

Node == 1 .. NumNodes

VARIABLES
  src,        \* the graph: each node's sources, in order
  computed,   \* the nodes that hold their value
  asked,      \* the roots of the call
  roots,      \* the ones not looked at yet
  stack,      \* the frames of the search: a node and its next source
  done,       \* the nodes the search is over with
  order       \* the nodes to evaluate, in order

tvars == <<src, computed, asked, roots, stack, done, order>>
graph == <<src, computed, asked>>

\* The graphs a program can build: bottom-up, so acyclic.
Graphs ==
  {g \in [Node -> UNION {[1 .. k -> Node] : k \in 0 .. MaxSrc}] :
     \A n \in Node : \A i \in DOMAIN g[n] : g[n][i] < n}

\* A computed node's sources were computed before it.
SourcesComputed(g, C) == \A n \in C : \A i \in DOMAIN g[n] : g[n][i] \in C

TopoInit ==
  /\ src \in Graphs
  /\ computed \in {C \in SUBSET Node : SourcesComputed(src, C)}
  /\ asked \in UNION {[1 .. k -> Node] : k \in 0 .. MaxRoots}
  /\ roots = asked
  /\ stack = <<>> /\ done = {} /\ order = <<>>

-----------------------------------------------------------------------------
Top == stack[Len(stack)]
Popped == SubSeq(stack, 1, Len(stack) - 1)

FirstSource == 1

\* A node the search is over with is not entered again.
SkipNothing(n) == FALSE
Skip(n) == n \in done

\* The next root; one that is done already is skipped.
NextRoot ==
  /\ stack = <<>> /\ roots # <<>>
  /\ roots' = Tail(roots)
  /\ stack' = IF Skip(Head(roots)) THEN <<>> ELSE <<[node |-> Head(roots), next |-> FirstSource]>>
  /\ UNCHANGED <<graph, done, order>>

\* A computed node is a leaf: nothing behind it is looked at.
IsLeafIfAny(n) == FALSE
IsLeaf(n) == n \in computed

StopAtComputed ==
  /\ stack # <<>> /\ IsLeaf(Top.node)
  /\ done' = done \cup {Top.node}
  /\ stack' = Popped
  /\ UNCHANGED <<graph, roots, order>>

SourcesLeft == Top.next <= Len(src[Top.node])

NotAdvanced == Top
Advanced == [Top EXCEPT !.next = @ + 1]

\* Down into the next source, unless it is done.
Descend ==
  /\ stack # <<>> /\ ~IsLeaf(Top.node) /\ SourcesLeft
  /\ LET child == src[Top.node][Top.next]
         rest  == Append(Popped, Advanced)
     IN  stack' = IF Skip(child) THEN rest ELSE Append(rest, [node |-> child, next |-> FirstSource])
  /\ UNCHANGED <<graph, roots, done, order>>

\* All sources are done: the node comes next in the order.
Emit ==
  /\ stack # <<>> /\ ~IsLeaf(Top.node) /\ ~SourcesLeft
  /\ done' = done \cup {Top.node}
  /\ order' = Append(order, Top.node)
  /\ stack' = Popped
  /\ UNCHANGED <<graph, roots>>

TopoNext == NextRoot \/ StopAtComputed \/ Descend \/ Emit

Finished == stack = <<>> /\ roots = <<>>

TopoSpec == TopoInit /\ [][TopoNext]_tvars /\ WF_tvars(TopoNext)

-----------------------------------------------------------------------------
Ordered == {order[i] : i \in DOMAIN order}

\* When a node comes up, every source it will read holds its value or comes
\* earlier in the order; no node comes up twice, and none that is computed does.
SourcesFirst ==
  \A i \in DOMAIN order :
    /\ order[i] \notin computed
    /\ \A k \in DOMAIN src[order[i]] :
         src[order[i]][k] \in computed \cup {order[j] : j \in 1 .. i - 1}
    /\ \A j \in 1 .. i - 1 : order[j] # order[i]

\* What a set of roots needs: a node is needed when it is a root, or a source of
\* a needed node, and has no value yet.
Needed(rs) ==
  LET up[n \in Node] == n \notin computed /\
        (n \in rs \/ \E m \in n + 1 .. NumNodes : up[m] /\ \E i \in DOMAIN src[m] : src[m][i] = n)
  IN  {n \in Node : up[n]}

Asked == {asked[i] : i \in DOMAIN asked}

\* Nothing is evaluated that the roots do not need, and when the search ends
\* everything they need is in the order.
ExactlyNeeded ==
  /\ Ordered \subseteq Needed(Asked)
  /\ Finished => Ordered = Needed(Asked)

\* The search ends.
SearchEnds == <>Finished
=============================================================================
