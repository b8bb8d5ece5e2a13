------------------------------- MODULE Autograd -------------------------------
(***************************************************************************)
(* backward() of autograd.cpp: one reverse sweep over the graph of a root, *)
(* and the deposit of what reached the leaves.  A node is a leaf or an     *)
(* operation on two sources with the partial derivatives 1 and 2, so a     *)
(* derivative is a sum of products over paths and no two sources are       *)
(* alike; a tensor is one number, and an undefined gradient is 0.          *)
(***************************************************************************)
EXTENDS Integers, Sequences, SequencesExt

CONSTANTS
  GraphLeaves,    \* leaves of the graph
  GraphOps,       \* its operations
  MaxTapeCalls    \* bound: backward() and set_requires_grad() calls

ASSUME AutogradBounds == {GraphLeaves, GraphOps, MaxTapeCalls} \subseteq Nat

Leaf == 1 .. GraphLeaves
Operation == GraphLeaves + 1 .. GraphLeaves + GraphOps
GraphNode == Leaf \cup Operation

VARIABLES
  tape,        \* [Operation -> its two sources]
  requires,    \* the nodes with requires_grad
  leafGrad,    \* [Leaf -> its gradient]
  backwards,   \* backward() calls so far
  regraded,    \* set_requires_grad() calls so far
  answered     \* the last one's root, 0 when it raised
agVars == <<tape, requires, leafGrad, backwards, regraded, answered>>

Partial(i) == i
NoGradient == 0

(* An operation requires grad when a source does, unless it was built inside    *)
(* a no_grad block.                                                             *)
RequiresGrad(t, wanted, quiet) ==
  LET needs[n \in GraphNode] ==
        IF n \in Leaf THEN n \in wanted
        ELSE n \notin quiet /\ \E i \in 1 .. 2 : needs[t[n][i]]
  IN  {n \in GraphNode : needs[n]}

AgInit ==
  /\ tape \in {t \in [Operation -> GraphNode \X GraphNode] :
                 \A n \in Operation : \A i \in 1 .. 2 : t[n][i] < n}
  /\ \E wanted \in SUBSET Leaf, quiet \in {{}} \cup {{n} : n \in Operation} :
       requires = RequiresGrad(tape, wanted, quiet)
  /\ leafGrad = [l \in Leaf |-> NoGradient]
  /\ backwards = 0 /\ regraded = 0
  /\ answered = 0

-----------------------------------------------------------------------------
(* autograd_order(): all of the graph that can contribute a gradient, computed  *)
(* or not, sources first.                                                       *)
IfRequires(c) == IF c \in requires THEN <<c>> ELSE <<>>
Contributing(n) == IF n \in Leaf THEN <<>> ELSE IfRequires(tape[n][1]) \o IfRequires(tape[n][2])

(* A node listed when the search meets it, not when it leaves it: used by a     *)
(* mutant of the order.                                                         *)
OrderOfDiscovery(root) ==
  LET order[s \in Seq(GraphNode) \X Seq(GraphNode)] ==
        LET stack == s[1]  done == s[2]  n == Head(stack) IN
        IF stack = <<>> THEN Reverse(done)
        ELSE IF n \in ToSet(done) THEN order[<<Tail(stack), done>>]
        ELSE order[<<Contributing(n) \o Tail(stack), Append(done, n)>>]
  IN  order[<<<<root>>, <<>>>>]

AutogradOrder(root) ==
  LET order[s \in Seq(GraphNode) \X Seq(GraphNode)] ==
        LET stack == s[1]  done == s[2]  n == Head(stack) IN
        IF stack = <<>> THEN done
        ELSE IF n \in ToSet(done) THEN order[<<Tail(stack), done>>]
        ELSE IF ToSet(Contributing(n)) \subseteq ToSet(done)
             THEN order[<<Tail(stack), Append(done, n)>>]
        ELSE order[<<Contributing(n) \o stack, done>>]
  IN  order[<<<<root>>, <<>>>>]

(* accumulate(): contributions to one node are added up. *)
Accumulate(grads, n, g) ==
  IF n \in requires THEN [grads EXCEPT ![n] = @ + g] ELSE grads

(* apply_backward(): a rule contributes once for each source. *)
ApplyBackward(grads, n) ==
  IF n \in Leaf \/ grads[n] = NoGradient THEN grads
  ELSE Accumulate(Accumulate(grads, tape[n][1], Partial(1) * grads[n]), tape[n][2], Partial(2) * grads[n])

(* The reverse sweep.  A node's gradient is used as it is when its turn comes.  *)
Sweep(order, root) ==
  FoldRight(LAMBDA n, grads : ApplyBackward(grads, n), order,
            [n \in GraphNode |-> IF n = root THEN 1 ELSE NoGradient])

(* The totals are built and realized together, then stored in the leaves. *)
Deposited(root) ==
  LET order == AutogradOrder(root)  grads == Sweep(order, root)
  IN  [l \in Leaf |-> IF l \in requires /\ l \in ToSet(order) THEN leafGrad[l] + grads[l] ELSE leafGrad[l]]

RunBackward(root) ==
  /\ backwards + regraded < MaxTapeCalls /\ root \in requires
  /\ backwards' = backwards + 1
  /\ leafGrad' = Deposited(root)
  /\ answered' = root
  /\ UNCHANGED <<tape, requires, regraded>>

(* The root does not require grad, a rule is missing, or the realize fails. *)
BackwardRaises ==
  /\ backwards + regraded < MaxTapeCalls
  /\ backwards' = backwards + 1
  /\ answered' = 0
  /\ UNCHANGED <<tape, requires, leafGrad, regraded>>

(* set_requires_grad() on any node: nothing is told to the ones built from it.  *)
SetRequiresGrad(n) ==
  /\ backwards + regraded < MaxTapeCalls
  /\ regraded' = regraded + 1
  /\ requires' = IF n \in requires THEN requires \ {n} ELSE requires \cup {n}
  /\ UNCHANGED <<tape, leafGrad, backwards, answered>>

(* set_grad() with an undefined tensor, which is what zero_grad() does. *)
ClearGrad(l) ==
  /\ leafGrad[l] # NoGradient
  /\ leafGrad' = [leafGrad EXCEPT ![l] = NoGradient]
  /\ UNCHANGED <<tape, requires, backwards, regraded, answered>>

AgNext ==
  \/ \E n \in GraphNode : RunBackward(n) \/ SetRequiresGrad(n)
  \/ BackwardRaises
  \/ \E l \in Leaf : ClearGrad(l)
AgSpec == AgInit /\ [][AgNext]_agVars

-----------------------------------------------------------------------------
(* The derivative of a root, computed the other way round, from the leaf up.    *)
Derivative(root, leaf) ==
  LET d[n \in GraphNode] ==
        IF n \notin requires THEN 0
        ELSE IF n \in Leaf THEN (IF n = leaf THEN 1 ELSE 0)
        ELSE Partial(1) * d[tape[n][1]] + Partial(2) * d[tape[n][2]]
  IN  d[root]

(* "a node's gradient is complete only once every consumer has contributed, and *)
(* consumers all appear later in `order`": each leaf's gradient grows by its    *)
(* whole derivative, with every path from the root counted once, also where     *)
(* operations share a source - and when backward() raises no leaf's gradient    *)
(* has changed.                                                                 *)
GradientsComplete ==
  [][backwards' > backwards =>
       \A l \in Leaf :
         leafGrad'[l] = leafGrad[l] + IF answered' = 0 THEN 0 ELSE Derivative(answered', l)]_agVars
================================================================================
