------------------------------ MODULE LazyGraph ------------------------------
(***************************************************************************)
(* The lazy graph and the executor: nodes built by tensor operations       *)
(* (tensor.cpp, graph.cpp), evaluated by realize() (executor.cpp), and     *)
(* overwritten in place by assign() (tensor.cpp).                          *)
(*                                                                         *)
(* A tensor is one axis of up to MaxLen elements.  A node is a leaf with   *)
(* data, an elementwise operation, a contiguous copy, or a view: a slice   *)
(* or a broadcast of another node, which owns no memory.  An element is    *)
(* the sequence of the operations and data that made it.  Eager mode is    *)
(* the behaviours in which every operation is realized as soon as built.   *)
(* Tensors the program drops stay in the graph: their memory is the        *)
(* business of VkBackend.                                                  *)
(***************************************************************************)
EXTENDS Integers, Sequences, FiniteSets, SequencesExt

CONSTANTS
  MaxNodes,     \* bound: nodes ever built
  MaxLeaves,    \* bound: leaves
  MaxLen,       \* bound: elements of a tensor
  MaxAssigns,   \* bound: assign() calls
  MaxBatch,     \* bound: pairs of one assign()
  Backend,      \* "cpu" or "vulkan"
  MayFail       \* the backend can lack an operation, and a kernel can throw

ASSUME GraphBoundsAssumption == {MaxNodes, MaxLeaves, MaxLen, MaxAssigns, MaxBatch} \subseteq Nat
ASSUME BackendAssumption == Backend \in {"cpu", "vulkan"}
ASSUME MayFailAssumption == MayFail \in BOOLEAN

VARIABLES
  heap,      \* the nodes and their realization state
  assigns,   \* assign() calls made
  last       \* the last call, if it was an assign(): its outcome and operands

lvars == <<heap, assigns, last>>

(* heap.nodes    : the nodes, in the order they were built                 *)
(* heap.place    : the storage each is bound to (named for the node it was *)
(*                 allocated for) and the offset there; at = 0 is unbound  *)
(* heap.computed : the nodes flagged kFlagComputed                         *)
(* heap.mem      : the cells of the storage allocated for each node        *)

NodeIds(h) == DOMAIN h.nodes
Sources(h, n) == h.nodes[n].src
IsView(h, n) == h.nodes[n].kind = "view"
Bound(h, n) == h.place[n].at # 0

Unbound == [at |-> 0, off |-> 0]
Blank == [i \in 1 .. MaxLen |-> <<>>]
Quiet == [call |-> "none", ds |-> <<>>, ss |-> <<>>]

LazyInit ==
  /\ heap = [nodes |-> <<>>, place |-> <<>>, computed |-> {}, mem |-> <<>>]
  /\ assigns = 0
  /\ last = Quiet

-----------------------------------------------------------------------------
(* Building nodes.                                                         *)

WithNode(h, n) ==
  [h EXCEPT !.nodes = Append(@, n), !.place = Append(@, Unbound), !.mem = Append(@, Blank)]

\* make_node(): a leaf, an operation or a contiguous copy.
Owning(kind, srcs, len, step) ==
  [kind |-> kind, src |-> srcs, root |-> 0, off |-> 0, len |-> len, step |-> step,
   pick |-> <<0, 1>>]

\* make_view(): the storage anchor is the ultimate base, the offsets added up;
\* the dependency stays the immediate base.
ViewRoot(h, b) == IF IsView(h, b) THEN h.nodes[b].root ELSE b
ViewOffset(h, b, off) == h.nodes[b].off + off

\* Elements start, start + stride, ... of b; a broadcast repeats element 0.
View(h, b, start, stride, len) ==
  [kind |-> "view", src |-> <<b>>, root |-> ViewRoot(h, b),
   off |-> ViewOffset(h, b, start * h.nodes[b].step), len |-> len,
   step |-> stride * h.nodes[b].step, pick |-> <<start, stride>>]

IsContiguous(h, n) == h.nodes[n].len = 1 \/ h.nodes[n].step = 1

\* make_leaf() and from_host(): bound, filled and computed at once.
WithLeaf(h, len) ==
  LET n == Len(h.nodes) + 1
      g == WithNode(h, Owning("leaf", <<>>, len, 1))
  IN  [g EXCEPT !.place[n] = [at |-> n, off |-> 0], !.computed = @ \cup {n},
                !.mem[n] = [i \in 1 .. MaxLen |-> IF i <= len THEN <<10 * n + i>> ELSE <<>>]]

\* contiguous(): the tensor itself, or a new node that copies it.
Flattened(h, n) ==
  IF IsContiguous(h, n) THEN [heap |-> h, node |-> n]
  ELSE [heap |-> WithNode(h, Owning("contiguous", <<n>>, h.nodes[n].len, 1)),
        node |-> Len(h.nodes) + 1]

-----------------------------------------------------------------------------
(* realize().                                                              *)

\* topological_order(): sources first, stopping at computed nodes.
VisitedHere(h, out) == {out[i] : i \in DOMAIN out}
Visited(h, out) == h.computed \cup {out[i] : i \in DOMAIN out}

Order(h, roots) ==
  LET emit[s \in Seq(NodeIds(h)) \X Seq(NodeIds(h))] ==
        LET todo == s[1]  out == s[2]  n == Head(todo) IN
        IF todo = <<>> THEN out
        ELSE IF n \in Visited(h, out) THEN emit[<<Tail(todo), out>>]
        ELSE IF \A i \in DOMAIN Sources(h, n) : Sources(h, n)[i] \in Visited(h, out)
             THEN emit[<<Tail(todo), Append(out, n)>>]
        ELSE emit[<<Sources(h, n) \o todo, out>>]
  IN  emit[<<roots, <<>>>>]

\* bind_storage(): a view shares its root's storage, another node gets its own.
\* Memory already bound is kept.
Placed(h, n) ==
  IF Bound(h, n) THEN h
  ELSE LET r == h.nodes[n].root IN
       [h EXCEPT !.place[n] = IF IsView(h, n)
                              THEN [at |-> h.place[r].at, off |-> h.place[r].off + h.nodes[n].off]
                              ELSE [at |-> n, off |-> 0]]

BindAll(h, order) == FoldLeft(Placed, h, order)

Cell(h, n, i) == h.place[n].off + 1 + (i - 1) * h.nodes[n].step
Read(h, n) == [i \in 1 .. h.nodes[n].len |-> h.mem[h.place[n].at][Cell(h, n, i)]]

\* An elementwise operation on the values `in` of its sources, or a copy of the
\* value of its one source.
Joined(in, i) == FoldLeft(LAMBDA acc, v : acc \o v[i], <<>>, in)
Combine(h, n, in) ==
  [i \in 1 .. h.nodes[n].len |-> IF h.nodes[n].kind = "op" THEN <<n>> \o Joined(in, i) ELSE in[1][i]]

\* Views and leaves have no kernel.
HasKernel(h, n) == h.nodes[n].kind \in {"op", "contiguous"}

Computed(h, n) ==
  IF ~HasKernel(h, n) THEN h
  ELSE LET v == Combine(h, n, [k \in DOMAIN Sources(h, n) |-> Read(h, Sources(h, n)[k])])
       IN  [h EXCEPT !.mem[n] = [i \in 1 .. MaxLen |-> IF i \in DOMAIN v THEN v[i] ELSE @[i]]]

ComputeAll(h, order) == FoldLeft(Computed, h, order)

\* Everything went well: all bound, all evaluated, and only then flagged.
Realized(h, roots) ==
  LET order == Order(h, roots) IN
  [ComputeAll(BindAll(h, order), order) EXCEPT !.computed = @ \cup {order[i] : i \in DOMAIN order}]

\* An operation is not supported or there is no memory for it: the nodes before
\* it are bound.  Or a kernel throws: the CPU has evaluated the nodes before it,
\* the Vulkan backend has dropped the whole recording.
UnsupportedButFlagged(h, order) ==
  [BindAll(h, order) EXCEPT !.computed = @ \cup {order[i] : i \in DOMAIN order}]
UnsupportedAt(h, order) == BindAll(h, order)

FailedRealizes(h, roots) ==
  LET order == Order(h, roots)
      before == {p \in Prefixes(order) \ {order} : HasKernel(h, order[Len(p) + 1])}
  IN  {UnsupportedAt(h, p) : p \in before} \cup
        {ComputeAll(BindAll(h, order), p) :
           p \in IF Backend = "cpu" THEN before ELSE {q \in {<<>>} : before # {}}}

-----------------------------------------------------------------------------
(* assign().                                                               *)

Valid(h, d, s) == h.nodes[d].len = h.nodes[s].len /\ IsContiguous(h, d)

FlattenAll(h, ss) ==
  FoldLeft(LAMBDA acc, s : LET f == Flattened(acc.heap, s)
                           IN  [heap |-> f.heap, nodes |-> Append(acc.nodes, f.node)],
           [heap |-> h, nodes |-> <<>>], ss)

AssignRoots(ds, fs) == [i \in 1 .. 2 * Len(ds) |-> IF i % 2 = 1 THEN ds[(i + 1) \div 2] ELSE fs[i \div 2]]

\* The cells a bound node reads.
Cells(h, n) == {<<h.place[n].at, Cell(h, n, i)>> : i \in 1 .. h.nodes[n].len}

NeverOverlap(h, d, s) == FALSE

\* storages_overlap(): the bytes of d, and as many from where s starts.
Overlap(h, d, s) ==
  /\ h.place[d].at = h.place[s].at
  /\ h.place[d].off < h.place[s].off + h.nodes[d].len
  /\ h.place[s].off < h.place[d].off + h.nodes[d].len

\* The bytes of the destination, copied from where the source starts.
Copy(h, d, s) ==
  LET to == h.place[d]  from == h.place[s] IN
  [h EXCEPT !.mem[to.at] =
     [i \in 1 .. MaxLen |->
        IF i > to.off /\ i <= to.off + h.nodes[d].len
        THEN h.mem[from.at][from.off + (i - to.off)] ELSE @[i]]]

CopyAll(h, ds, fs, ks) == FoldLeft(LAMBDA g, k : Copy(g, ds[k], fs[k]), h, ks)

\* One copy of a Vulkan batch: undefined when its two regions overlap.
Undefined == <<0>>
BatchCopy(h, d, s) ==
  IF Backend = "vulkan" /\ Cells(h, d) \cap Cells(h, s) # {}
  THEN [h EXCEPT !.mem[h.place[d].at] =
          [i \in 1 .. MaxLen |-> IF <<h.place[d].at, i>> \in Cells(h, d) THEN Undefined ELSE @[i]]]
  ELSE Copy(h, d, s)

BatchAll(h, ds, fs, ks) == FoldLeft(LAMBDA g, k : BatchCopy(g, ds[k], fs[k]), h, ks)

\* The overlapping pairs go through the host at once, in order; the others
\* follow in one batch.  The CPU copies those in order; the Vulkan backend
\* records them with no barrier between them: they happen in any order.
StagedPairs(h, ds, fs) ==
  FoldLeft(LAMBDA ks, k : IF Overlap(h, ds[k], fs[k]) THEN Append(ks, k) ELSE ks,
           <<>>, [k \in DOMAIN ds |-> k])
BatchPairs(h, ds, fs) ==
  FoldLeft(LAMBDA ks, k : IF Overlap(h, ds[k], fs[k]) THEN ks ELSE Append(ks, k),
           <<>>, [k \in DOMAIN ds |-> k])

BatchOrders(ks) == IF Backend = "cpu" THEN {ks} ELSE SetToSeqs({ks[i] : i \in DOMAIN ks})

\* The flattened sources die with the call.
OnReturn(h, g) ==
  LET old == NodeIds(h) IN
  [nodes |-> SubSeq(g.nodes, 1, Len(h.nodes)), place |-> SubSeq(g.place, 1, Len(h.nodes)),
   computed |-> g.computed \cap old, mem |-> SubSeq(g.mem, 1, Len(h.nodes))]

\* Everything is flattened and realized before anything is written.
Assigned(h, ds, ss) ==
  LET flat == FlattenAll(h, ss)
      r    == Realized(flat.heap, AssignRoots(ds, flat.nodes))
      staged == CopyAll(r, ds, flat.nodes, StagedPairs(r, ds, flat.nodes))
  IN  {OnReturn(h, BatchAll(staged, ds, flat.nodes, ks)) :
         ks \in BatchOrders(BatchPairs(r, ds, flat.nodes))}

\* What a failing assign() leaves.  Nothing is touched when a pair is not valid,
\* nothing is copied when the realize fails; a device that fails under a copy
\* leaves the staged pairs before it written, and the batch unsubmitted.
Rejected(h, ds, ss) == {h}

RealizeFailed(h, ds, ss) ==
  LET flat == FlattenAll(h, ss)
  IN  {OnReturn(h, g) : g \in FailedRealizes(flat.heap, AssignRoots(ds, flat.nodes))}

DeviceFailed(h, ds, ss) ==
  LET flat == FlattenAll(h, ss)
      r    == Realized(flat.heap, AssignRoots(ds, flat.nodes))
  IN  {OnReturn(h, CopyAll(r, ds, flat.nodes, ks)) :
         ks \in IF Backend = "vulkan" THEN Prefixes(StagedPairs(r, ds, flat.nodes)) ELSE {}}

-----------------------------------------------------------------------------
(* The calls.                                                              *)

Build(h) == heap' = h /\ last' = Quiet /\ UNCHANGED assigns
Room == Len(heap.nodes) < MaxNodes

NewLeaf ==
  /\ Room
  /\ Cardinality({n \in NodeIds(heap) : heap.nodes[n].kind = "leaf"}) < MaxLeaves
  /\ \E len \in 1 .. MaxLen : Build(WithLeaf(heap, len))

\* unary() and binary(): operands of one shape, broadcast explicitly before.
NewOp(srcs) ==
  /\ Room
  /\ \A i, j \in DOMAIN srcs : heap.nodes[srcs[i]].len = heap.nodes[srcs[j]].len
  /\ Build(WithNode(heap, Owning("op", srcs, heap.nodes[srcs[1]].len, 1)))

\* slice(): a proper part of the axis, every element or every other one.
NewSlice(b) ==
  /\ Room
  /\ \E start \in 0 .. MaxLen - 1, stride \in 1 .. 2, len \in 1 .. MaxLen :
       /\ len < heap.nodes[b].len
       /\ start + (len - 1) * stride < heap.nodes[b].len
       /\ len = 1 => stride = 1
       /\ Build(WithNode(heap, View(heap, b, start, stride, len)))

NewBroadcast(b) ==
  /\ Room
  /\ heap.nodes[b].len = 1
  /\ \E len \in 2 .. MaxLen : Build(WithNode(heap, View(heap, b, 0, 0, len)))

\* contiguous() of a strided view: a copy.
NewContiguous(b) ==
  /\ Room
  /\ ~IsContiguous(heap, b)
  /\ Build(Flattened(heap, b).heap)

Realize(roots) ==
  /\ Order(heap, roots) # <<>>
  /\ Build(Realized(heap, roots))

RealizeFails(roots) ==
  /\ MayFail
  /\ \E h \in FailedRealizes(heap, roots) : h # heap /\ Build(h)

\* detach(): a leaf of the same layout on the same storage, evaluated first.
Detach(n) ==
  /\ Room
  /\ LET h == Realized(heap, <<n>>)
         m == Len(h.nodes) + 1
         g == WithNode(h, Owning("leaf", <<>>, h.nodes[n].len, h.nodes[n].step))
     IN  Build([g EXCEPT !.place[m] = h.place[n], !.computed = @ \cup {m}])

Finish(h, ds, ss, outcome) ==
  /\ heap' = h
  /\ assigns' = assigns + 1
  /\ last' = [call |-> outcome, ds |-> ds, ss |-> ss]

AllValid(ds, ss) == \A k \in DOMAIN ds : Valid(heap, ds[k], ss[k])

Assign(ds, ss) ==
  AllValid(ds, ss) /\ \E h \in Assigned(heap, ds, ss) : Finish(h, ds, ss, "assigned")

AssignRejected(ds, ss) ==
  ~AllValid(ds, ss) /\ \E h \in Rejected(heap, ds, ss) : Finish(h, ds, ss, "rejected")

AssignFails(ds, ss) ==
  /\ MayFail /\ AllValid(ds, ss)
  /\ \/ \E h \in RealizeFailed(heap, ds, ss) : Finish(h, ds, ss, "realizeFailed")
     \/ \E h \in DeviceFailed(heap, ds, ss) : Finish(h, ds, ss, "deviceFailed")

Lists(S, n) == UNION {[1 .. k -> S] : k \in 1 .. n}

LazyNext ==
  \/ NewLeaf
  \/ \E srcs \in Lists(NodeIds(heap), 2) : NewOp(srcs)
  \/ \E b \in NodeIds(heap) : NewSlice(b)
  \/ \E b \in NodeIds(heap) : NewBroadcast(b)
  \/ \E b \in NodeIds(heap) : NewContiguous(b)
  \/ \E roots \in Lists(NodeIds(heap), 2) : Realize(roots)
  \/ \E roots \in Lists(NodeIds(heap), 2) : RealizeFails(roots)
  \/ \E n \in NodeIds(heap) : Detach(n)
  \/ /\ assigns < MaxAssigns
     /\ \E k \in 1 .. MaxBatch : \E ds, ss \in [1 .. k -> NodeIds(heap)] :
          Assign(ds, ss) \/ AssignRejected(ds, ss) \/ AssignFails(ds, ss)

LazySpec == LazyInit /\ [][LazyNext]_lvars

-----------------------------------------------------------------------------
(* Properties.                                                             *)

\* What a tensor would read if it were evaluated now, from the graph alone: no
\* roots, offsets or bindings of what has not been computed.
ValueNow(h, n) ==
  LET value[m \in NodeIds(h)] ==
        IF m \in h.computed THEN Read(h, m)
        ELSE IF IsView(h, m)
             THEN [i \in 1 .. h.nodes[m].len |->
                     value[Sources(h, m)[1]][h.nodes[m].pick[1] + 1 + (i - 1) * h.nodes[m].pick[2]]]
        ELSE Combine(h, m, [k \in DOMAIN Sources(h, m) |-> value[Sources(h, m)[k]]])
  IN  value[n]

\* A call that returns, or throws, never flags a node whose memory does not hold
\* what its graph says: realize() flags after compute(), and a retry of a failed
\* realize evaluates again what was only bound (executor.cpp:130-138).
FlaggedHoldsValue ==
  [][last'.call = "none" =>
       \A n \in heap'.computed \ heap.computed :
         n \in NodeIds(heap) => Read(heap', n) = ValueNow(heap, n)]_lvars

\* Nothing recomputes a computed node, and an assign() that is rejected or whose
\* realize fails writes nothing: what a computed node reads changes only when an
\* assign() got to its copies and wrote one of its cells (ADR 0007, "Never
\* cleared"; "VALIDATE EVERYTHING FIRST", tensor.cpp:345).
ResultsKept ==
  [][\A n \in heap.computed :
       \/ Read(heap', n) = Read(heap, n)
       \/ /\ last'.call \in {"assigned", "deviceFailed"}
          /\ \E k \in DOMAIN last'.ds : Cells(heap', last'.ds[k]) \cap Cells(heap', n) # {}]_lvars

\* An assign() whose pairs do not touch each other's storage leaves in every
\* destination what its source would have evaluated to before the call, and
\* everything it evaluated on the way holds what it would have held.
Reached(h, n) ==
  LET r[m \in NodeIds(h)] == {m} \cup UNION {r[Sources(h, m)[i]] : i \in DOMAIN Sources(h, m)}
  IN  r[n]
Touches(h, n) == {h.place[m].at : m \in Reached(h, n)}
Independent(h, ds, ss) ==
  \A i, j \in DOMAIN ds : i # j => h.place[ds[i]].at \notin Touches(h, ds[j]) \cup Touches(h, ss[j])

AssignDelivers ==
  [][(last'.call = "assigned" /\ Independent(heap', last'.ds, last'.ss)) =>
       /\ \A k \in DOMAIN last'.ds : Read(heap', last'.ds[k]) = ValueNow(heap, last'.ss[k])
       /\ \A n \in NodeIds(heap) \cap heap'.computed :
            \/ Read(heap', n) = ValueNow(heap, n)
            \/ \E k \in DOMAIN last'.ds : Cells(heap', last'.ds[k]) \cap Cells(heap', n) # {}]_lvars

\* The header's claim: a batch is "Identical in effect to calling
\* dst[i].assign_(src[i]) in a loop" (tensor.h).
InALoop(h, ds, ss) ==
  FoldLeft(LAMBDA g, k : CHOOSE a \in Assigned(g, <<ds[k]>>, <<ss[k]>>) : TRUE,
           h, [k \in DOMAIN ds |-> k])

AssignIsLoop ==
  [][last'.call = "assigned" =>
       \A n \in NodeIds(heap) \cap heap'.computed :
         Read(heap', n) = Read(InALoop(heap, last'.ds, last'.ss), n)]_lvars

=============================================================================
