--------------------------- MODULE VkAllocatorProofs ---------------------------
(***************************************************************************)
(* Proofs about VkAllocator: whatever is allocated, freed and trimmed, the *)
(* runs and the allocations of a block tile it, so that no byte is handed  *)
(* out twice, and merging leaves no two runs side by side, so that a new   *)
(* block is asked for only when none has the room; and the counters are    *)
(* exact.                                                                  *)
(***************************************************************************)
EXTENDS VkAllocator, FiniteSetTheorems, FunctionTheorems, SequenceTheorems, WellFoundedInduction, TLAPS

Run == [offset : Nat, size : Nat \ {0}]
Allocation == [block : Nat \ {0}, offset : Nat, size : Nat, padded : Nat \ {0}, kind : Kinds]
Block == [kind : Kinds, size : Nat, live : Int, runs : SUBSET Run]

RunEnd(r) == r.offset + r.size
AllocEnd(a) == a.offset + a.padded

\* Two runs are never side by side: insert_free_run() would have merged them.
RunsApart(runs) ==
  \A r, q \in runs : r # q => RunEnd(r) < q.offset \/ RunEnd(q) < r.offset
RunsFree(runs, held) ==
  \A r \in runs, a \in held : RunEnd(r) <= a.offset \/ AllocEnd(a) <= r.offset
AllocsApart(held) ==
  \A a, b \in held : a # b => AllocEnd(a) <= b.offset \/ AllocEnd(b) <= a.offset
Covered(runs, held, size) ==
  \A byte \in 0 .. size - 1 : (\E r \in runs : InRun(byte, r)) \/ \E a \in held : InAlloc(byte, a)
Inside(runs, held, size) ==
  (\A r \in runs : RunEnd(r) <= size) /\ \A a \in held : AllocEnd(a) <= size

\* The runs and the allocations tile a block.
Tiled(runs, held, size) ==
  /\ runs \subseteq Run /\ held \subseteq Allocation /\ size \in Nat
  /\ RunsApart(runs) /\ RunsFree(runs, held) /\ AllocsApart(held)
  /\ Covered(runs, held, size) /\ Inside(runs, held, size)

AllocInv ==
  /\ blocks \in Seq(Block)
  /\ allocs \subseteq Allocation /\ \A a \in allocs : a.block \in DOMAIN blocks
  /\ IsFiniteSet(allocs)
  /\ \A bi \in DOMAIN blocks :
       /\ Tiled(blocks[bi].runs, AllocsOf(bi), blocks[bi].size)
       /\ blocks[bi].live = Cardinality(AllocsOf(bi))

-----------------------------------------------------------------------------
\* A request is padded to a positive size, also one of zero bytes.
LEMMA PaddedPositive == ASSUME NEW size \in Requests PROVE Padded(size) \in Nat \ {0}
<1> DEFINE m == Larger(size, 1)
           x == m + Alignment - 1
<1>1. m \in Nat \ {0} /\ Alignment \in Nat \ {0}
  BY SizesAssumption DEF Larger
<1>2. x \in Nat /\ x >= Alignment
  BY <1>1
<1> HIDE DEF m, x
<1>3. x \div Alignment \in Nat \ {0}
  BY <1>1, <1>2
<1>4. (x \div Alignment) * Alignment \in Nat \ {0}
  BY <1>1, <1>3
<1> QED BY <1>4 DEF Padded, RoundUp, m, x

\* Handing out the head of a run keeps a block tiled.
LEMMA CarveTiled ==
  ASSUME NEW runs, NEW held, NEW size, Tiled(runs, held, size),
         NEW r \in runs, NEW n \in Nat \ {0}, r.size >= n,
         NEW a \in Allocation, a.offset = r.offset, a.padded = n
  PROVE  Tiled(Carve(runs, r, n), held \cup {a}, size)
<1> DEFINE rest == [offset |-> r.offset + n, size |-> r.size - n]
           after == Carve(runs, r, n)
<1> USE DEF RunEnd, AllocEnd
<1>t. runs \subseteq Run /\ held \subseteq Allocation /\ size \in Nat /\ r \in Run
  BY DEF Tiled
<1>1. \/ r.size = n /\ after = runs \ {r}
      \/ r.size > n /\ after = (runs \ {r}) \cup {rest} /\ rest \in Run
  BY <1>t DEF Carve, Run
<1>r. /\ rest.offset = r.offset + n /\ rest.size = r.size - n
  OBVIOUS
<1> HIDE DEF after, rest
<1>2. after \subseteq Run /\ held \cup {a} \subseteq Allocation
  BY <1>t, <1>1
<1>n. /\ \A q \in runs : q.offset \in Nat /\ q.size \in Nat \ {0}
      /\ \A b \in held : b.offset \in Nat /\ b.padded \in Nat \ {0}
      /\ r.offset \in Nat /\ r.size \in Nat \ {0}
  BY <1>t DEF Run, Allocation
<1>a. \A q \in after : (q \in runs /\ q # r) \/ (q = rest /\ r.size > n)
  BY <1>1
<1>e. /\ AllocEnd(a) = r.offset + n /\ AllocEnd(a) \in Nat
      /\ RunEnd(r) \in Nat /\ AllocEnd(a) <= RunEnd(r)
      /\ RunEnd(rest) = RunEnd(r) /\ r.offset <= rest.offset /\ rest.offset = AllocEnd(a)
  BY <1>n, <1>r
<1>3. RunsApart(after)
  BY <1>a, <1>n, <1>r DEF RunsApart, Tiled
<1>4. RunsFree(after, held \cup {a})
  <2> SUFFICES ASSUME NEW q \in after, NEW b \in held \cup {a}
               PROVE  RunEnd(q) <= b.offset \/ AllocEnd(b) <= q.offset
    BY DEF RunsFree
  <2>1. CASE b = a
    BY <1>a, <1>n, <1>r, <2>1 DEF RunsApart, Tiled
  <2>2. CASE b \in held
    <3>1. RunEnd(r) <= b.offset \/ AllocEnd(b) <= r.offset
      BY <2>2 DEF RunsFree, Tiled
    <3>2. CASE q \in runs
      BY <2>2, <3>2 DEF RunsFree, Tiled
    <3>3. CASE q = rest /\ r.size > n
      <4>1. RunEnd(q) = RunEnd(r) /\ r.offset <= q.offset /\ q.offset \in Nat
        BY <1>e, <1>n, <1>r, <3>3
      <4>2. AllocEnd(b) \in Nat /\ b.offset \in Nat
        BY <1>n, <2>2
      <4> HIDE DEF RunEnd, AllocEnd
      <4> QED BY <1>n, <3>1, <4>1, <4>2
    <3> QED BY <1>a, <3>2, <3>3
  <2> QED BY <2>1, <2>2
<1>5. AllocsApart(held \cup {a})
  <2>1. \A b \in held : RunEnd(r) <= b.offset \/ AllocEnd(b) <= r.offset
    BY DEF RunsFree, Tiled
  <2>2. \A b \in held : AllocEnd(a) <= b.offset \/ AllocEnd(b) <= a.offset
    <3> SUFFICES ASSUME NEW b \in held PROVE AllocEnd(a) <= b.offset \/ AllocEnd(b) <= a.offset
      OBVIOUS
    <3>1. AllocEnd(b) \in Nat /\ b.offset \in Nat
      BY <1>n
    <3> HIDE DEF RunEnd, AllocEnd
    <3> QED BY <1>e, <1>n, <2>1, <3>1
  <2> QED BY <2>2 DEF AllocsApart, Tiled
<1>6. Covered(after, held \cup {a}, size)
  <2> SUFFICES ASSUME NEW byte \in 0 .. size - 1
               PROVE  (\E q \in after : InRun(byte, q)) \/ \E b \in held \cup {a} : InAlloc(byte, b)
    BY DEF Covered
  <2>1. (\E q \in runs : InRun(byte, q)) \/ \E b \in held : InAlloc(byte, b)
    BY DEF Tiled, Covered
  <2>2. CASE InRun(byte, r)
    <3>b. byte \in Int
      BY <1>t
    <3>1. CASE byte < r.offset + n
      <4>1. InAlloc(byte, a)
        BY <2>2, <3>1 DEF InRun, InAlloc
      <4> QED BY <4>1
    <3>2. CASE byte >= r.offset + n
      <4>1. InRun(byte, rest) /\ r.size > n
        BY <1>n, <1>r, <2>2, <3>b, <3>2 DEF InRun
      <4>2. rest \in after
        BY <1>1, <1>n, <4>1
      <4> QED BY <4>1, <4>2
    <3> QED BY <3>1, <3>2, <3>b, <1>n
  <2>3. \A q \in runs : q = r \/ q \in after
    BY <1>1
  <2>4. CASE \E b \in held : InAlloc(byte, b)
    BY <2>4
  <2>5. ASSUME NEW q \in runs, InRun(byte, q), q # r PROVE \E p \in after : InRun(byte, p)
    BY <2>3, <2>5
  <2> QED BY <2>1, <2>2, <2>4, <2>5
<1>7. Inside(after, held \cup {a}, size)
  <2>1. \A q \in runs : RunEnd(q) <= size
    BY DEF Inside, Tiled
  <2>2. \A b \in held : AllocEnd(b) <= size
    BY DEF Inside, Tiled
  <2>3. AllocEnd(a) <= size
    BY <1>n, <1>t, <2>1
  <2>4. \A q \in after : RunEnd(q) <= size
    BY <1>a, <1>n, <1>r, <2>1
  <2> QED BY <2>2, <2>3, <2>4 DEF Inside
<1> QED BY <1>t, <1>2, <1>3, <1>4, <1>5, <1>6, <1>7 DEF Tiled, after

\* At most one run ends where the freed one starts, and at most one starts where it ends.
LEMMA Neighbours ==
  ASSUME NEW runs, runs \subseteq Run, RunsApart(runs), NEW at \in Nat
  PROVE  /\ \A p, q \in runs : RunEnd(p) = at /\ RunEnd(q) = at => p = q
         /\ \A p, q \in runs : p.offset = at /\ q.offset = at => p = q
<1>1. \A q \in runs : q.offset \in Nat /\ q.size \in Nat \ {0}
  BY DEF Run
<1> QED BY <1>1 DEF RunsApart, RunEnd

\* insert_free_run() keeps a block tiled and merged.
LEMMA InsertTiled ==
  ASSUME NEW runs, NEW held, NEW size, Tiled(runs, held, size), NEW a \in held
  PROVE  Tiled(InsertFreeRun(runs, a.offset, a.padded), held \ {a}, size)
<1> DEFINE next == {r \in runs : r.offset = a.offset + a.padded}
           prev == {r \in runs : r.offset + r.size = a.offset}
           start == IF prev = {} THEN a.offset ELSE (CHOOSE p \in prev : TRUE).offset
           end == IF next = {} THEN a.offset + a.padded
                  ELSE LET n == CHOOSE n \in next : TRUE IN n.offset + n.size
           merged == [offset |-> start, size |-> end - start]
           after == (runs \ (next \cup prev)) \cup {merged}
<1>t. runs \subseteq Run /\ held \subseteq Allocation /\ size \in Nat /\ RunsApart(runs)
  BY DEF Tiled
<1>n. /\ \A q \in runs : q.offset \in Nat /\ q.size \in Nat \ {0} /\ RunEnd(q) \in Nat
      /\ \A b \in held : b.offset \in Nat /\ b.padded \in Nat \ {0} /\ AllocEnd(b) \in Nat
  BY <1>t DEF Run, Allocation, RunEnd, AllocEnd
<1>z. /\ \A q \in runs : q.offset < RunEnd(q)
      /\ a.offset \in Nat /\ AllocEnd(a) \in Nat /\ a.offset < AllocEnd(a)
  BY <1>n DEF RunEnd, AllocEnd
<1>s. \/ start = a.offset /\ \A q \in runs : RunEnd(q) # a.offset
      \/ \E p \in runs : RunEnd(p) = a.offset /\ start = p.offset
  <2>1. CASE prev = {}
    BY <2>1 DEF RunEnd
  <2>2. CASE prev # {}
    <3>1. (CHOOSE p \in prev : TRUE) \in prev
      BY <2>2
    <3> QED BY <2>2, <3>1 DEF RunEnd
  <2> QED BY <2>1, <2>2
<1>e. \/ end = AllocEnd(a) /\ \A q \in runs : q.offset # AllocEnd(a)
      \/ \E p \in runs : p.offset = AllocEnd(a) /\ end = RunEnd(p)
  <2>1. CASE next = {}
    BY <2>1 DEF AllocEnd
  <2>2. CASE next # {}
    <3>1. (CHOOSE p \in next : TRUE) \in next
      BY <2>2
    <3> QED BY <2>2, <3>1 DEF RunEnd, AllocEnd
  <2> QED BY <2>1, <2>2
<1>p. next \cup prev = {q \in runs : q.offset = AllocEnd(a) \/ RunEnd(q) = a.offset}
  BY DEF RunEnd, AllocEnd
<1>m. merged.offset = start /\ merged.size = end - start
  OBVIOUS
<1>i. after = InsertFreeRun(runs, a.offset, a.padded)
  BY DEF InsertFreeRun
<1> HIDE DEF next, prev, start, end, merged
<1>b. start \in Nat /\ end \in Nat /\ start <= a.offset /\ AllocEnd(a) <= end /\ start < end
  BY <1>n, <1>z, <1>s, <1>e
<1>r. merged \in Run /\ RunEnd(merged) = end
  <2>1. merged = [offset |-> start, size |-> end - start] /\ end - start \in Nat \ {0}
    BY <1>b DEF merged
  <2> QED BY <1>b, <1>m, <2>1 DEF Run, RunEnd
<1>a. \A q \in after : (q \in runs /\ q.offset # AllocEnd(a) /\ RunEnd(q) # a.offset) \/ q = merged
  BY <1>p
<1> HIDE DEF after
<1>k. ASSUME NEW q \in runs, q.offset # AllocEnd(a), RunEnd(q) # a.offset
      PROVE  RunEnd(q) < start \/ end < q.offset
  <2>1. RunEnd(q) < a.offset \/ AllocEnd(a) < q.offset
    <3>1. RunEnd(q) <= a.offset \/ AllocEnd(a) <= q.offset
      BY DEF Tiled, RunsFree
    <3> QED BY <1>k, <1>n, <1>z, <3>1
  <2>2. CASE RunEnd(q) < a.offset
    <3>1. ASSUME NEW p \in runs, RunEnd(p) = a.offset, start = p.offset PROVE RunEnd(q) < start
      <4>1. RunEnd(p) < q.offset \/ RunEnd(q) < p.offset
        BY <1>k, <1>t, <3>1 DEF RunsApart
      <4> QED BY <1>n, <1>z, <2>2, <3>1, <4>1
    <3> QED BY <1>s, <2>2, <3>1
  <2>3. CASE AllocEnd(a) < q.offset
    <3>1. ASSUME NEW p \in runs, p.offset = AllocEnd(a), end = RunEnd(p) PROVE end < q.offset
      <4>1. RunEnd(p) < q.offset \/ RunEnd(q) < p.offset
        BY <1>k, <1>t, <3>1 DEF RunsApart
      <4> QED BY <1>n, <1>z, <2>3, <3>1, <4>1
    <3> QED BY <1>e, <2>3, <3>1
  <2> QED BY <2>1, <2>2, <2>3
<1>1. after \subseteq Run /\ held \ {a} \subseteq Allocation
  BY <1>t, <1>a, <1>r
<1>2. RunsApart(after)
  <2> SUFFICES ASSUME NEW p \in after, NEW q \in after, p # q
               PROVE  RunEnd(p) < q.offset \/ RunEnd(q) < p.offset
    BY DEF RunsApart
  <2>1. CASE p = merged
    BY <1>a, <1>k, <1>m, <1>r, <2>1
  <2>2. CASE q = merged
    BY <1>a, <1>k, <1>m, <1>r, <2>2
  <2>3. CASE p \in runs /\ q \in runs
    BY <1>t, <2>3 DEF RunsApart
  <2> QED BY <1>a, <2>1, <2>2, <2>3
<1>3. RunsFree(after, held \ {a})
  <2> SUFFICES ASSUME NEW q \in after, NEW b \in held, b # a
               PROVE  RunEnd(q) <= b.offset \/ AllocEnd(b) <= q.offset
    BY DEF RunsFree
  <2>1. CASE q \in runs
    BY <2>1 DEF Tiled, RunsFree
  <2>2. CASE q = merged
    <3>1. AllocEnd(b) <= a.offset \/ AllocEnd(a) <= b.offset
      BY DEF Tiled, AllocsApart
    <3>2. CASE AllocEnd(b) <= a.offset
      <4>1. ASSUME NEW p \in runs, RunEnd(p) = a.offset, start = p.offset PROVE AllocEnd(b) <= start
        <5>1. RunEnd(p) <= b.offset \/ AllocEnd(b) <= p.offset
          BY DEF Tiled, RunsFree
        <5>2. b.offset < AllocEnd(b)
          BY <1>n DEF AllocEnd
        <5> QED BY <1>n, <3>2, <4>1, <5>1, <5>2
      <4>2. AllocEnd(b) <= start
        BY <1>s, <3>2, <4>1
      <4> QED BY <1>m, <2>2, <4>2
    <3>3. CASE AllocEnd(a) <= b.offset
      <4>1. ASSUME NEW p \in runs, p.offset = AllocEnd(a), end = RunEnd(p) PROVE end <= b.offset
        <5>1. RunEnd(p) <= b.offset \/ AllocEnd(b) <= p.offset
          BY DEF Tiled, RunsFree
        <5>2. b.offset < AllocEnd(b)
          BY <1>n DEF AllocEnd
        <5> QED BY <1>n, <3>3, <4>1, <5>1, <5>2
      <4>2. end <= b.offset
        BY <1>e, <3>3, <4>1
      <4> QED BY <1>r, <2>2, <4>2
    <3> QED BY <3>1, <3>2, <3>3
  <2> QED BY <1>a, <2>1, <2>2
<1>4. AllocsApart(held \ {a})
  BY DEF Tiled, AllocsApart
<1>5. Covered(after, held \ {a}, size)
  <2> SUFFICES ASSUME NEW byte \in 0 .. size - 1
               PROVE  (\E q \in after : InRun(byte, q)) \/ \E b \in held \ {a} : InAlloc(byte, b)
    BY DEF Covered
  <2>1. (\E q \in runs : InRun(byte, q)) \/ \E b \in held : InAlloc(byte, b)
    BY DEF Tiled, Covered
  <2>2. merged \in after /\ \A q \in runs : q.offset = AllocEnd(a) \/ RunEnd(q) = a.offset \/ q \in after
    BY <1>p DEF after
  <2>3. start <= byte /\ byte < end => InRun(byte, merged)
    BY <1>m, <1>r DEF InRun, RunEnd
  <2>b. byte \in Int
    BY <1>t
  <2>4. ASSUME InAlloc(byte, a) PROVE InRun(byte, merged)
    BY <1>b, <1>z, <2>3, <2>4, <2>b DEF InAlloc, AllocEnd
  <2>5. ASSUME NEW q \in runs, InRun(byte, q), q.offset = AllocEnd(a) PROVE InRun(byte, merged)
    <3>1. end = RunEnd(q)
      BY <1>e, <1>t, <1>z, <2>5, Neighbours
    <3> QED BY <1>b, <1>n, <1>z, <2>3, <2>5, <2>b, <3>1 DEF InRun, RunEnd
  <2>6. ASSUME NEW q \in runs, InRun(byte, q), RunEnd(q) = a.offset PROVE InRun(byte, merged)
    <3>1. start = q.offset
      BY <1>s, <1>t, <1>z, <2>6, Neighbours
    <3>2. q.offset <= byte /\ byte < RunEnd(q)
      BY <2>6 DEF InRun, RunEnd
    <3> QED BY <1>b, <1>n, <1>z, <2>3, <2>6, <2>b, <3>1, <3>2
  <2> QED BY <2>1, <2>2, <2>4, <2>5, <2>6
<1>6. Inside(after, held \ {a}, size)
  <2>1. /\ \A q \in runs : RunEnd(q) <= size
        /\ \A b \in held : AllocEnd(b) <= size
    BY DEF Tiled, Inside
  <2>2. end <= size
    BY <1>e, <2>1
  <2> QED BY <1>a, <1>r, <2>1, <2>2 DEF Inside
<1> QED BY <1>t, <1>i, <1>1, <1>2, <1>3, <1>4, <1>5, <1>6 DEF Tiled

-----------------------------------------------------------------------------
\* A set of naturals has a least element, so the choices of allocate() exist.
LEMMA LeastExists ==
  ASSUME NEW S \in SUBSET Nat, S # {}
  PROVE  \E x \in S : \A y \in S : x <= y
<1> DEFINE Below == OpToRel(<, Nat)
<1>1. \E x \in S : \A y \in S : ~ (<<y, x>> \in Below)
  BY NatLessThanWellFounded, WFMin
<1>2. \A x, y \in Nat : <<y, x>> \in Below <=> y < x
  BY DEF OpToRel
<1> HIDE DEF Below
<1>3. PICK x \in S : \A y \in S : ~ (<<y, x>> \in Below)
  BY <1>1
<1>4. \A y \in S : ~ (y < x)
  BY <1>2, <1>3
<1> QED BY <1>4

\* The first block with room has room.
LEMMA MinMember == ASSUME NEW S \in SUBSET Nat, S # {} PROVE Min(S) \in S
BY LeastExists DEF Min

\* The lowest run with room has room.
LEMMA LowestFitFits ==
  ASSUME NEW runs, runs \subseteq Run, NEW n \in Nat, \E r \in runs : r.size >= n
  PROVE  LowestFit(runs, n) \in runs /\ LowestFit(runs, n).size >= n
<1> DEFINE fit == {r \in runs : r.size >= n}
           at == {r.offset : r \in fit}
<1>1. at \in SUBSET Nat /\ at # {}
  BY DEF Run
<1>2. PICK x \in at : \A y \in at : x <= y
  BY <1>1, LeastExists
<1>3. \E r \in runs : r.size >= n /\ \A q \in runs : q.size >= n => r.offset <= q.offset
  BY <1>2
<1> QED BY <1>3 DEF LowestFit

\* A new block is tiled by the allocation it was made for and what is left of it.
LEMMA NewTiled ==
  ASSUME NEW size \in Nat, NEW n \in Nat \ {0}, n <= size,
         NEW a \in Allocation, a.offset = 0, a.padded = n
  PROVE  Tiled(Carve({[offset |-> 0, size |-> size]}, [offset |-> 0, size |-> size], n), {a}, size)
<1> DEFINE whole == [offset |-> 0, size |-> size]
<1>1. whole \in Run /\ whole.offset = 0 /\ whole.size = size /\ RunEnd(whole) = size
  BY DEF Run, RunEnd
<1> HIDE DEF whole
<1>2. \A byte \in 0 .. size - 1 : InRun(byte, whole)
  BY <1>1 DEF InRun
<1>3. Tiled({whole}, {}, size)
  BY <1>1, <1>2 DEF Tiled, RunsApart, RunsFree, AllocsApart, Covered, Inside
<1>4. Tiled(Carve({whole}, whole, n), {} \cup {a}, size)
  BY <1>1, <1>3, CarveTiled
<1>5. {} \cup {a} = {a}
  OBVIOUS
<1> QED BY <1>4, <1>5 DEF whole

\* A trimmed block has no bytes left to account for.
LEMMA TrimTiled == Tiled({}, {}, 0)
BY DEF Tiled, RunsApart, RunsFree, AllocsApart, Covered, Inside

-----------------------------------------------------------------------------
\* The counts and the types of a block one allocation richer, or poorer.
LEMMA OneMore ==
  ASSUME NEW held, IsFiniteSet(held), NEW a, a \notin held
  PROVE  IsFiniteSet(held \cup {a}) /\ Cardinality(held \cup {a}) = Cardinality(held) + 1
BY FS_AddElement

\* Removing a member of a finite set makes it smaller by one.
LEMMA OneLess ==
  ASSUME NEW held, IsFiniteSet(held), NEW a \in held
  PROVE  IsFiniteSet(held \ {a}) /\ Cardinality(held \ {a}) = Cardinality(held) - 1
BY FS_RemoveElement

\* The allocations of a block are finitely many.
LEMMA HeldFinite ==
  ASSUME IsFiniteSet(allocs), NEW bi
  PROVE  IsFiniteSet(AllocsOf(bi)) /\ Cardinality(AllocsOf(bi)) \in Nat
<1>1. AllocsOf(bi) \in SUBSET allocs
  BY DEF AllocsOf
<1> QED BY <1>1, FS_Subset, FS_CardinalityType

\* What allocate() makes of a request is an allocation.
LEMMA HandedOut ==
  ASSUME NEW size \in Requests, NEW asked \in Kinds, NEW bi \in Nat \ {0}, NEW offset \in Nat
  PROVE  [block |-> bi, offset |-> offset, size |-> size, padded |-> Padded(size),
          kind |-> EffectiveKind(asked)] \in Allocation
<1>1. Padded(size) \in Nat \ {0} /\ size \in Nat
  BY PaddedPositive, SizesAssumption
<1>2. EffectiveKind(asked) \in Kinds
  BY DEF EffectiveKind, Kinds
<1> QED BY <1>1, <1>2 DEF Allocation

\* A function on the domain of a sequence is a sequence.
LEMMA SameDomainSeq ==
  ASSUME NEW S, NEW s \in Seq(S), NEW t \in [DOMAIN s -> S] PROVE t \in Seq(S)
OBVIOUS

\* One block's runs and count change, and nothing else of the list of blocks.
LEMMA BlockReplaced ==
  ASSUME blocks \in Seq(Block), NEW bi \in DOMAIN blocks, NEW runs \in SUBSET Run, NEW live \in Int,
         blocks' = [blocks EXCEPT ![bi].runs = runs, ![bi].live = live]
  PROVE  /\ blocks' \in Seq(Block) /\ DOMAIN blocks' = DOMAIN blocks
         /\ \A j \in DOMAIN blocks : j # bi => blocks'[j] = blocks[j]
         /\ blocks'[bi].runs = runs /\ blocks'[bi].live = live
         /\ blocks'[bi].size = blocks[bi].size
<1>1. blocks[bi] \in Block
  OBVIOUS
<1>2. blocks' = [blocks EXCEPT ![bi] = [blocks[bi] EXCEPT !.runs = runs, !.live = live]]
  BY <1>1 DEF Block
<1>3. [blocks[bi] EXCEPT !.runs = runs, !.live = live] \in Block
  BY <1>1 DEF Block
<1>4. blocks' \in [DOMAIN blocks -> Block]
  BY <1>2, <1>3
<1>5. DOMAIN blocks' = DOMAIN blocks
  BY <1>4
<1>6. blocks' \in Seq(Block)
  BY <1>4, SameDomainSeq
<1>7. /\ blocks'[bi] = [blocks[bi] EXCEPT !.runs = runs, !.live = live]
      /\ \A j \in DOMAIN blocks : j # bi => blocks'[j] = blocks[j]
  BY <1>2
<1>8. blocks'[bi].runs = runs /\ blocks'[bi].live = live /\ blocks'[bi].size = blocks[bi].size
  BY <1>1, <1>7 DEF Block
<1> QED BY <1>5, <1>6, <1>7, <1>8

\* A count that follows the change of the runs is read from the block as it was.
LEMMA LiveIsRead ==
  ASSUME blocks \in Seq(Block), NEW bi \in DOMAIN blocks, NEW runs
  PROVE  [blocks EXCEPT ![bi].runs = runs][bi].live = blocks[bi].live
<1>1. blocks[bi] \in Block
  OBVIOUS
<1> QED BY <1>1 DEF Block

\* allocate() in a block that has room hands out bytes nobody holds.
LEMMA FitStep ==
  ASSUME AllocInv, NEW size \in Requests, NEW asked \in Kinds, AllocateFit(size, asked)
  PROVE  AllocInv' /\ \E a \in Allocation : a \notin allocs /\ allocs' = allocs \cup {a}
<1> DEFINE kind == EffectiveKind(asked)
           n == Padded(size)
           bi == Min(Fits(kind, n))
           runs == blocks[bi].runs
           r == LowestFit(runs, n)
           a == [block |-> bi, offset |-> r.offset, size |-> size, padded |-> n, kind |-> kind]
<1>0. /\ Fits(kind, n) # {}
      /\ blocks' = [blocks EXCEPT ![bi].runs = Carve(@, r, n), ![bi].live = @ + 1]
      /\ allocs' = allocs \cup {a}
  BY DEF AllocateFit, HandOut
<1>1. n \in Nat \ {0}
  BY PaddedPositive
<1>b. blocks \in Seq(Block) /\ DOMAIN blocks \subseteq Nat \ {0}
  BY DEF AllocInv
<1>2. bi \in DOMAIN blocks /\ \E q \in runs : q.size >= n
  <2>1. Fits(kind, n) \in SUBSET Nat
    BY <1>b DEF Fits
  <2>2. bi \in Fits(kind, n)
    BY <1>0, <2>1, MinMember
  <2> QED BY <2>2 DEF Fits
<1>3. Tiled(runs, AllocsOf(bi), blocks[bi].size) /\ runs \subseteq Run
  BY <1>2 DEF AllocInv, Tiled
<1>4. r \in runs /\ r.size >= n /\ r.offset \in Nat /\ r.size \in Nat \ {0}
  BY <1>1, <1>2, <1>3, LowestFitFits DEF Run
<1>5. a \in Allocation
  BY <1>2, <1>4, <1>b, HandedOut
<1>6. a.offset = r.offset /\ a.padded = n /\ a.block = bi
  OBVIOUS
<1> HIDE DEF a, r, runs, bi, n, kind
<1>7. a \notin allocs
  <2> SUFFICES ASSUME a \in allocs PROVE FALSE
    OBVIOUS
  <2>1. RunEnd(r) <= a.offset \/ AllocEnd(a) <= r.offset
    BY <1>3, <1>4, <1>6 DEF AllocsOf, Tiled, RunsFree
  <2> QED BY <1>1, <1>4, <1>6, <2>1 DEF RunEnd, AllocEnd
<1>8. \A j : AllocsOf(j)' = IF j = bi THEN AllocsOf(bi) \cup {a} ELSE AllocsOf(j)
  BY <1>0, <1>6 DEF AllocsOf
<1>9. Tiled(Carve(runs, r, n), AllocsOf(bi) \cup {a}, blocks[bi].size)
  BY <1>1, <1>3, <1>4, <1>5, <1>6, CarveTiled
<1>10. IsFiniteSet(allocs) /\ IsFiniteSet(AllocsOf(bi)) /\ a \notin AllocsOf(bi)
  BY <1>7, HeldFinite DEF AllocInv, AllocsOf
<1>11. /\ blocks' = [blocks EXCEPT ![bi].runs = Carve(runs, r, n), ![bi].live = blocks[bi].live + 1]
       /\ Carve(runs, r, n) \in SUBSET Run /\ blocks[bi].live + 1 \in Int
  <2>1. /\ blocks' = [blocks EXCEPT ![bi].runs = Carve(runs, r, n),
                      ![bi].live = [blocks EXCEPT ![bi].runs = Carve(runs, r, n)][bi].live + 1]
        /\ Carve(runs, r, n) \in SUBSET Run
    BY <1>0, <1>9 DEF runs, Tiled
  <2>2. blocks[bi].live \in Int
    <3>1. blocks[bi] \in Block
      BY <1>2, <1>b
    <3> QED BY <3>1 DEF Block
  <2>3. [blocks EXCEPT ![bi].runs = Carve(runs, r, n)][bi].live = blocks[bi].live
    BY <1>2, <1>b, LiveIsRead
  <2> QED BY <2>1, <2>2, <2>3
<1>12. /\ blocks' \in Seq(Block) /\ DOMAIN blocks' = DOMAIN blocks
       /\ \A j \in DOMAIN blocks : j # bi => blocks'[j] = blocks[j]
       /\ blocks'[bi].runs = Carve(runs, r, n) /\ blocks'[bi].live = blocks[bi].live + 1
       /\ blocks'[bi].size = blocks[bi].size
  BY <1>2, <1>11, <1>b, BlockReplaced
<1>13. allocs' \subseteq Allocation /\ IsFiniteSet(allocs') /\ \A c \in allocs' : c.block \in DOMAIN blocks'
  BY <1>0, <1>2, <1>5, <1>6, <1>7, <1>10, <1>12, OneMore DEF AllocInv
<1>14. ASSUME NEW j \in DOMAIN blocks
       PROVE  /\ Tiled(blocks'[j].runs, AllocsOf(j)', blocks'[j].size)
              /\ blocks'[j].live = Cardinality(AllocsOf(j)')
  <2>1. CASE j = bi
    BY <1>2, <1>8, <1>9, <1>10, <1>12, <2>1, OneMore DEF AllocInv
  <2>2. CASE j # bi
    BY <1>8, <1>12, <2>2 DEF AllocInv
  <2> QED BY <2>1, <2>2
<1> QED BY <1>0, <1>5, <1>7, <1>12, <1>13, <1>14 DEF AllocInv

\* allocate() from a new block leaves the old ones as they are.
LEMMA NewStep ==
  ASSUME AllocInv, NEW size \in Requests, NEW asked \in Kinds, AllocateNew(size, asked)
  PROVE  AllocInv' /\ \E a \in Allocation : a \notin allocs /\ allocs' = allocs \cup {a}
<1> DEFINE kind == EffectiveKind(asked)
           n == Padded(size)
           bi == Len(blocks) + 1
           whole == [offset |-> 0, size |-> BlockSize(n)]
           runs == Carve({whole}, whole, n)
           new == [kind |-> kind, size |-> BlockSize(n), live |-> 1, runs |-> runs]
           a == [block |-> bi, offset |-> 0, size |-> size, padded |-> n, kind |-> kind]
<1>0. blocks' = Append(blocks, new) /\ allocs' = allocs \cup {a}
  BY DEF AllocateNew, HandOut
<1>1. n \in Nat \ {0}
  BY PaddedPositive
<1>2. BlockSize(n) \in Nat /\ n <= BlockSize(n)
  BY <1>1, SizesAssumption DEF BlockSize, Larger
<1>b. blocks \in Seq(Block) /\ DOMAIN blocks = 1 .. Len(blocks) /\ Len(blocks) \in Nat
  BY DEF AllocInv
<1>3. a \in Allocation /\ kind \in Kinds
  <2>1. bi \in Nat \ {0} /\ 0 \in Nat
    BY <1>b
  <2>2. a \in Allocation
    BY <2>1, HandedOut
  <2> QED BY <2>2 DEF EffectiveKind, Kinds
<1>4. a.offset = 0 /\ a.padded = n /\ a.block = bi
  OBVIOUS
<1> HIDE DEF a, n, kind
<1>5. Tiled(runs, {a}, BlockSize(n))
  BY <1>1, <1>2, <1>3, <1>4, NewTiled
<1>6. runs \in SUBSET Run
  BY <1>5 DEF Tiled
<1> HIDE DEF runs, whole
<1>7. new \in Block /\ new.runs = runs /\ new.live = 1 /\ new.size = BlockSize(n)
  BY <1>2, <1>3, <1>6 DEF Block
<1> HIDE DEF new
<1>8. /\ blocks' \in Seq(Block) /\ DOMAIN blocks' = DOMAIN blocks \cup {bi} /\ blocks'[bi] = new
      /\ \A j \in DOMAIN blocks : blocks'[j] = blocks[j]
  BY <1>0, <1>7, <1>b
<1>9. a \notin allocs /\ AllocsOf(bi) = {}
  BY <1>4, <1>b DEF AllocInv, AllocsOf
<1>10. \A j : AllocsOf(j)' = IF j = bi THEN {a} ELSE AllocsOf(j)
  BY <1>0, <1>4, <1>9 DEF AllocsOf
<1>11. allocs' \subseteq Allocation /\ IsFiniteSet(allocs') /\ \A c \in allocs' : c.block \in DOMAIN blocks'
  BY <1>0, <1>3, <1>4, <1>8, <1>9, OneMore DEF AllocInv
<1>12. ASSUME NEW j \in DOMAIN blocks'
       PROVE  /\ Tiled(blocks'[j].runs, AllocsOf(j)', blocks'[j].size)
              /\ blocks'[j].live = Cardinality(AllocsOf(j)')
  <2>1. CASE j = bi
    BY <1>5, <1>7, <1>8, <1>10, <2>1, FS_Singleton
  <2>2. CASE j # bi
    BY <1>8, <1>10, <2>2 DEF AllocInv
  <2> QED BY <2>1, <2>2
<1> QED BY <1>0, <1>3, <1>8, <1>9, <1>11, <1>12 DEF AllocInv

\* free() merges the bytes back into their block.
LEMMA FreeStep ==
  ASSUME AllocInv, NEW a \in allocs, Free(a)
  PROVE  AllocInv'
<1> DEFINE bi == a.block
           runs == InsertFreeRun(blocks[bi].runs, a.offset, a.padded)
<1>b. blocks \in Seq(Block) /\ bi \in DOMAIN blocks
  BY DEF AllocInv
<1>1. Tiled(blocks[bi].runs, AllocsOf(bi), blocks[bi].size) /\ a \in AllocsOf(bi)
  BY <1>b DEF AllocInv, AllocsOf
<1>2. Tiled(runs, AllocsOf(bi) \ {a}, blocks[bi].size)
  BY <1>1, InsertTiled
<1>3. /\ blocks' = [blocks EXCEPT ![bi].runs = runs, ![bi].live = blocks[bi].live - 1]
      /\ blocks[bi].live - 1 \in Int
  <2>1. blocks' = [blocks EXCEPT ![bi].runs = runs,
                                 ![bi].live = [blocks EXCEPT ![bi].runs = runs][bi].live - 1]
    BY DEF Free
  <2>2. blocks[bi].live \in Int
    <3>1. blocks[bi] \in Block
      BY <1>b
    <3> QED BY <3>1 DEF Block
  <2>3. [blocks EXCEPT ![bi].runs = runs][bi].live = blocks[bi].live
    BY <1>b, LiveIsRead
  <2> HIDE DEF runs
  <2> QED BY <2>1, <2>2, <2>3
<1>4. runs \in SUBSET Run /\ allocs' = allocs \ {a}
  BY <1>2 DEF Tiled, Free
<1> HIDE DEF runs
<1>5. /\ blocks' \in Seq(Block) /\ DOMAIN blocks' = DOMAIN blocks
      /\ \A j \in DOMAIN blocks : j # bi => blocks'[j] = blocks[j]
      /\ blocks'[bi].runs = runs /\ blocks'[bi].live = blocks[bi].live - 1
      /\ blocks'[bi].size = blocks[bi].size
  BY <1>3, <1>4, <1>b, BlockReplaced
<1>6. \A j : AllocsOf(j)' = IF j = bi THEN AllocsOf(bi) \ {a} ELSE AllocsOf(j)
  BY <1>4 DEF AllocsOf
<1>7. IsFiniteSet(allocs) /\ IsFiniteSet(AllocsOf(bi))
  BY HeldFinite DEF AllocInv
<1>8. allocs' \subseteq Allocation /\ IsFiniteSet(allocs') /\ \A c \in allocs' : c.block \in DOMAIN blocks'
  BY <1>4, <1>5, <1>7, OneLess DEF AllocInv
<1>9. ASSUME NEW j \in DOMAIN blocks
      PROVE  /\ Tiled(blocks'[j].runs, AllocsOf(j)', blocks'[j].size)
             /\ blocks'[j].live = Cardinality(AllocsOf(j)')
  <2>1. CASE j = bi
    BY <1>1, <1>2, <1>5, <1>6, <1>7, <2>1, OneLess DEF AllocInv
  <2>2. CASE j # bi
    BY <1>5, <1>6, <2>2 DEF AllocInv
  <2> QED BY <2>1, <2>2
<1> QED BY <1>5, <1>8, <1>9 DEF AllocInv

\* trim() takes the bytes of blocks nobody holds any of.
LEMMA TrimStep == ASSUME AllocInv, Trim PROVE AllocInv'
<1> DEFINE hole(b) == [b EXCEPT !.runs = {}, !.size = 0]
<1>1. /\ blocks' = [bi \in DOMAIN blocks |->
                      IF Trimmed(blocks[bi]) THEN hole(blocks[bi]) ELSE blocks[bi]]
      /\ allocs' = allocs
  BY DEF Trim
<1>b. blocks \in Seq(Block)
  BY DEF AllocInv
<1>2. ASSUME NEW b \in Block PROVE hole(b) \in Block /\ hole(b).runs = {} /\ hole(b).size = 0
                                   /\ hole(b).live = b.live
  BY DEF Block
<1> HIDE DEF hole
<1>3. blocks' \in [DOMAIN blocks -> Block]
  BY <1>1, <1>2, <1>b
<1>4. blocks' \in Seq(Block) /\ DOMAIN blocks' = DOMAIN blocks
  BY <1>3, <1>b
<1>5. \A j : AllocsOf(j)' = AllocsOf(j)
  BY <1>1 DEF AllocsOf
<1>6. ASSUME NEW j \in DOMAIN blocks
      PROVE  /\ Tiled(blocks'[j].runs, AllocsOf(j)', blocks'[j].size)
             /\ blocks'[j].live = Cardinality(AllocsOf(j)')
  <2>1. CASE Trimmed(blocks[j])
    <3>1. IsFiniteSet(AllocsOf(j)) /\ Cardinality(AllocsOf(j)) = 0
      BY <2>1, HeldFinite DEF AllocInv, Trimmed
    <3>2. AllocsOf(j) = {}
      BY <3>1, FS_EmptySet
    <3>3. blocks'[j].runs = {} /\ blocks'[j].size = 0 /\ blocks'[j].live = 0
      BY <1>1, <1>2, <1>b, <2>1 DEF Trimmed
    <3> QED BY <1>5, <3>1, <3>2, <3>3, TrimTiled
  <2>2. CASE ~Trimmed(blocks[j])
    BY <1>1, <1>5, <2>2 DEF AllocInv
  <2> QED BY <2>1, <2>2
<1> QED BY <1>1, <1>4, <1>6 DEF AllocInv

-----------------------------------------------------------------------------
\* An allocator starts with no block.
LEMMA AllocInvInit == ASSUME AllocInit PROVE AllocInv
BY FS_EmptySet DEF AllocInit, AllocInv

\* Every call of the allocator preserves the invariant.
LEMMA AllocInvStep == ASSUME AllocInv, [AllocNext]_avars PROVE AllocInv'
<1>1. ASSUME NEW size \in Requests, NEW kind \in Kinds, AllocateFit(size, kind) PROVE AllocInv'
  BY <1>1, FitStep
<1>2. ASSUME NEW size \in Requests, NEW kind \in Kinds, AllocateNew(size, kind) PROVE AllocInv'
  BY <1>2, NewStep
<1>3. ASSUME NEW a \in allocs, Free(a) PROVE AllocInv'
  BY <1>3, FreeStep
<1>4. CASE Trim
  BY <1>4, TrimStep
<1>5. CASE UNCHANGED avars
  BY <1>5 DEF avars, AllocInv, AllocsOf
<1> QED BY <1>1, <1>2, <1>3, <1>4, <1>5 DEF AllocNext

\* Through any sequence of allocate(), free() and trim(), of any sizes and any
\* number of blocks, every block is tiled by its free runs and its allocations,
\* no two free runs touch, and its live count is right.
THEOREM AllocatorInvariant == AllocSpec => []AllocInv
BY AllocInvInit, AllocInvStep, PTL DEF AllocSpec

\* What tiling means byte by byte: each is in one allocation or in one free run.
LEMMA TiledPartitions ==
  ASSUME NEW runs, NEW held, NEW size, Tiled(runs, held, size), NEW byte \in 0 .. size - 1
  PROVE  Cardinality({r \in runs : InRun(byte, r)}) + Cardinality({a \in held : InAlloc(byte, a)}) = 1
<1>n. /\ \A q \in runs : q.offset \in Nat /\ q.size \in Nat \ {0}
      /\ \A b \in held : b.offset \in Nat /\ b.padded \in Nat \ {0}
      /\ byte \in Int
  BY DEF Tiled, Run, Allocation
<1>1. CASE \E r \in runs : InRun(byte, r)
  <2>1. PICK r \in runs : InRun(byte, r)
    BY <1>1
  <2>2. \A q \in runs : InRun(byte, q) => q = r
    BY <1>n, <2>1 DEF Tiled, RunsApart, InRun, RunEnd
  <2>3. \A a \in held : ~InAlloc(byte, a)
    BY <1>n, <2>1 DEF Tiled, RunsFree, InRun, InAlloc, RunEnd, AllocEnd
  <2>4. {q \in runs : InRun(byte, q)} = {r} /\ {a \in held : InAlloc(byte, a)} = {}
    BY <2>1, <2>2, <2>3
  <2>5. Cardinality({r}) = 1 /\ Cardinality({}) = 0
    BY FS_Singleton, FS_EmptySet
  <2> QED BY <2>4, <2>5
<1>2. CASE ~ \E r \in runs : InRun(byte, r)
  <2>1. PICK a \in held : InAlloc(byte, a)
    BY <1>2 DEF Tiled, Covered
  <2>2. \A b \in held : InAlloc(byte, b) => b = a
    BY <1>n, <2>1 DEF Tiled, AllocsApart, InAlloc, AllocEnd
  <2>3. {q \in runs : InRun(byte, q)} = {} /\ {b \in held : InAlloc(byte, b)} = {a}
    BY <1>2, <2>1, <2>2
  <2>4. Cardinality({a}) = 1 /\ Cardinality({}) = 0
    BY FS_Singleton, FS_EmptySet
  <2> QED BY <2>3, <2>4
<1> QED BY <1>1, <1>2

\* Every byte of every block is in exactly one live allocation or exactly one
\* free run: the first half of Accounted.
THEOREM BytesPartitioned == AllocSpec => []Partition
<1>1. AllocInv => Partition
  <2> SUFFICES ASSUME AllocInv, NEW bi \in DOMAIN blocks
               PROVE  /\ \A byte \in 0 .. blocks[bi].size - 1 :
                           Cardinality({r \in blocks[bi].runs : InRun(byte, r)})
                             + Cardinality({a \in AllocsOf(bi) : InAlloc(byte, a)}) = 1
                      /\ \A r \in blocks[bi].runs : r.offset + r.size <= blocks[bi].size
                      /\ \A a \in AllocsOf(bi) : a.offset + a.padded <= blocks[bi].size
    BY DEF Partition
  <2>1. Tiled(blocks[bi].runs, AllocsOf(bi), blocks[bi].size)
    BY DEF AllocInv
  <2> QED BY <2>1, TiledPartitions DEF Tiled, Inside, RunEnd, AllocEnd
<1> QED BY <1>1, AllocatorInvariant, PTL

-----------------------------------------------------------------------------
\* Two allocations that hold a byte of the same block in common are the same one.
LEMMA HeldApart ==
  ASSUME AllocInv, NEW a \in allocs, NEW b \in allocs, a.block = b.block,
         a.offset < AllocEnd(b), b.offset < AllocEnd(a)
  PROVE  a = b
<1>1. a \in AllocsOf(a.block) /\ b \in AllocsOf(a.block) /\ AllocsApart(AllocsOf(a.block))
  BY DEF AllocInv, AllocsOf, Tiled
<1>2. a.offset \in Nat /\ b.offset \in Nat /\ AllocEnd(a) \in Nat /\ AllocEnd(b) \in Nat
  BY DEF AllocInv, Allocation, AllocEnd
<1> QED BY <1>1, <1>2 DEF AllocsApart

Held(S) == {[block |-> a.block, offset |-> a.offset, padded |-> a.padded] : a \in S}

\* An allocation takes a range the pool has not handed out.
LEMMA TakesRange ==
  ASSUME AllocInv, AllocInv', NEW a \in Allocation, a \notin allocs, allocs' = allocs \cup {a}
  PROVE  Pool!Next
<1> DEFINE range(c) == [block |-> c.block, offset |-> c.offset, padded |-> c.padded]
<1>1. range(a) \in Pool!Range
  BY DEF Pool!Range, Allocation
<1>2. Held(allocs') = Held(allocs) \cup {range(a)}
  BY DEF Held
<1>3. \A b \in allocs : ~Pool!Overlap(range(a), range(b))
  <2> SUFFICES ASSUME NEW b \in allocs, Pool!Overlap(range(a), range(b)) PROVE FALSE
    OBVIOUS
  <2>1. a.block = b.block /\ a.offset < AllocEnd(b) /\ b.offset < AllocEnd(a)
    BY DEF Pool!Overlap, AllocEnd
  <2>2. a = b
    <3>1. AllocsApart(AllocsOf(a.block)') /\ a \in AllocsOf(a.block)' /\ b \in AllocsOf(a.block)'
      BY <2>1 DEF AllocInv, AllocsOf, Tiled
    <3>2. a.offset \in Nat /\ b.offset \in Nat /\ AllocEnd(a) \in Nat /\ AllocEnd(b) \in Nat
      BY DEF AllocInv, Allocation, AllocEnd
    <3> QED BY <2>1, <3>1, <3>2 DEF AllocsApart
  <2> QED BY <2>2
<1>4. range(a) \notin Held(allocs)
  <2> SUFFICES ASSUME NEW b \in allocs, range(a) = range(b) PROVE FALSE
    BY DEF Held
  <2>1. a.offset \in Nat /\ a.padded \in Nat \ {0}
    BY DEF Allocation
  <2>2. range(b).block = a.block /\ range(b).offset = a.offset /\ range(b).padded = a.padded
    OBVIOUS
  <2>3. Pool!Overlap(range(a), range(b))
    BY <2>1, <2>2 DEF Pool!Overlap
  <2> QED BY <1>3, <2>3
<1>5. \A h \in Held(allocs) : ~Pool!Overlap(range(a), h)
  BY <1>3 DEF Held
<1>6. range(a) \in Held(allocs') \ Held(allocs)
  BY <1>2, <1>4
<1> HIDE DEF range
<1>7. Pool!Take(range(a))
  BY <1>2, <1>5 DEF Pool!Take, Held
<1> QED BY <1>1, <1>6, <1>7 DEF Pool!Next, Held

\* free() gives one range back to the pool.
LEMMA GivesRange ==
  ASSUME AllocInv, NEW a \in allocs, allocs' = allocs \ {a}
  PROVE  Pool!Next
<1> DEFINE range(c) == [block |-> c.block, offset |-> c.offset, padded |-> c.padded]
<1>1. \A b \in allocs : range(b) = range(a) => b = a
  <2> SUFFICES ASSUME NEW b \in allocs, range(b) = range(a) PROVE b = a
    OBVIOUS
  <2>1. b.block = a.block /\ b.offset = a.offset /\ b.padded = a.padded
    <3>1. /\ range(b).block = b.block /\ range(b).offset = b.offset /\ range(b).padded = b.padded
          /\ range(a).block = a.block /\ range(a).offset = a.offset /\ range(a).padded = a.padded
      OBVIOUS
    <3> HIDE DEF range
    <3> QED BY <3>1
  <2>2. a.offset \in Nat /\ a.padded \in Nat \ {0}
    BY DEF AllocInv, Allocation
  <2> QED BY <2>1, <2>2, HeldApart DEF AllocEnd
<1>2. range(a) \in Held(allocs)
  BY DEF Held
<1>3. Held(allocs') = Held(allocs) \ {range(a)}
  <2>1. Held(allocs) = {range(b) : b \in allocs} /\ Held(allocs') = {range(b) : b \in allocs'}
    BY DEF Held
  <2> HIDE DEF range
  <2> QED BY <1>1, <2>1
<1> HIDE DEF range
<1>4. Pool!Release(range(a))
  BY <1>2, <1>3 DEF Pool!Release, Held
<1> QED BY <1>2, <1>4 DEF Pool!Next, Held

\* The allocator implements the pool of disjoint ranges: no range is handed out
\* that overlaps one still held, and a range leaves only when its holder frees it.
THEOREM AllocatorImplementsPool == AllocSpec => ImplementsPool
<1>1. AllocInit => Pool!Init
  BY DEF AllocInit, Pool!Init
<1>2. AllocInv /\ AllocInv' /\ [AllocNext]_avars => [Pool!Next]_(Held(allocs))
  <2> SUFFICES ASSUME AllocInv, AllocInv', [AllocNext]_avars
               PROVE  Pool!Next \/ Held(allocs') = Held(allocs)
    BY DEF Held
  <2>1. ASSUME NEW size \in Requests, NEW kind \in Kinds, AllocateFit(size, kind) PROVE Pool!Next
    BY <2>1, FitStep, TakesRange
  <2>2. ASSUME NEW size \in Requests, NEW kind \in Kinds, AllocateNew(size, kind) PROVE Pool!Next
    BY <2>2, NewStep, TakesRange
  <2>3. ASSUME NEW a \in allocs, Free(a) PROVE Pool!Next
    BY <2>3, GivesRange DEF Free
  <2>4. CASE Trim \/ UNCHANGED avars
    BY <2>4 DEF Trim, avars
  <2> QED BY <2>1, <2>2, <2>3, <2>4 DEF AllocNext
<1> QED BY <1>1, <1>2, AllocatorInvariant, PTL DEF AllocSpec, ImplementsPool, Pool!Spec, Held

-----------------------------------------------------------------------------
\* Room that no allocation touches is inside one free run, because runs side by
\* side are merged.
LEMMA RoomIsOneRun ==
  ASSUME NEW runs, NEW held, NEW size, Tiled(runs, held, size), NEW n \in Nat \ {0},
         NEW o \in 0 .. size - n,
         \A a \in held : AllocEnd(a) <= o \/ o + n <= a.offset
  PROVE  \E r \in runs : r.size >= n
<1>n. /\ \A q \in runs : q.offset \in Nat /\ q.size \in Nat \ {0} /\ RunEnd(q) \in Nat
      /\ \A b \in held : b.offset \in Nat /\ AllocEnd(b) \in Nat
      /\ size \in Nat /\ o \in Nat /\ o + n <= size
  BY DEF Tiled, Run, Allocation, RunEnd, AllocEnd
<1>1. \A byte \in o .. o + n - 1 : byte \in 0 .. size - 1 /\ \A a \in held : ~InAlloc(byte, a)
  BY <1>n DEF InAlloc, AllocEnd
<1>2. PICK r \in runs : InRun(o, r)
  <2>1. o \in o .. o + n - 1
    BY <1>n
  <2> QED BY <1>1, <2>1 DEF Tiled, Covered
<1>3. CASE RunEnd(r) >= o + n
  BY <1>2, <1>3, <1>n DEF InRun, RunEnd
<1>4. CASE RunEnd(r) < o + n
  <2>1. RunEnd(r) \in o .. o + n - 1
    BY <1>2, <1>4, <1>n DEF InRun, RunEnd
  <2>2. PICK q \in runs : InRun(RunEnd(r), q)
    BY <1>1, <2>1 DEF Tiled, Covered
  <2>3. q # r /\ q.offset <= RunEnd(r) /\ RunEnd(r) < RunEnd(q)
    BY <1>n, <2>2 DEF InRun, RunEnd
  <2>4. RunEnd(r) < q.offset \/ RunEnd(q) < r.offset
    BY <2>3 DEF Tiled, RunsApart
  <2>5. r.offset < RunEnd(r)
    BY <1>n DEF RunEnd
  <2> QED BY <1>n, <2>3, <2>4, <2>5
<1> QED BY <1>3, <1>4, <1>n

\* allocate() asks the driver for a block only when no block of that kind has the
\* bytes in a row: merging keeps free memory usable for other sizes.
THEOREM NewBlocksOnlyWhenFull == AllocSpec => NewBlockOnlyIfFull
<1> DEFINE NewOnlyIfFull ==
      Len(blocks') > Len(blocks) =>
        LET new == blocks'[Len(blocks')]
            n   == CHOOSE n \in {a.padded : a \in allocs' \ allocs} : TRUE
        IN  \A bi \in DOMAIN blocks : blocks[bi].kind = new.kind => ~HasRoom(bi, n)
<1>1. AllocInv /\ [AllocNext]_avars => NewOnlyIfFull
  <2> SUFFICES ASSUME AllocInv, [AllocNext]_avars PROVE NewOnlyIfFull
    OBVIOUS
  <2>1. ASSUME NEW size \in Requests, NEW asked \in Kinds, AllocateNew(size, asked)
        PROVE  NewOnlyIfFull
    <3> DEFINE kind == EffectiveKind(asked)
               n == Padded(size)
               a == [block |-> Len(blocks) + 1, offset |-> 0, size |-> size, padded |-> n, kind |-> kind]
    <3>1. n \in Nat \ {0}
      BY PaddedPositive
    <3>2. Fits(kind, n) = {} /\ allocs' = allocs \cup {a}
      BY <2>1 DEF AllocateNew, HandOut
    <3>3. blocks \in Seq(Block) /\ blocks'[Len(blocks')].kind = kind
      <4> DEFINE b == [kind |-> kind, size |-> BlockSize(n), live |-> 1,
                       runs |-> Carve({[offset |-> 0, size |-> BlockSize(n)]},
                                      [offset |-> 0, size |-> BlockSize(n)], n)]
      <4>1. blocks' = Append(blocks, b) /\ b.kind = kind /\ blocks \in Seq(Block)
        BY <2>1 DEF AllocateNew, AllocInv
      <4> HIDE DEF b
      <4>2. Len(blocks') = Len(blocks) + 1 /\ blocks'[Len(blocks) + 1] = b
        BY <4>1
      <4> QED BY <4>1, <4>2
    <3>4. a \notin allocs /\ a.padded = n
      BY <3>3 DEF AllocInv
    <3> HIDE DEF a, n, kind
    <3>5. {c.padded : c \in allocs' \ allocs} = {n}
      BY <3>2, <3>4
    <3>6. (CHOOSE m \in {c.padded : c \in allocs' \ allocs} : TRUE) = n
      BY <3>5
    <3>7. ASSUME NEW bi \in DOMAIN blocks, blocks[bi].kind = kind PROVE ~HasRoom(bi, n)
      <4>1. \A r \in blocks[bi].runs : ~(r.size >= n)
        BY <3>2, <3>7 DEF Fits
      <4>2. Tiled(blocks[bi].runs, AllocsOf(bi), blocks[bi].size)
        BY <3>7 DEF AllocInv
      <4> QED BY <3>1, <4>1, <4>2, RoomIsOneRun DEF HasRoom, AllocEnd
    <3> QED BY <3>3, <3>6, <3>7
  <2>2. ASSUME NEW size \in Requests, NEW asked \in Kinds, AllocateFit(size, asked)
        PROVE  Len(blocks') = Len(blocks)
    BY <2>2 DEF AllocateFit, AllocInv
  <2>3. ASSUME NEW a \in allocs, Free(a) PROVE Len(blocks') = Len(blocks)
    BY <2>3 DEF Free, AllocInv
  <2>4. ASSUME Trim PROVE Len(blocks') = Len(blocks)
    <3>1. blocks' \in Seq(Block) /\ DOMAIN blocks' = DOMAIN blocks /\ blocks \in Seq(Block)
      BY <2>4, TrimStep DEF Trim, AllocInv
    <3> QED BY <3>1
  <2>5. ASSUME UNCHANGED avars PROVE Len(blocks') = Len(blocks)
    BY <2>5 DEF avars
  <2>6. Len(blocks) \in Nat /\ (Len(blocks') = Len(blocks) => NewOnlyIfFull)
    BY DEF AllocInv
  <2> HIDE DEF NewOnlyIfFull
  <2> QED BY <2>1, <2>2, <2>3, <2>4, <2>5, <2>6 DEF AllocNext
<1> QED BY <1>1, AllocatorInvariant, PTL DEF AllocSpec, NewBlockOnlyIfFull
-----------------------------------------------------------------------------
\* Sums as counts.  A natural number f[x] stands for f[x] units of x, so a sum
\* over a set is the number of its units, in whatever order it is folded.
Units(f, S) == {p \in S \X Nat : p[2] \in 1 .. f[p[1]]}
UnitsOf(f, x) == {x} \X (1 .. f[x])

\* One element has as many units as its value.
LEMMA UnitsOfOne ==
  ASSUME NEW f, NEW x, f[x] \in Nat
  PROVE  IsFiniteSet(UnitsOf(f, x)) /\ Cardinality(UnitsOf(f, x)) = f[x]
<1>1. IsFiniteSet({x}) /\ Cardinality({x}) = 1
  BY FS_Singleton
<1>2. IsFiniteSet(1 .. f[x]) /\ Cardinality(1 .. f[x]) = f[x]
  BY FS_Interval, SMTT(60)
<1>3. IsFiniteSet(UnitsOf(f, x)) /\ Cardinality(UnitsOf(f, x)) = Cardinality({x}) * Cardinality(1 .. f[x])
  BY <1>1, <1>2, FS_Product DEF UnitsOf
<1> QED BY <1>1, <1>2, <1>3

\* The units of two sets apart are apart.
LEMMA UnitsSplit ==
  ASSUME NEW f, NEW S, NEW T, T \cap S = {}
  PROVE  Units(f, S \cup T) = Units(f, S) \cup Units(f, T) /\ Units(f, S) \cap Units(f, T) = {}
BY DEF Units

\* The units of one element.
LEMMA UnitsSingle ==
  ASSUME NEW f, NEW x, f[x] \in Nat
  PROVE  Units(f, {x}) = UnitsOf(f, x)
BY DEF Units, UnitsOf

\* Finitely many elements have finitely many units.
LEMMA UnitsFinite ==
  ASSUME NEW f, NEW S, IsFiniteSet(S), \A x \in S : f[x] \in Nat
  PROVE  IsFiniteSet(Units(f, S))
<1> DEFINE T == {UnitsOf(f, x) : x \in S}
           g == [x \in S |-> UnitsOf(f, x)]
<1>1. g \in Surjection(S, T)
  BY Fun_IsSurj
<1>2. IsFiniteSet(T)
  BY <1>1, FS_Surjection
<1>3. \A U \in T : IsFiniteSet(U)
  BY UnitsOfOne
<1>4. IsFiniteSet(UNION T)
  BY <1>2, <1>3, FS_UNION
<1>5. Units(f, S) = UNION T
  BY DEF Units, UnitsOf
<1> QED BY <1>4, <1>5

\* An element adds as many units as its value.
LEMMA UnitsAdd ==
  ASSUME NEW f, NEW S, IsFiniteSet(S), \A x \in S : f[x] \in Nat, NEW x \in S
  PROVE  Cardinality(Units(f, S)) = Cardinality(Units(f, S \ {x})) + f[x]
<1> DEFINE R == S \ {x}
<1>1. IsFiniteSet(R)
  BY FS_RemoveElement
<1>2. IsFiniteSet(Units(f, R))
  BY <1>1, UnitsFinite
<1>3. S = R \cup {x} /\ {x} \cap R = {}
  OBVIOUS
<1> HIDE DEF R
<1>4. Units(f, S) = Units(f, R) \cup UnitsOf(f, x) /\ Units(f, R) \cap UnitsOf(f, x) = {}
  <2>1. Units(f, R \cup {x}) = Units(f, R) \cup Units(f, {x}) /\ Units(f, R) \cap Units(f, {x}) = {}
    BY <1>3, UnitsSplit
  <2>2. Units(f, {x}) = UnitsOf(f, x)
    BY UnitsSingle
  <2> QED BY <1>3, <2>1, <2>2
<1>5. Cardinality(Units(f, S)) = Cardinality(Units(f, R)) + Cardinality(UnitsOf(f, x)) - Cardinality({})
  BY <1>2, <1>4, UnitsOfOne, FS_Union
<1> QED BY <1>2, <1>5, UnitsOfOne, FS_EmptySet, FS_CardinalityType DEF R

\* A sum over a finite set counts its units: the fold's order does not matter.
LEMMA SumCounts ==
  ASSUME NEW f, NEW S, IsFiniteSet(S), \A x \in S : f[x] \in Nat
  PROVE  SumFunctionOnSet(f, S) = Cardinality(Units(f, S))
<1> DEFINE Pick(s) == CHOOSE x \in s : TRUE
           Rule(g) == [s \in SUBSET S |-> IF s = {} THEN 0 ELSE f[Pick(s)] + g[s \ {Pick(s)}]]
           h == CHOOSE g : g = Rule(g)
           count == [s \in SUBSET S |-> Cardinality(Units(f, s))]
<1>1. SumFunctionOnSet(f, S) = h[S]
  BY DEF SumFunctionOnSet, FoldFunctionOnSet, MapThenFoldSet
<1>2. \A s \in SUBSET S : s # {} => Pick(s) \in s
  OBVIOUS
<1> HIDE DEF Pick
<1>3. \A s \in SUBSET S : IsFiniteSet(s) /\ Cardinality(s) \in Nat
  BY FS_Subset, FS_CardinalityType
<1>4. \A s \in SUBSET S : Cardinality(Units(f, s)) \in Nat
  BY <1>3, UnitsFinite, FS_CardinalityType
<1>5. Cardinality(Units(f, {})) = 0
  <2>1. Units(f, {}) = {}
    BY DEF Units
  <2> QED BY <2>1, FS_EmptySet
<1>6. ASSUME NEW s \in SUBSET S, s # {}
      PROVE  Cardinality(Units(f, s)) = f[Pick(s)] + Cardinality(Units(f, s \ {Pick(s)}))
  <2>1. Pick(s) \in s /\ s \ {Pick(s)} \in SUBSET S
    BY <1>2, <1>6
  <2>2. Cardinality(Units(f, s)) = Cardinality(Units(f, s \ {Pick(s)})) + f[Pick(s)]
    BY <1>3, <2>1, UnitsAdd
  <2> QED BY <1>4, <2>1, <2>2
<1>7. count = Rule(count)
  <2>1. ASSUME NEW s \in SUBSET S PROVE count[s] = Rule(count)[s]
    BY <1>5, <1>6
  <2> QED BY <2>1
<1>8. h = Rule(h)
  <2> HIDE DEF Rule, count
  <2> QED BY <1>7
<1> HIDE DEF h
<1>9. \A s \in SUBSET S : h[s] = count[s]
  <2> DEFINE Wrong == {Cardinality(s) : s \in {s \in SUBSET S : h[s] # count[s]}}
  <2> SUFFICES ASSUME Wrong # {} PROVE FALSE
    OBVIOUS
  <2>1. Wrong \in SUBSET Nat
    BY <1>3
  <2>2. PICK n \in Wrong : \A m \in Wrong : n <= m
    <3> HIDE DEF Wrong
    <3> QED BY <2>1, LeastExists
  <2>3. PICK s \in SUBSET S : h[s] # count[s] /\ Cardinality(s) = n
    BY <2>2
  <2>4. s # {}
    BY <1>5, <1>8, <2>3
  <2> DEFINE r == s \ {Pick(s)}
  <2>5. r \in SUBSET S /\ Cardinality(r) = n - 1 /\ n \in Nat
    BY <1>2, <1>3, <2>3, <2>4, FS_RemoveElement
  <2>6. h[r] = count[r]
    <3>1. n - 1 \notin Wrong
      <4> HIDE DEF Wrong
      <4> QED BY <2>1, <2>2, <2>5
    <3> QED BY <2>5, <3>1
  <2>7. h[s] = f[Pick(s)] + h[r] /\ count[s] = f[Pick(s)] + count[r]
    BY <1>7, <1>8, <2>3, <2>4
  <2> QED BY <2>3, <2>6, <2>7
<1> QED BY <1>1, <1>9

\* A sum over one element more.
LEMMA SumAdd ==
  ASSUME NEW g, IsFiniteSet(DOMAIN g), \A x \in DOMAIN g : g[x] \in Nat, NEW x \in DOMAIN g,
         NEW f, DOMAIN f = DOMAIN g \ {x}, \A y \in DOMAIN f : f[y] = g[y]
  PROVE  SumFunction(g) = SumFunction(f) + g[x] /\ SumFunction(f) \in Nat
<1> DEFINE S == DOMAIN g
           R == DOMAIN f
<1>1. IsFiniteSet(R) /\ \A y \in R : f[y] \in Nat
  BY FS_RemoveElement
<1>2. Units(g, R) = Units(f, R)
  BY DEF Units
<1>3. Cardinality(Units(g, S)) = Cardinality(Units(g, S \ {x})) + g[x]
  BY UnitsAdd
<1>4. SumFunction(g) = Cardinality(Units(g, S)) /\ SumFunction(f) = Cardinality(Units(f, R))
  BY <1>1, SumCounts DEF SumFunction
<1>5. Cardinality(Units(f, R)) \in Nat
  BY <1>1, UnitsFinite, FS_CardinalityType
<1> QED BY <1>2, <1>3, <1>4, <1>5

\* A sum without the elements of a subset that are set to zero.
LEMMA SumWithout ==
  ASSUME NEW g, IsFiniteSet(DOMAIN g), \A x \in DOMAIN g : g[x] \in Nat, NEW T \in SUBSET DOMAIN g,
         NEW f, DOMAIN f = DOMAIN g, \A x \in DOMAIN g : f[x] = IF x \in T THEN 0 ELSE g[x]
  PROVE  SumFunction(f) = SumFunction(g) - SumFunctionOnSet(g, T)
<1> DEFINE S == DOMAIN g
           R == S \ T
<1>1. IsFiniteSet(T) /\ IsFiniteSet(R) /\ \A x \in S : f[x] \in Nat
  BY FS_Subset
<1>2. Units(f, S) = Units(g, R)
  BY DEF Units
<1>3. Units(g, S) = Units(g, R) \cup Units(g, T) /\ Units(g, R) \cap Units(g, T) = {}
  BY DEF Units
<1>4. IsFiniteSet(Units(g, R)) /\ IsFiniteSet(Units(g, T))
  BY <1>1, UnitsFinite
<1>5. /\ SumFunction(f) = Cardinality(Units(f, S)) /\ SumFunction(g) = Cardinality(Units(g, S))
      /\ SumFunctionOnSet(g, T) = Cardinality(Units(g, T))
  BY <1>1, SumCounts DEF SumFunction
<1> HIDE DEF R, S
<1>6. Cardinality(Units(g, S)) = Cardinality(Units(g, R)) + Cardinality(Units(g, T)) - Cardinality({})
  BY <1>3, <1>4, FS_Union
<1>7. Cardinality(Units(g, R)) \in Nat /\ Cardinality(Units(g, T)) \in Nat /\ Cardinality({}) = 0
  BY <1>4, FS_CardinalityType, FS_EmptySet
<1> QED BY <1>2, <1>5, <1>6, <1>7

-----------------------------------------------------------------------------
PaddedOf(held) == [a \in held |-> a.padded]
SizeOf(held) == [a \in held |-> a.size]
BlockSizes(list) == [bi \in DOMAIN list |-> list[bi].size]

\* The counters are the sums of what is handed out and of the blocks there are.
Counted ==
  /\ inUse = SumFunction(PaddedOf(allocs))
  /\ requested = SumFunction(SizeOf(allocs))
  /\ reserved = SumFunction(BlockSizes(blocks))

AccountInv == AllocInv /\ Counted

\* The bytes of one allocation more.
LEMMA BytesAdd ==
  ASSUME NEW held \in SUBSET Allocation, IsFiniteSet(held), NEW a \in held
  PROVE  /\ SumFunction(PaddedOf(held)) = SumFunction(PaddedOf(held \ {a})) + a.padded
         /\ SumFunction(SizeOf(held)) = SumFunction(SizeOf(held \ {a})) + a.size
         /\ SumFunction(PaddedOf(held \ {a})) \in Nat /\ SumFunction(SizeOf(held \ {a})) \in Nat
         /\ a.padded \in Nat /\ a.size \in Nat
<1>1. \A b \in held : b.padded \in Nat /\ b.size \in Nat
  BY DEF Allocation
<1>2. ASSUME NEW g, DOMAIN g = held, \A x \in held : g[x] \in Nat,
             NEW f, DOMAIN f = held \ {a}, \A y \in held \ {a} : f[y] = g[y]
      PROVE  SumFunction(g) = SumFunction(f) + g[a] /\ SumFunction(f) \in Nat
  BY <1>2, SumAdd
<1> DEFINE p == PaddedOf(held)
           q == PaddedOf(held \ {a})
           s == SizeOf(held)
           t == SizeOf(held \ {a})
<1>3. /\ DOMAIN p = held /\ \A x \in held : p[x] \in Nat
      /\ DOMAIN q = held \ {a} /\ \A y \in held \ {a} : q[y] = p[y]
      /\ p[a] = a.padded
  BY <1>1 DEF PaddedOf
<1>4. /\ DOMAIN s = held /\ \A x \in held : s[x] \in Nat
      /\ DOMAIN t = held \ {a} /\ \A y \in held \ {a} : t[y] = s[y]
      /\ s[a] = a.size
  BY <1>1 DEF SizeOf
<1> HIDE DEF p, q, s, t
<1>5. SumFunction(p) = SumFunction(q) + a.padded /\ SumFunction(q) \in Nat
  BY <1>2, <1>3
<1>6. SumFunction(s) = SumFunction(t) + a.size /\ SumFunction(t) \in Nat
  BY <1>2, <1>4
<1> QED BY <1>1, <1>5, <1>6 DEF p, q, s, t

\* The blocks of the list are finitely many, and their sizes are numbers.
LEMMA BlocksCount ==
  ASSUME NEW list \in Seq(Block)
  PROVE  /\ IsFiniteSet(DOMAIN BlockSizes(list)) /\ DOMAIN BlockSizes(list) = 1 .. Len(list)
         /\ \A bi \in DOMAIN BlockSizes(list) : BlockSizes(list)[bi] \in Nat /\ BlockSizes(list)[bi] = list[bi].size
<1>1. DOMAIN list = 1 .. Len(list) /\ Len(list) \in Nat
  OBVIOUS
<1>2. IsFiniteSet(1 .. Len(list))
  BY <1>1, FS_Interval
<1>3. ASSUME NEW bi \in DOMAIN list PROVE list[bi].size \in Nat
  <2>1. list[bi] \in Block
    BY <1>1
  <2> QED BY <2>1 DEF Block
<1> QED BY <1>1, <1>2, <1>3 DEF BlockSizes

\* What is handed out or freed leaves the sizes of the blocks alone.
LEMMA SizesStay ==
  ASSUME blocks \in Seq(Block), NEW bi, NEW runs, NEW live,
         blocks' = [blocks EXCEPT ![bi].runs = runs, ![bi].live = live]
  PROVE  BlockSizes(blocks') = BlockSizes(blocks)
<1>1. DOMAIN blocks' = DOMAIN blocks
  OBVIOUS
<1>2. \A j \in DOMAIN blocks : blocks'[j].size = blocks[j].size
  <2> SUFFICES ASSUME NEW j \in DOMAIN blocks PROVE blocks'[j].size = blocks[j].size
    OBVIOUS
  <2>1. blocks[j] \in Block
    OBVIOUS
  <2> QED BY <2>1 DEF Block
<1> QED BY <1>1, <1>2 DEF BlockSizes

\* Handing out adds the allocation's bytes, as asked for and padded.
LEMMA HandOutCounts ==
  ASSUME AllocInv, AllocInv', Counted, NEW bi, NEW offset, NEW size \in Requests, NEW kind,
         HandOut(bi, offset, size, kind), NEW a \in Allocation, a \notin allocs, allocs' = allocs \cup {a}
  PROVE  inUse' = SumFunction(PaddedOf(allocs')) /\ requested' = SumFunction(SizeOf(allocs'))
<1> DEFINE c == [block |-> bi, offset |-> offset, size |-> size, padded |-> Padded(size), kind |-> kind]
<1>1. allocs' = allocs \cup {c} /\ c.padded = Padded(size) /\ c.size = size
  BY DEF HandOut
<1> HIDE DEF c
<1>2. a = c
  BY <1>1
<1>3. allocs' \ {a} = allocs /\ a \in allocs'
  OBVIOUS
<1>4. allocs' \subseteq Allocation /\ IsFiniteSet(allocs')
  BY DEF AllocInv
<1>5. /\ SumFunction(PaddedOf(allocs')) = SumFunction(PaddedOf(allocs)) + a.padded
      /\ SumFunction(SizeOf(allocs')) = SumFunction(SizeOf(allocs)) + a.size
  BY <1>3, <1>4, BytesAdd
<1> QED BY <1>1, <1>2, <1>5 DEF HandOut, Counted

\* The counters take an allocation out of an existing block into account.
LEMMA FitCounts ==
  ASSUME AllocInv, Counted, NEW size \in Requests, NEW asked \in Kinds, AllocateFit(size, asked)
  PROVE  Counted'
<1>1. AllocInv' /\ \E a \in Allocation : a \notin allocs /\ allocs' = allocs \cup {a}
  BY FitStep
<1> DEFINE kind == EffectiveKind(asked)
           n == Padded(size)
           bi == Min(Fits(kind, n))
           r == LowestFit(blocks[bi].runs, n)
<1>2. HandOut(bi, r.offset, size, kind) /\ reserved' = reserved
  BY DEF AllocateFit
<1>3. \E runs, live : blocks' = [blocks EXCEPT ![bi].runs = runs, ![bi].live = live]
  <2>1. blocks' = [blocks EXCEPT ![bi].runs = Carve(@, r, n), ![bi].live = @ + 1]
    BY DEF AllocateFit
  <2> HIDE DEF bi, r, n
  <2> QED BY <2>1
<1> HIDE DEF bi, r, n, kind
<1>4. BlockSizes(blocks') = BlockSizes(blocks)
  BY <1>3, SizesStay DEF AllocInv
<1>5. inUse' = SumFunction(PaddedOf(allocs')) /\ requested' = SumFunction(SizeOf(allocs'))
  BY <1>1, <1>2, HandOutCounts
<1> QED BY <1>2, <1>4, <1>5 DEF Counted

\* The counters take a new block and its first allocation into account.
LEMMA NewCounts ==
  ASSUME AllocInv, Counted, NEW size \in Requests, NEW asked \in Kinds, AllocateNew(size, asked)
  PROVE  Counted'
<1>1. AllocInv' /\ \E a \in Allocation : a \notin allocs /\ allocs' = allocs \cup {a}
  BY NewStep
<1> DEFINE kind == EffectiveKind(asked)
           n == Padded(size)
           new == [kind |-> kind, size |-> BlockSize(n), live |-> 1,
                   runs |-> Carve({[offset |-> 0, size |-> BlockSize(n)]},
                                  [offset |-> 0, size |-> BlockSize(n)], n)]
           last == Len(blocks) + 1
<1>2. /\ HandOut(last, 0, size, kind) /\ reserved' = reserved + BlockSize(n)
      /\ blocks' = Append(blocks, new)
  BY DEF AllocateNew
<1>3. new.size = BlockSize(n)
  OBVIOUS
<1> HIDE DEF new, n, kind
<1>4. blocks \in Seq(Block) /\ blocks' \in Seq(Block)
  BY <1>1 DEF AllocInv
<1>5. /\ Len(blocks') = last /\ Len(blocks) \in Nat /\ blocks'[last] = new
      /\ \A j \in 1 .. Len(blocks) : blocks'[j] = blocks[j]
  BY <1>2, <1>4, AppendProperties
<1> DEFINE f == BlockSizes(blocks)
           g == BlockSizes(blocks')
<1>6. /\ IsFiniteSet(DOMAIN g) /\ \A j \in DOMAIN g : g[j] \in Nat
      /\ last \in DOMAIN g /\ DOMAIN f = DOMAIN g \ {last} /\ \A j \in DOMAIN f : f[j] = g[j]
      /\ g[last] = BlockSize(n)
  <2>1. /\ IsFiniteSet(DOMAIN g) /\ DOMAIN g = 1 .. last
        /\ \A j \in DOMAIN g : g[j] \in Nat /\ g[j] = blocks'[j].size
    BY <1>4, <1>5, BlocksCount
  <2>2. DOMAIN f = 1 .. Len(blocks) /\ \A j \in DOMAIN f : f[j] = blocks[j].size
    BY <1>4, BlocksCount
  <2> HIDE DEF f, g
  <2>3. last \in DOMAIN g /\ DOMAIN f = DOMAIN g \ {last}
    BY <1>5, <2>1, <2>2
  <2>4. \A j \in DOMAIN f : f[j] = g[j]
    BY <1>5, <2>1, <2>2, <2>3
  <2> QED BY <1>3, <1>5, <2>1, <2>3, <2>4
<1> HIDE DEF f, g
<1>7. SumFunction(g) = SumFunction(f) + BlockSize(n)
  BY <1>6, SumAdd
<1>8. inUse' = SumFunction(PaddedOf(allocs')) /\ requested' = SumFunction(SizeOf(allocs'))
  BY <1>1, <1>2, HandOutCounts
<1> QED BY <1>2, <1>7, <1>8 DEF Counted, f, g

\* The counters take a free into account.
LEMMA FreeCounts == ASSUME AllocInv, Counted, NEW a \in allocs, Free(a) PROVE Counted'
<1>1. /\ allocs' = allocs \ {a} /\ inUse' = inUse - a.padded /\ requested' = requested - a.size
      /\ reserved' = reserved
  BY DEF Free
<1>2. \E runs, live : blocks' = [blocks EXCEPT ![a.block].runs = runs, ![a.block].live = live]
  BY DEF Free
<1>3. BlockSizes(blocks') = BlockSizes(blocks)
  BY <1>2, SizesStay DEF AllocInv
<1>4. /\ SumFunction(PaddedOf(allocs)) = SumFunction(PaddedOf(allocs')) + a.padded
      /\ SumFunction(SizeOf(allocs)) = SumFunction(SizeOf(allocs')) + a.size
      /\ SumFunction(PaddedOf(allocs')) \in Nat /\ SumFunction(SizeOf(allocs')) \in Nat
      /\ a.padded \in Nat /\ a.size \in Nat
  BY <1>1, BytesAdd DEF AllocInv
<1> QED BY <1>1, <1>3, <1>4 DEF Counted

\* trim() takes exactly the blocks it tears down out of what is reserved.
LEMMA TrimCounts == ASSUME AllocInv, Counted, Trim PROVE Counted'
<1> DEFINE f == BlockSizes(blocks')
           g == BlockSizes(blocks)
           T == {bi \in DOMAIN blocks : Trimmed(blocks[bi])}
<1>1. /\ reserved' = reserved - SumFunctionOnSet(g, T) /\ UNCHANGED <<allocs, inUse, requested>>
      /\ DOMAIN blocks' = DOMAIN blocks
  BY DEF Trim, BlockSizes
<1>2. ASSUME NEW bi \in DOMAIN blocks PROVE blocks'[bi].size = IF bi \in T THEN 0 ELSE blocks[bi].size
  <2>1. blocks[bi] \in Block
    BY DEF AllocInv
  <2>2. blocks'[bi] = IF bi \in T THEN [blocks[bi] EXCEPT !.runs = {}, !.size = 0] ELSE blocks[bi]
    BY DEF Trim
  <2> HIDE DEF T
  <2> QED BY <2>1, <2>2 DEF Block
<1>3. /\ IsFiniteSet(DOMAIN g) /\ DOMAIN g = DOMAIN blocks /\ DOMAIN f = DOMAIN g /\ T \in SUBSET DOMAIN g
      /\ \A bi \in DOMAIN g : g[bi] \in Nat /\ f[bi] = IF bi \in T THEN 0 ELSE g[bi]
  <2>1. IsFiniteSet(DOMAIN g) /\ \A bi \in DOMAIN g : g[bi] \in Nat
    BY BlocksCount DEF AllocInv
  <2>2. /\ DOMAIN g = DOMAIN blocks /\ DOMAIN f = DOMAIN g
        /\ \A bi \in DOMAIN g : g[bi] = blocks[bi].size /\ f[bi] = blocks'[bi].size
    BY <1>1 DEF BlockSizes
  <2> QED BY <1>2, <2>1, <2>2
<1> HIDE DEF f, g, T
<1>4. SumFunction(f) = SumFunction(g) - SumFunctionOnSet(g, T)
  BY <1>3, SumWithout
<1> QED BY <1>1, <1>4 DEF Counted, f, g

\* An allocator with no block has counted nothing.
LEMMA CountedInit == AllocInit => Counted
<1> SUFFICES ASSUME AllocInit PROVE Counted
  OBVIOUS
<1>1. ASSUME NEW f, DOMAIN f = {} PROVE SumFunction(f) = 0
  <2>1. IsFiniteSet(DOMAIN f) /\ Units(f, DOMAIN f) = {}
    BY <1>1, FS_EmptySet DEF Units
  <2> QED BY <1>1, <2>1, SumCounts, FS_EmptySet DEF SumFunction
<1>2. DOMAIN PaddedOf(allocs) = {} /\ DOMAIN SizeOf(allocs) = {} /\ DOMAIN BlockSizes(blocks) = {}
  BY DEF AllocInit, PaddedOf, SizeOf, BlockSizes
<1> QED BY <1>1, <1>2 DEF AllocInit, Counted

\* Every call preserves what the counters say.
LEMMA AccountInvStep == AccountInv /\ [AllocNext]_avars => AccountInv'
<1> SUFFICES ASSUME AllocInv, Counted, [AllocNext]_avars PROVE AllocInv' /\ Counted'
  BY DEF AccountInv
<1>1. AllocInv'
  BY AllocInvStep
<1>2. ASSUME NEW size \in Requests, NEW kind \in Kinds, AllocateFit(size, kind) \/ AllocateNew(size, kind)
      PROVE  Counted'
  BY <1>2, FitCounts, NewCounts
<1>3. ASSUME NEW a \in allocs, Free(a) PROVE Counted'
  BY <1>3, FreeCounts
<1>4. Trim => Counted'
  BY TrimCounts
<1>5. ASSUME UNCHANGED avars PROVE Counted'
  <2>1. UNCHANGED <<blocks, allocs, inUse, requested, reserved>>
    BY <1>5 DEF avars
  <2> QED BY <2>1 DEF Counted
<1> QED BY <1>1, <1>2, <1>3, <1>4, <1>5 DEF AllocNext

\* What is handed out lies inside the blocks, each byte once, so it is no more
\* than the driver has given.
LEMMA HeldWithinReserved ==
  ASSUME AllocInv
  PROVE  SumFunction(PaddedOf(allocs)) <= SumFunction(BlockSizes(blocks))
<1> DEFINE p == PaddedOf(allocs)
           g == BlockSizes(blocks)
           S == Units(p, allocs)
           T == Units(g, DOMAIN blocks)
           byteOf == [u \in S |-> <<u[1].block, u[1].offset + u[2]>>]
<1>1. \A a \in allocs : /\ a.offset \in Nat /\ a.padded \in Nat \ {0} /\ a.block \in DOMAIN blocks
                        /\ AllocEnd(a) <= blocks[a.block].size
  <2> SUFFICES ASSUME NEW a \in allocs
               PROVE  /\ a.offset \in Nat /\ a.padded \in Nat \ {0} /\ a.block \in DOMAIN blocks
                      /\ AllocEnd(a) <= blocks[a.block].size
    OBVIOUS
  <2>1. a.offset \in Nat /\ a.padded \in Nat \ {0} /\ a.block \in DOMAIN blocks
    BY DEF AllocInv, Allocation
  <2>2. a \in AllocsOf(a.block) /\ Inside(blocks[a.block].runs, AllocsOf(a.block), blocks[a.block].size)
    BY <2>1 DEF AllocInv, AllocsOf, Tiled
  <2> QED BY <2>1, <2>2 DEF Inside
<1>2. /\ IsFiniteSet(DOMAIN blocks) /\ DOMAIN g = DOMAIN blocks
      /\ \A bi \in DOMAIN blocks : g[bi] \in Nat /\ g[bi] = blocks[bi].size
  BY BlocksCount DEF AllocInv, BlockSizes
<1>3. DOMAIN p = allocs /\ IsFiniteSet(allocs) /\ \A a \in allocs : p[a] \in Nat /\ p[a] = a.padded
  BY <1>1 DEF AllocInv, PaddedOf
<1>4. SumFunction(p) = Cardinality(S) /\ SumFunction(g) = Cardinality(T)
  BY <1>2, <1>3, SumCounts DEF SumFunction
<1>5. IsFiniteSet(T)
  BY <1>2, UnitsFinite
<1>6. \A u \in S : u[1] \in allocs /\ u[2] \in 1 .. u[1].padded /\ u = <<u[1], u[2]>>
  BY <1>3 DEF Units
<1>7. byteOf \in [S -> T]
  <2> SUFFICES ASSUME NEW u \in S PROVE <<u[1].block, u[1].offset + u[2]>> \in T
    OBVIOUS
  <2> DEFINE a == u[1]
             i == u[2]
  <2>1. a \in allocs /\ i \in 1 .. a.padded
    BY <1>6
  <2> HIDE DEF a, i
  <2>2. a.offset + i \in 1 .. g[a.block] /\ a.offset + i \in Nat /\ a.block \in DOMAIN blocks
    BY <1>1, <1>2, <2>1 DEF AllocEnd
  <2> QED BY <2>2 DEF Units, a, i
<1>8. ASSUME NEW u \in S, NEW v \in S, byteOf[u] = byteOf[v] PROVE u = v
  <2> DEFINE a == u[1]
             i == u[2]
             b == v[1]
             j == v[2]
  <2>1. /\ a \in allocs /\ i \in 1 .. a.padded /\ b \in allocs /\ j \in 1 .. b.padded
        /\ u = <<a, i>> /\ v = <<b, j>>
    BY <1>6
  <2>2. a.block = b.block /\ a.offset + i = b.offset + j
    BY <1>8
  <2> HIDE DEF a, i, b, j
  <2>3. a.offset < AllocEnd(b) /\ b.offset < AllocEnd(a)
    BY <1>1, <2>1, <2>2 DEF AllocEnd
  <2>4. a = b
    BY <2>1, <2>2, <2>3, HeldApart
  <2>5. i = j
    BY <1>1, <2>1, <2>2, <2>4
  <2> QED BY <2>1, <2>4, <2>5
<1> HIDE DEF byteOf, S, T
<1>9. byteOf \in Injection(S, T)
  BY <1>7, <1>8, Fun_IsInj
<1>10. Cardinality(S) <= Cardinality(T)
  BY <1>5, <1>9, FS_Injection
<1> QED BY <1>4, <1>10

(* stats() is exact after any sequence of allocate(), free() and trim(), and     *)
(* what is in use is never more than what the driver has given.                 *)
THEOREM AllocationsAccounted == AllocSpec => []Accounted
<1>1. AllocInit => AccountInv
  BY AllocInvInit, CountedInit DEF AccountInv
<1>2. AccountInv => StatsExact
  <2> SUFFICES ASSUME AllocInv, Counted PROVE StatsExact
    BY DEF AccountInv
  <2>1. \A bi \in DOMAIN blocks : blocks[bi].live = Cardinality(AllocsOf(bi))
    BY DEF AllocInv
  <2>2. inUse <= reserved
    BY HeldWithinReserved DEF Counted
  <2> QED BY <2>1, <2>2 DEF StatsExact, Counted, PaddedOf, SizeOf, BlockSizes
<1>3. AllocSpec => []AccountInv
  BY <1>1, AccountInvStep, PTL DEF AllocSpec
<1>4. AllocSpec => []StatsExact
  BY <1>2, <1>3, PTL
<1>5. Partition /\ StatsExact <=> Accounted
  BY DEF Accounted
<1> QED BY <1>4, <1>5, BytesPartitioned, PTL
================================================================================
