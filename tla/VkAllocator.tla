----------------------------- MODULE VkAllocator -----------------------------
(***************************************************************************)
(* The suballocating device memory allocator (vk_allocator.cpp).           *)
(*                                                                         *)
(* Device memory comes from the driver in blocks; an allocation is a run   *)
(* of a block.  Each block keeps its free runs - a list sorted by offset   *)
(* in the code, the set of its elements here - and merges neighbours when  *)
(* an allocation is freed.                                                 *)
(***************************************************************************)
EXTENDS Integers, Sequences, FiniteSetsExt

CONSTANTS
  Requests,        \* sizes asked for, in bytes
  Alignment,       \* alignment_
  DefaultBlock,    \* default_block_size_
  MaxAllocation,   \* the driver's max_allocation_size
  HasMappedHeap,   \* the device has host-visible device-local memory
  MaxBlocks,       \* bound: blocks ever created
  MaxLive          \* bound: live allocations

ASSUME SizesAssumption ==
  /\ Requests \subseteq Nat
  /\ {Alignment, DefaultBlock, MaxAllocation} \subseteq Nat \ {0}
  /\ DefaultBlock <= MaxAllocation
ASSUME HeapAssumption == HasMappedHeap \in BOOLEAN
ASSUME AllocBoundAssumption == MaxBlocks \in Nat /\ MaxLive \in Nat

Kinds == {"DeviceLocal", "HostStaging", "DeviceLocalMapped"}

VARIABLES
  blocks,      \* blocks_: kind, size (0 once trimmed), free runs, live count
  allocs,      \* the Allocations handed out and not yet freed
  inUse,       \* in_use_: bytes handed out, padded
  requested,   \* requested_: bytes handed out, as asked for
  reserved     \* device memory the driver has given and not got back

avars == <<blocks, allocs, inUse, requested, reserved>>

AllocInit ==
  /\ blocks = <<>>
  /\ allocs = {}
  /\ inUse = 0 /\ requested = 0 /\ reserved = 0

-----------------------------------------------------------------------------
Larger(a, b) == IF a < b THEN b ELSE a

RoundUp(n) == ((n + Alignment - 1) \div Alignment) * Alignment

\* A zero-size request takes one aligned unit, for an address of its own.
Padded(size) == RoundUp(Larger(size, 1))

\* DeviceLocalMapped degrades to HostStaging where no heap can serve it.
EffectiveKind(kind) ==
  IF kind = "DeviceLocalMapped" /\ ~HasMappedHeap THEN "HostStaging" ELSE kind

\* First fit: the first block, and in it the lowest run, that is long enough.
Fits(kind, n) ==
  {bi \in DOMAIN blocks : blocks[bi].kind = kind /\ \E r \in blocks[bi].runs : r.size >= n}

LowestFit(runs, n) == CHOOSE r \in runs :
  r.size >= n /\ \A q \in runs : q.size >= n => r.offset <= q.offset

CarveKeepsHead(runs, r, n) == (runs \ {r}) \cup {[offset |-> r.offset, size |-> r.size - n]}

\* The first n bytes leave the run they are taken from.
Carve(runs, r, n) ==
  (runs \ {r}) \cup (IF r.size = n THEN {} ELSE {[offset |-> r.offset + n, size |-> r.size - n]})

\* insert_free_run(): merge forward, then backward.
InsertBackwardOnly(runs, offset, size) ==
  LET before == {r \in runs : r.offset + r.size = offset}
  IN  (runs \ before)
        \cup {IF before = {} THEN [offset |-> offset, size |-> size]
              ELSE LET p == CHOOSE p \in before : TRUE IN [offset |-> p.offset, size |-> p.size + size]}

InsertFreeRun(runs, offset, size) ==
  LET next == {r \in runs : r.offset = offset + size}
      prev == {r \in runs : r.offset + r.size = offset}
      start == IF prev = {} THEN offset ELSE (CHOOSE p \in prev : TRUE).offset
      end   == IF next = {} THEN offset + size
               ELSE LET n == CHOOSE n \in next : TRUE IN n.offset + n.size
  IN  (runs \ (next \cup prev)) \cup {[offset |-> start, size |-> end - start]}

HandOutUnpadded(bi, offset, size, kind) ==
  /\ allocs' = allocs \cup {[block |-> bi, offset |-> offset, size |-> size,
                             padded |-> Padded(size), kind |-> kind]}
  /\ inUse' = inUse + size
  /\ requested' = requested + size

\* The bookkeeping of one allocation of n bytes for a request of `size`.
HandOut(bi, offset, size, kind) ==
  /\ allocs' = allocs \cup {[block |-> bi, offset |-> offset, size |-> size,
                             padded |-> Padded(size), kind |-> kind]}
  /\ inUse' = inUse + Padded(size)
  /\ requested' = requested + size

-----------------------------------------------------------------------------
\* allocate(), from a block that has room.
AllocateFit(size, asked) ==
  LET kind == EffectiveKind(asked)
      n    == Padded(size)
  IN
  /\ Cardinality(allocs) < MaxLive
  /\ Fits(kind, n) # {}
  /\ LET bi == Min(Fits(kind, n))
         r  == LowestFit(blocks[bi].runs, n)
     IN  /\ blocks' = [blocks EXCEPT ![bi].runs = Carve(@, r, n), ![bi].live = @ + 1]
         /\ HandOut(bi, r.offset, size, kind)
  /\ UNCHANGED reserved

\* create_block()'s size for n bytes.
BlockSize(n) == Larger(n, DefaultBlock)

\* allocate(), from a new block.
AllocateNew(size, asked) ==
  LET kind == EffectiveKind(asked)
      n    == Padded(size)
  IN
  /\ Cardinality(allocs) < MaxLive
  /\ Fits(kind, n) = {}
  /\ BlockSize(n) <= MaxAllocation
  /\ Len(blocks) < MaxBlocks
  /\ blocks' = Append(blocks, [kind |-> kind, size |-> BlockSize(n), live |-> 1,
                               runs |-> Carve({[offset |-> 0, size |-> BlockSize(n)]},
                                              [offset |-> 0, size |-> BlockSize(n)], n)])
  /\ HandOut(Len(blocks) + 1, 0, size, kind)
  /\ reserved' = reserved + BlockSize(n)

\* free(): the run goes back to its block's list.
Free(a) ==
  /\ a \in allocs
  /\ blocks' = [blocks EXCEPT ![a.block].runs = InsertFreeRun(@, a.offset, a.padded),
                              ![a.block].live = @ - 1]
  /\ allocs' = allocs \ {a}
  /\ inUse' = inUse - a.padded
  /\ requested' = requested - a.size
  /\ UNCHANGED reserved

\* trim(): give the empty blocks back to the driver and leave holes in the list,
\* so that the block index of every Allocation stays valid.
TrimmedAlways(b) == b.size # 0
Trimmed(b) == b.live = 0 /\ b.size # 0

Trim ==
  /\ \E bi \in DOMAIN blocks : Trimmed(blocks[bi])
  /\ blocks' = [bi \in DOMAIN blocks |->
                  IF Trimmed(blocks[bi]) THEN [blocks[bi] EXCEPT !.runs = {}, !.size = 0]
                  ELSE blocks[bi]]
  /\ reserved' = reserved - SumFunctionOnSet([bi \in DOMAIN blocks |-> blocks[bi].size],
                                              {bi \in DOMAIN blocks : Trimmed(blocks[bi])})
  /\ UNCHANGED <<allocs, inUse, requested>>

AllocNext ==
  \/ \E size \in Requests, kind \in Kinds : AllocateFit(size, kind) \/ AllocateNew(size, kind)
  \/ \E a \in allocs : Free(a)
  \/ Trim

AllocSpec == AllocInit /\ [][AllocNext]_avars

-----------------------------------------------------------------------------

InRun(byte, r) == r.offset <= byte /\ byte < r.offset + r.size
InAlloc(byte, a) == a.offset <= byte /\ byte < a.offset + a.padded
AllocsOf(bi) == {a \in allocs : a.block = bi}

\* Every byte of every block is in exactly one live allocation or exactly one
\* free run: nothing is handed out twice, and nothing is lost, through any
\* sequence of allocate(), free() and trim().
Partition ==
  \A bi \in DOMAIN blocks :
    /\ \A byte \in 0 .. blocks[bi].size - 1 :
         Cardinality({r \in blocks[bi].runs : InRun(byte, r)})
           + Cardinality({a \in AllocsOf(bi) : InAlloc(byte, a)}) = 1
    /\ \A r \in blocks[bi].runs : r.offset + r.size <= blocks[bi].size
    /\ \A a \in AllocsOf(bi) : a.offset + a.padded <= blocks[bi].size

\* The counters stats() reports are the ones its caller would count, and the
\* driver has never given less than is in use (fragmentation() subtracts).
StatsExact ==
  /\ inUse = SumFunction([a \in allocs |-> a.padded])
  /\ requested = SumFunction([a \in allocs |-> a.size])
  /\ \A bi \in DOMAIN blocks : blocks[bi].live = Cardinality(AllocsOf(bi))
  /\ reserved = SumFunction([bi \in DOMAIN blocks |-> blocks[bi].size])
  /\ inUse <= reserved

\* The bytes and the counters of device memory agree with what was handed out,
\* through any sequence of allocate(), free() and trim(), coalescing included.
Accounted == Partition /\ StatsExact

\* A new block is asked from the driver only when no block of that kind has the
\* bytes, contiguous, unallocated ("every subsequent allocation of a different
\* size has to create a new block" is what the merging prevents).
HasRoom(bi, n) ==
  \E o \in 0 .. blocks[bi].size - n :
    \A a \in AllocsOf(bi) : a.offset + a.padded <= o \/ o + n <= a.offset

NewBlockOnlyIfFull ==
  [][Len(blocks') > Len(blocks) =>
       LET new == blocks'[Len(blocks')]
           n   == CHOOSE n \in {a.padded : a \in allocs' \ allocs} : TRUE
       IN  \A bi \in DOMAIN blocks : blocks[bi].kind = new.kind => ~HasRoom(bi, n)]_avars

\* The allocator implements the abstract pool of disjoint ranges.
Pool == INSTANCE RangePool WITH
  held <- {[block |-> a.block, offset |-> a.offset, padded |-> a.padded] : a \in allocs}

ImplementsPool == Pool!Spec
=============================================================================
