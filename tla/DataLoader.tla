------------------------------ MODULE DataLoader ------------------------------
(* python/vkml/data.py: ArrayDataset, split(), DataLoader and its iterators,    *)
(* Compose, RandomHorizontalFlip and RandomCrop.  Two loaders iterate the two   *)
(* halves of one dataset; any number of iterators of each are open at once,     *)
(* advanced in any order and dropped at any point.  A random number is its      *)
(* place in its stream: which generator drew it, and as which draw.             *)
EXTENDS Naturals, Sequences, FiniteSets

CONSTANTS
  Samples,      \* the length of the dataset
  BatchSizes, Fractions, Seeds,    \* what callers pass; a fraction is in hundredths
  Iters,        \* bound: the iterators opened in a behaviour
  MaxEpoch      \* bound: the epochs

ASSUME DataAssumption ==
  /\ Samples \in Nat \ {0} /\ BatchSizes \subseteq Nat \ {0}
  /\ Fractions \subseteq 1..99 /\ Seeds \subseteq Nat /\ {Iters, MaxEpoch} \subseteq Nat

Loaders2 == {"train", "val"}

VARIABLES
  conf,         \* the arguments of split() and of both loaders
  epoch,        \* [Loaders2 -> _epoch]
  iters         \* the iterators, in the order they were opened
dlVars == <<conf, epoch, iters>>

(* numpy's permutation is a function of the seed alone. *)
Permutation(seed, n) == [i \in 1..n |-> 1 + ((i - 1 + seed) % n)]
Arange(n) == [i \in 1..n |-> i]

(* split(): shuffled, then cut at the rounded fraction (halves to even).        *)
Rounded(x) ==
  LET q == x \div 100  r == x % 100 IN
  IF r > 50 \/ (r = 50 /\ q % 2 = 1) THEN q + 1 ELSE q
Cut(c) == Rounded(Samples * c.fraction)
SplitAccepted(c) == Cut(c) # 0 /\ Cut(c) # Samples
DatasetOverlapping(c, l) ==
  LET order == Permutation(c.seed, Samples) IN
  IF l = "train" THEN SubSeq(order, 1, Cut(c) + 1) ELSE SubSeq(order, Cut(c) + 1, Samples)

Dataset(c, l) ==
  LET order == Permutation(c.seed, Samples) IN
  IF l = "train" THEN SubSeq(order, 1, Cut(c)) ELSE SubSeq(order, Cut(c) + 1, Samples)
(* len(loader): the batches one pass yields. *)
LoaderLen(c, l) ==
  LET n == Len(Dataset(c, l)) IN
  IF c.dropLast THEN n \div c.batch ELSE (n + c.batch - 1) \div c.batch

(* The orders of __iter__ and the first index past the last batch's start. *)
Order(c, l, e) ==
  LET n == Len(Dataset(c, l)) IN
  IF c.shuffle THEN Permutation(c.seed + e, n) ELSE Arange(n)
LimitOfAll(c, n) == n

Limit(c, n) == IF c.dropLast THEN (IF n < c.batch THEN 0 ELSE n - c.batch + 1) ELSE n
DlInit ==
  /\ conf \in {c \in [fraction : Fractions, batch : BatchSizes, seed : Seeds, shuffle : BOOLEAN,
                      dropLast : BOOLEAN, transforms : {<<>>, <<"crop", "flip">>}] :
                 SplitAccepted(c)}
  /\ epoch = [l \in Loaders2 |-> 0]
  /\ iters = <<>>

(* __iter__: order and generator are fixed, and the epoch advances, when iter() *)
(* is called - not when the first batch is pulled.                              *)
Iter(l) ==
  /\ Len(iters) < Iters /\ epoch[l] < MaxEpoch
  /\ iters' = Append(iters, [of |-> l, epoch |-> epoch[l], order |-> Order(conf, l, epoch[l]),
                             start |-> 0, drawn |-> 0, batches |-> <<>>, open |-> TRUE, whole |-> FALSE])
  /\ epoch' = [epoch EXCEPT ![l] = @ + 1]
  /\ UNCHANGED conf

SetEpoch(l, e) ==
  /\ e \in 0..(MaxEpoch - 1)
  /\ epoch' = [epoch EXCEPT ![l] = e]
  /\ UNCHANGED <<conf, iters>>

(* One transform: a flip draws one number for each image, a crop a row offset   *)
(* and a column offset for each.  Compose threads one generator through all.    *)
Draws(t, n) == IF t = "flip" THEN n ELSE 2 * n
DrawsBeforeEach(ts, k, n) == 0
DrawsBefore(ts, k, n) == IF k = 1 THEN 0 ELSE Draws(ts[1], n)
Decisions(ts, from, n) ==
  [k \in 1..Len(ts) |-> [i \in 1..n |->
     IF ts[k] = "flip" THEN {from + DrawsBefore(ts, k, n) + i}
     ELSE {from + DrawsBefore(ts, k, n) + i, from + DrawsBefore(ts, k, n) + n + i}]]
AllDraws(ts, n) ==
  CASE Len(ts) = 0 -> 0 [] Len(ts) = 1 -> Draws(ts[1], n) [] OTHER -> Draws(ts[1], n) + Draws(ts[2], n)

(* One generator kept on the loader: a slip used by a mutant. *)
StreamOfLoader(it) ==
  CHOOSE d \in 0..100 : \A j \in 1..Len(iters) :
    iters[j].of = iters[it].of => iters[j].drawn <= d /\ \E k \in 1..Len(iters) :
      iters[k].of = iters[it].of /\ iters[k].drawn = d
Stream(it) == iters[it].drawn

(* The next batch of _batches(), transformed on the host and then uploaded. *)
Batch(it) ==
  LET i == iters[it]
      n == Len(i.order)
      stop == IF i.start + conf.batch < n THEN i.start + conf.batch ELSE n
      picks == SubSeq(i.order, i.start + 1, stop)
      from == Stream(it)
  IN /\ i.open /\ i.start < Limit(conf, n)
     /\ iters' = [iters EXCEPT ![it].start = @ + conf.batch,
          ![it].drawn = from + AllDraws(conf.transforms, Len(picks)),
          ![it].batches = Append(@, [samples |-> [k \in 1..Len(picks) |-> Dataset(conf, i.of)[picks[k]]],
                                     decided |-> Decisions(conf.transforms, from, Len(picks))])]
     /\ UNCHANGED <<conf, epoch>>

(* The range is exhausted: the for loop of the caller ends. *)
Exhaust(it) ==
  /\ iters[it].open /\ iters[it].start >= Limit(conf, Len(iters[it].order))
  /\ iters' = [iters EXCEPT ![it].open = FALSE, ![it].whole = TRUE]
  /\ UNCHANGED <<conf, epoch>>
(* A transform or an upload raises, or the caller drops the iterator: it never  *)
(* yields again.                                                                *)
Abandon(it) ==
  /\ iters[it].open
  /\ iters' = [iters EXCEPT ![it].open = FALSE]
  /\ UNCHANGED <<conf, epoch>>

DlNext ==
  \/ \E l \in Loaders2 : Iter(l) \/ \E e \in 0..MaxEpoch : SetEpoch(l, e)
  \/ \E it \in 1..Len(iters) : Batch(it) \/ Exhaust(it) \/ Abandon(it)
DlSpec == DlInit /\ [][DlNext]_dlVars

Taken(it) == {x \in (1..Len(iters[it].batches)) \X (1..Samples) : x[2] <= Len(iters[it].batches[x[1]].samples)}
SampleAt(it, x) == iters[it].batches[x[1]].samples[x[2]]

(* However iterators interleave, one pass over a loader takes no sample twice;  *)
(* a pass that ended took every sample of its half (drop_last: all but a        *)
(* remainder smaller than a batch, in full batches) in len(loader) batches; and *)
(* no sample is ever seen by both halves of split().                            *)
EpochOnce ==
  /\ \A it \in 1..Len(iters) :
       /\ \A x, y \in Taken(it) : x # y => SampleAt(it, x) # SampleAt(it, y)
       /\ iters[it].whole =>
            LET n == Len(Dataset(conf, iters[it].of)) IN
            /\ Len(iters[it].batches) = LoaderLen(conf, iters[it].of)
            /\ IF conf.dropLast
               THEN /\ Cardinality(Taken(it)) + conf.batch > n
                    /\ \A b \in 1..Len(iters[it].batches) : Len(iters[it].batches[b].samples) = conf.batch
               ELSE Cardinality(Taken(it)) = n
  /\ \A i, j \in 1..Len(iters) : iters[i].of # iters[j].of =>
       \A x \in Taken(i), y \in Taken(j) : SampleAt(i, x) # SampleAt(j, y)

(* "REPRODUCIBLE BY CONSTRUCTION ... the whole run replays from the seed alone":*)
(* two iterators of one loader and one epoch yield the same batches with the    *)
(* same random decisions, whatever else was iterated, abandoned or pinned with  *)
(* set_epoch() in between - and within an iterator no two decisions share a     *)
(* random number.                                                               *)
Replays ==
  \A i, j \in 1..Len(iters) :
    /\ iters[i].of = iters[j].of /\ iters[i].epoch = iters[j].epoch =>
         \A b \in 1..Len(iters[i].batches) :
           b <= Len(iters[j].batches) => iters[i].batches[b] = iters[j].batches[b]
    /\ \A a, b \in 1..Len(iters[i].batches) :
         LET da == iters[i].batches[a].decided  db == iters[i].batches[b].decided IN
         \A k \in 1..Len(da), m \in 1..Len(db) : \A x \in DOMAIN da[k], y \in DOMAIN db[m] :
           <<a, k, x>> # <<b, m, y>> => da[k][x] \cap db[m][y] = {}
================================================================================
