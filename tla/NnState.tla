-------------------------------- MODULE NnState --------------------------------
(* The state of python/vkml/nn.py that is not trained: the mode of each module, *)
(* BatchNorm2d's running statistics, the offsets of Dropout, and the gradient   *)
(* mode no_grad switches (python/vkml/__init__.py).  A model of one batch norm  *)
(* and one encoder layer's three dropouts runs forward passes; any of them may  *)
(* raise at any point, in or out of a no_grad block, and the caller may go on.  *)
EXTENDS Naturals, Sequences, FiniteSets

CONSTANTS
  Seed,         \* the encoder layer's seed
  Switched,     \* the modules the caller calls train() and eval() on
  MaxForward,   \* bound: forward passes
  MaxNesting    \* bound: no_grad blocks the caller has open
ASSUME SeedAssumption == Seed \in Nat

Drops == {"dropout1", "dropout2", "dropout"}
Modules == Drops \cup {"root", "bn"}
(* Children are visited in the order they were assigned. *)
Below(m) == IF m = "root" THEN Modules ELSE {m}

VARIABLES
  training,     \* [Modules -> BOOLEAN]
  mean, var,    \* the batches folded into running_mean and running_var
  halved,       \* updates of the statistics that failed between the two
  offset,       \* [Drops -> _offset]
  masks,        \* the masks drawn: <<seed, offset>> of each, in order
  gradOn,       \* is_grad_enabled()
  prevs,        \* the _prev of every open no_grad block, outermost first
  npc,          \* where the forward pass is, "out" between passes
  batch         \* the forward passes so far
nnVars == <<training, mean, var, halved, offset, masks, gradOn, prevs, npc, batch>>

NnInit ==
  /\ training = [m \in Modules |-> TRUE]
  /\ mean = <<>> /\ var = <<>> /\ halved = 0
  /\ offset = [d \in Drops |-> 0] /\ masks = <<>>
  /\ gradOn = TRUE /\ prevs = <<>>
  /\ npc = "out" /\ batch = 0

(* train(mode) and eval() reach every module below the one they are called on. *)
Train(m, mode) ==
  /\ npc = "out"
  /\ training' = [x \in Modules |-> IF x \in Below(m) THEN mode ELSE training[x]]
  /\ UNCHANGED <<mean, var, halved, offset, masks, gradOn, prevs, npc, batch>>

(* with no_grad(): each block is an instance of its own and restores what it    *)
(* found, also when an exception leaves it.                                     *)
Entered == gradOn' = FALSE /\ prevs' = Append(prevs, gradOn)
RestoredOn(prev) == TRUE
Restored(prev) == prev
Left(n) ==
  /\ gradOn' = Restored(prevs[Len(prevs) + 1 - n])
  /\ prevs' = SubSeq(prevs, 1, Len(prevs) - n)
EnterNoGrad ==
  /\ npc = "out" /\ Len(prevs) < MaxNesting /\ Entered
  /\ UNCHANGED <<training, mean, var, halved, offset, masks, npc, batch>>
ExitNoGrad ==
  /\ npc = "out" /\ prevs # <<>> /\ Left(1)
  /\ UNCHANGED <<training, mean, var, halved, offset, masks, npc, batch>>

Forward ==
  /\ npc = "out" /\ batch < MaxForward
  /\ batch' = batch + 1 /\ npc' = "bn"
  /\ UNCHANGED <<training, mean, var, halved, offset, masks, gradOn, prevs>>

(* BatchNorm2d.forward: the running statistics in evaluation, the batch's own   *)
(* in training - where _update_running_stats() folds them in, unless the batch  *)
(* has a single sample.                                                         *)
BatchNorm ==
  /\ npc = "bn"
  /\ \/ /\ training["bn"] /\ Entered /\ npc' = "mean"
     \/ /\ npc' = "dropout1" /\ UNCHANGED <<gradOn, prevs>>
  /\ UNCHANGED <<training, mean, var, halved, offset, masks, batch>>
(* Two assign_ calls, in this order. *)
FoldMean ==
  /\ npc = "mean" /\ mean' = Append(mean, batch) /\ npc' = "var"
  /\ UNCHANGED <<training, var, halved, offset, masks, gradOn, prevs, batch>>
FoldVar ==
  /\ npc = "var" /\ var' = Append(var, batch) /\ npc' = "dropout1"
  /\ Left(1)
  /\ UNCHANGED <<training, mean, halved, offset, masks, batch>>

(* Dropout.forward: the offset advances with every call in training. *)
SeedOfLayer(d) == Seed
SeedOf(d) == Seed + (CASE d = "dropout1" -> 1 [] d = "dropout2" -> 2 [] d = "dropout" -> 3)
NextOffset(d) == offset[d] + 1
After(d) == CASE d = "dropout1" -> "dropout" [] d = "dropout" -> "dropout2" [] d = "dropout2" -> "out"
Dropout(d) ==
  /\ npc = d /\ npc' = After(d)
  /\ IF training[d]
     THEN /\ offset' = [offset EXCEPT ![d] = NextOffset(d)]
          /\ masks' = Append(masks, <<SeedOf(d), offset[d]>>)
     ELSE UNCHANGED <<offset, masks>>
  /\ UNCHANGED <<training, mean, var, halved, gradOn, prevs, batch>>

(* Anything in a forward pass raises; a block that is open is left. *)
Raise ==
  /\ npc # "out" /\ npc' = "out"
  /\ halved' = IF npc = "var" THEN halved + 1 ELSE halved
  /\ IF npc \in {"mean", "var"} THEN Left(1) ELSE UNCHANGED <<gradOn, prevs>>
  /\ UNCHANGED <<training, mean, var, offset, masks, batch>>

NnNext ==
  \/ \E m \in Switched, mode \in BOOLEAN : Train(m, mode)
  \/ EnterNoGrad \/ ExitNoGrad \/ Forward \/ BatchNorm \/ FoldMean \/ FoldVar
  \/ (\E d \in Drops : Dropout(d)) \/ Raise
NnSpec == NnInit /\ [][NnNext]_nnVars

(* Between passes the two running statistics describe the same batches, but for *)
(* the updates that failed between their two assignments, and the gradient mode *)
(* is off exactly inside the caller's no_grad blocks - whatever raised where.   *)
StatsAndModeConsistent ==
  npc = "out" =>
    /\ Len(mean) = Len(var) + halved
    /\ \A i \in 1..Len(var) : \E j \in i..Len(mean) : mean[j] = var[i]
    /\ gradOn = (prevs = <<>>)

(* "a module that reused one offset would drop the SAME elements at every step";*)
(* "distinct seeds so they do not draw the same mask as each other": no two     *)
(* draws of a model's life use the same seed and offset, also after a pass that *)
(* raised half way, and a pass in evaluation mode draws and folds nothing.      *)
MasksFresh ==
  [][/\ masks' # masks => \A i \in 1..Len(masks) : masks[i] # masks'[Len(masks')]
     /\ npc \in Drops /\ ~training[npc] => UNCHANGED <<offset, masks>>
     /\ (mean' # mean \/ var' # var) => training["bn"] /\ ~gradOn]_nnVars
================================================================================
