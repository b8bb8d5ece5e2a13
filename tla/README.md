# A TLA+ model of vkML

vkML is a tensor library: Python on top of a C++ core that builds a lazy graph, evaluates it
on the CPU or on a Vulkan GPU, differentiates it and trains with it - with the examples,
benchmarks, gates and the documentation site that are kept beside it. This directory holds
TLA+ specifications translated from that code, the TLC configurations that check them, and
TLAPS proofs about them.

Paths below are relative to the repository's root. `PROJECT.json` gives, for every definition
that models code, the lines it translates, and lists the hazards with the properties that
would catch each.

## 1. Inventory

### The core

| component | state it keeps | operations | interacts with |
|---|---|---|---|
| command recorder (`src/backend/vulkan/vk_command.*`) | ring of command buffers with the timeline value of each one's last submission; the open recording; submission count | begin, dispatch, barrier, copy, submit, abort, wait, completed_value | the GPU queue: submissions, one timeline semaphore |
| profiler (`vk_command.*`) | timestamps a slot still has to give, a bounded history | set_profiling, resolve, profile_history | recorder |
| staging buffer (`vk_command.*`) | one host-visible range, the ticket of its last use | upload, download, in chunks | recorder |
| Vulkan backend (`vulkan_backend.cpp`) | live allocations, retirement list, split-K workspace | compute, the copies, synchronize, stats, trim, the deleter of every `Storage` | recorder, staging buffer, allocator; called by the executor and by tensors that die |
| device allocator (`vk_allocator.*`) | blocks of device memory with sorted free runs, counters | allocate, free, trim, stats | the driver |
| lazy graph (`src/graph`, `src/api`) | nodes: sources, view anchor and offset, storage binding, the computed flag | operator and view constructors, contiguous, detach | executor, autograd |
| executor (`src/dispatch/executor.cpp`), `topological_order()` | none of their own; realize binds and flags nodes | realize | backends |
| assign (`src/api/tensor.cpp`) | none of its own; it overwrites storage | assign, assign_ | executor, backends, optimizers |
| autograd (`src/autograd`, `src/graph/grad_mode.cpp`) | gradients of leaves, the mode | backward, set_requires_grad, set_grad, no_grad | graph, executor |
| registry and devices (`src/backend/api`, `__init__.py`) | registered backends | init_vulkan, best_device | the driver |
| observation, decisions (`src/util`) | subscriber, window of decisions | publish, start and stop recording | attribution |

### The Python library

| component | state it keeps | operations |
|---|---|---|
| modules (`nn.py`) | parameters, buffers, mode, dropout offsets, running statistics | forward, train, eval, to, load_state_dict |
| optimizers (`optim.py`) | captured parameters, moments, step count | zero_grad, step (three batched passes) |
| data loader (`data.py`) | epoch counter; per iterator order, position, generator | split, iter, set_epoch, transforms |
| checkpoints (`serialize.py`) | the file at the path, one temporary file per process | save, load |
| attribution (`attribution.py`) | the window of a capture | enter, exit, report |

### Around the library

Training scripts, dataset caches and the MNIST window (`examples/`); the benchmarks (`bench/`);
the scripts that damage the tree to see whether something notices (`mutation_check`,
`verify_gates`, `check_cpu_only_build`, `asan_python`); the coverage ratchet; the gates and the
workflows that run them; the generator of the documentation site and its source scanners
(`web/`). They meet through files: the working tree, the built extension, the site, weights,
summaries, baselines.

Calls from Python never overlap: the bindings do not release the GIL. What is concurrent is
the GPU - `compute()`, an upload and a device copy return before their work has run (ADR 0012),
and everything that follows, the next call, the death of a tensor, the reuse of its memory,
happens while it runs - and processes that share files.

### What is hard here, and what makes each part correct

* **Asynchronous submission.** Command buffers are reused in a ring; the host may be several
  submissions ahead. A missing barrier cannot be observed on the development machine (ADR
  0012, section 4b bis). Correct: no buffer recorded while it executes, no two conflicting
  commands unordered, timestamps of a submission attributed to it and no other.
* **Memory that dies while in use.** A range is stamped with a submission count when its tensor
  dies. Correct: one owner per range, never handed out while pending work accesses it; every
  byte of a block in one allocation or one free run; a block asked for only when none has room.
* **Laziness and aliasing.** Views share storage, assignments overwrite what unevaluated graphs
  read; what was bound is not what was computed (ADR 0007). Correct: a flagged node holds its
  value, a result once computed is kept, an assignment delivers what its source was.
* **Failures half way.** A kernel that throws while recording, a wait that times out, a realize
  that stops between binding and computing, an optimizer step that fails between two of its
  passes, an exception inside `no_grad`, a forward pass between two folds of the statistics.
  Correct: state and parameters move together or not at all, modes are restored.
* **Crashes and several processes.** A save, a download or a build that is killed anywhere.
  Correct: the previous file survives whole, nobody takes a part for the whole.
* **Long legal sequences.** Iterators open at once or abandoned, retried steps, modules moved
  under an optimizer, pictures shown between strokes. Correct: each epoch once, replays from
  the seed, panes that describe one picture.
* **Guards that guard nothing.** Gates, ratchets and benchmarks that are green for the wrong
  reason. Correct: green means that the checked condition holds.

## 2. The specifications

| module | models |
|---|---|
| `Recorder` | the recorder's ring and the GPU queue |
| `VkBackend` (extends `Recorder`) | the backend's calls, staging memory, retirement, split-K workspace |
| `RangePool` | what an allocator promises, abstractly |
| `VkAllocator` (implements `RangePool`) | blocks, free runs, first fit, merging, trim |
| `TopologicalOrder` | the iterative depth-first search, one loop turn per step |
| `LazyGraph` | nodes, views, realize, assign, detach, and their failures |
| `Autograd` | the order, the reverse sweep and the deposit of `backward()` |
| `Optimizer` | SGD, RMSProp, Adam, AdamW and their variants over what `backward()` leaves |
| `NnState` | modes, running statistics, dropout offsets, `no_grad` |
| `Layers` | which inputs each output of a layer depends on, for every layer class |
| `DataLoader`, `Checkpoint`, `DatasetCache` | `data.py`, `serialize.py`, the examples' downloads |
| `Devices` | `--device`, `best_device()`, `init_vulkan` and the registry |
| `Training` | both examples' `train.py`, with the PyTorch twin |
| `Capture` | the profiler of the recorder and the attribution built on it |
| `Viewer` | the window of `examples/mnist/gui.py` |
| `BuildTree` | the four scripts that damage and restore the working tree |
| `Site`, `Extract` | what a build of the site writes, the gates on it, the scanners it reads with |
| `OpCoverage`, `Bench`, `Gates` | the coverage ratchet, the benchmarks, the gates and workflows |
| `VkBackendProofs`, `VkAllocatorProofs`, `TopologicalOrderProofs`, `LazyProofs`, `AutogradProofs`, `LibraryProofs`, `CaptureProofs`, `ProgramProofs` | theorems |
| `MC...` | instances for TLC |

`MCLibrary` and `MCTools` each put components that share no state into one run: `active` names
the one that runs and the others stay in one of their initial states (`Pinned`), so the
reachable states are the sum of the components', not their product. `MCLazyGraph` puts two
instances of one module into a run: `bounds` tells which of the two a behaviour is of.

Several modules hold, next to an operator, a wrong variant of it (`SlotNotAwaited` next to
`SlotFree`, `TrimmedAlways` next to `Trimmed`): the mistake a change to that code could make.
Nothing of a specification uses them. Substituting one for its neighbour breaks the property
`PROJECT.json` pairs it with ("mutants").

### Recorder and VkBackend

State of the recorder: `slotValue` (`Slot::value`), `current` (`current_`), `phase`
(`recording_`, and the wait inside `begin()`), `outstanding` (the local `anything_outstanding`,
taken before the wait and used after it), `timeline` (`timeline_value_`), and the GPU:
`completed` (the semaphore), `inflight`, `tail` (accesses no barrier follows). `begin()` is two
actions, `Begin` and `BeginReady`, because the GPU runs during its wait; `BeginTimeout` is the
30-second timeout. `completed_value()` returns 0 when the driver's query fails, so `Poll` is 0
or the counter. A command is the set of accesses it makes; `races` collects the ranges on which
a command conflicted with one nothing orders before it. Accesses by range are coarser than by
byte: the partitions of a split-K matmul, which write disjoint slices of the workspace, are one
command. `Disciplined` is the recorder's contract: within a recording, callers put a barrier
between conflicting commands; between recordings the recorder's own leading barrier must do.

A call of the backend is a `job` with a `step`; its actions follow the code's order, and any GPU
step can come between two of them. `pins` are the storages the caller holds references to,
which cannot die during the call. Device memory is a pool of ranges: `live`, `retiring`, the
workspace `ws`, or free - computed, not stored, so handing memory out is choosing from
`FreeRanges`. `compute()` is: begin; per node a dispatch, or the two halves of a split-K matmul
around their barrier, and a barrier; submit. It can throw anywhere (`ComputeThrows`, the scope
guard). Uploads and downloads run chunk by chunk with the staging ticket. Two constants switch
faults on: `WaitsMayTimeOut` (a GPU slower than 30 seconds) and `EndMayFail`
(`vkEndCommandBuffer` failing). `vkQueueSubmit2` may always fail.

### VkAllocator and RangePool

One action per outcome of each operation: `AllocateFit`, `AllocateNew`, `Free`, `Trim`. Free runs
are a set rather than a sorted vector; the lowest run that fits is the first of the sorted
list. A request the device refuses leaves the allocator alone and has no action. The mapping to
`RangePool` forgets everything but the ranges handed out.

### TopologicalOrder, LazyGraph, Autograd

`TopologicalOrder` runs the stack, the done set and the order of `topological_order()` over every
acyclic graph of the instance, every closed set of computed nodes and every list of roots.

In `LazyGraph`, `heap` is the graph. Tensors have one axis of up to three elements: enough for
slices with offset and stride, broadcasts with stride 0, views of views, overlapping and
disjoint pieces. An element is the sequence of operations and data that produced it, so two
elements are equal exactly when they were made the same way from the same data. `realize`,
`assign` and `detach` are single actions: a host read waits for all submitted work, and that the
GPU executes what is recorded in an order equivalent to the program's is what `VkBackend`
shows. A call that throws leaves every intermediate state it can (`FailedRealizes`,
`DeviceFailed`). An `assign()` copies the pairs that overlap in their own storage through the
host, in order, then the rest in one batch: on Vulkan in any order.

In `Autograd` an operation has two sources with the partial derivatives 1 and 2, over every
graph of the instance; `backward()` is the order, the sweep (a fold of `ApplyBackward`) and the
deposit. `requires` may change between building and differentiating, and the call may raise
before the deposit. The property compares with a derivative computed the other way round.

### The Python library

* `Optimizer` - a parameter's value is the list of updates applied to it and a moment the list
  of gradients folded into it, so "the state is what the updates say" is a statement about
  lists. `step()` is four actions, one for each point where it can fail. `to()` and
  `load_state_dict()` replace the module's tensors and not the optimizer's.
* `NnState` - a model of one batch norm and the three dropouts of an encoder layer; the two folds
  of the running statistics are two actions, and anything may raise between any two.
* `Layers` - an element of a tensor is the set of input elements it depends on; a network of
  layers runs one layer per step. `OwnInputsOnly` says that an output depends on exactly the
  inputs it should: its own sample, for attention its own and earlier positions under the mask.
* `DataLoader` - a random number is its place in its stream, so that two decisions that share one
  are told apart. `Checkpoint` - a save is Open, WriteMember..., Close, Replace, Return, each
  interruptible (the `except` runs) or killed (it does not). `DatasetCache` - the same with
  mirrors and several downloading processes.
* `Capture` - `ring`, `pending`, `resolved` are the profiler's side of the recorder; `capture()` is
  entered and left at any moment, its exit may raise. Sums of costs are computed over every
  small set of intervals. Its submissions are its own: it is not composed with `Recorder`.

### Around the library

* `Training` - an epoch is its batches; vkml's and PyTorch's models are the lists of updates they
  have had. The run may be abandoned anywhere, and run again over the files it left.
* `Viewer` - one action per callback; showing a picture is two steps, because the picture is
  painted before the model runs, and the model may raise.
* `BuildTree` - a tree, an extension and a site are the sets of defects in them, so "the verdict
  is about the code that ran" is a statement about sets. Killed scripts leave what they leave.
* `Site` - a page is its headings with ids, links and blocks; `Written(p)` is what `build()` writes:
  the overview with its contents rail (`Rail`), categories, classes, guide pages, among them the one
  with the table of environment switches (`EnvTable`), and capability pages. `SearchIndex` is the
  index in every page, switches included.
* `Extract` - the scanners as folds over classified lines. A class has wrapped declarations, inline
  bodies and statements in them; `parse_classes()` joins the first, sets the line to the last one
  joined, and scans the others as if they were members, which the model does too.
* `Gates` - each gate as a predicate of a tree with one value per facet; developers edit facets
  and push.
* `OpCoverage` - what the suite exercised, recorded, accepted and compared. `Bench` - an
  asynchronous queue, timestamps read when something waits, a baseline with a noise floor.

## 3. Runs

All passing runs finish; none stops on a bound it does not name.

| run | bounds | shows |
|---|---|---|
| `backend` | ring of 2, 3 pool ranges and the staging range, 3 submissions, 2 nodes per graph, 2 chunks, timeouts, one workspace size | `TypeOK`, `NoFreeInUse`, `NoReuseInUse`, `OneOwner`, `RecorderReleased`, `NoBufferReuse`, `NoRaces` |
| `backend_calls` | 2 submissions, two workspace sizes, failing `vkEndCommandBuffer`, no timeouts, fairness | `StagingSafe`, `ImplementsRecorder`, `CallsReturn` |
| `lazy` | two instances, both with length 3 and failures: 4 nodes and 1 leaf on the CPU; 3 nodes, 3 leaves and 1 assign of up to 2 pairs on Vulkan | `FlaggedHoldsValue`, `ResultsKept`, `AssignDelivers` |
| `library` | below | the fifteen properties of the allocator, autograd and the Python library |
| `tools` | below | the twelve properties of the search, the profiler and the programs around the library |
| `backend_workspace` | 4 pool ranges, two workspace sizes | violates `NoFreeInUse` |
| `backend_timeout` | timeouts | violates `StagingSafe` |
| `backend_wedged` | failing `vkEndCommandBuffer` | violates `RecorderReleased` |
| `lazy_loop` | 2 leaves of length 1, batch of 2 | violates `AssignIsLoop` |
| `site_links` | 2 builds, 2 edits | violates `EveryLinkResolves` |
| `survivors` | 4 mutations, 4 controls, 1 script | violates `SurvivorsReachedTheTests` |
| `bench_times` | ring of 2, 1 warm-up, 2 repetitions, 2 runs | violates `EveryTimeIsItsOwn` |

`library`: `Accounted`, `NewBlockOnlyIfFull`, `ImplementsPool` (alignment 2, blocks of 8, requests
0, 3, 11, limit 12, 2 blocks, 5 live); `GradientsComplete` (2 leaves, 3 operations, 2 calls);
`StateFollowsUpdates`, `StepAllOrNothing` (2 parameters, 4 rules, 2 backward passes, 2 steps, 1
move); `StatsAndModeConsistent`, `MasksFresh` (3 forward passes, nesting 2); `OwnInputsOnly`
(batch 2, 3 positions, width 4, 2 heads, images of side 4); `EpochOnce`, `Replays` (5 samples,
batches of 2 and 3, two fractions, 2 iterators, 2 epochs); `DestinationWhole`, `PartialOwned` (2
processes, 2 saves, 1 key); `DatasetsWhole` (2 processes, 2 mirrors, 2 calls);
`NeverDowngraded` (2 devices, 2 calls). About 875 000 states.

`tools`: `SourcesFirst`, `ExactlyNeeded`, `SearchEnds` (4 nodes, 2 sources, 2 roots); `RunHonest` (2
batches, 0 to 2 epochs, 2 runs); `CaptureHonest` (2 slots, histories of 1 and 3, 3 recordings, 2
captures, 2 ticks); `PanesDescribeCanvas` (2 images, canvas of 5 pixels, radius 1, 5 events);
`ScriptsHonest` (4 mutations, 4 controls, 2 scripts); `SiteWhole` (2 builds, 2 edits);
`NothingLost` (3 edits, 2 sessions); `AlarmMeansChange` (ring 2, 1 warm-up, 2 repetitions, 2
runs); `ScannersExact` (4 lines); `GreenMeansHeld` (2 edits). About 455 000 states.

**Why the bounds are enough.** With a ring of two and three submissions every slot is reused
while its last submission may be running, and one can be skipped by an abandoned recording.
Three pool ranges are a source, a destination and a workspace, with reuse forced; they are
interchangeable, so symmetry is used in the safety runs (never with fairness). Two chunks are
the first use of the staging memory and a reuse of it. Five allocations in two blocks reach
every merge and the block larger than the default; 11 bytes round to 12, past the default.
Four nodes are the smallest graph with a diamond below a root; in `Autograd` two leaves and
three operations give a leaf three paths. Two of everything that is shared - processes,
iterators, captures, runs over old files - is the first number at which one can disturb the
other, and two steps let a failed one be retried. Five samples with batches of 2 and 3 have
remainders in both halves of every split. The four rules are those with no state, with one
slot, with two, and with a step count; the proof covers all eight. Four lines hold a comment, a
gap and a wrapped declaration, or a label, a member with a body, and a statement in it; two edits
are a defect and the change that hides it.

**What the properties let pass.** Some describe what the code does rather than what one might
wish. `ResultsKept` lets a batch of copies that fails half way leave the copies it got to:
nothing says what `assign()` leaves after a device error. `StateFollowsUpdates` counts the updates
whose assignment failed as `lost`: the moments are then ahead of the parameters, by those and
nothing else. `CaptureHonest` counts work already in flight when a block is entered among what its
report may hold, and of an exit that raised it requires only that later captures are right. In
`VkAllocator` the creation of a block succeeds or fails as a whole, so the memory of a block whose
binding or mapping fails is outside the model. `SiteWhole` asks for unique ids on guide and
capability pages, where the build makes them up, and makes two exceptions, the contents rail of
the overview and the search results of the switches; `EveryLinkResolves`, which makes none, is
violated (`site_links`). `ScannersExact` lists the statements the class scanner takes for members.

**Deadlock** is not checked: the bounded submissions, steps and edits make every instance stop,
and a program may simply stop making calls.

**Fairness.** `VkBackend!Spec` assumes weak fairness of the GPU (a driver that makes progress) and
of the steps of a call in progress (the host's thread runs). It never assumes that a new call
is made or a tensor dropped. `ToolsSpec` assumes that the loop of `topological_order()` keeps
running: it is one function with nothing to wait for. Only `CallsReturn` and `SearchEnds` depend
on these.

### What the violations say

* `backend_workspace` - a graph holds two split-K matmuls, the second needing the larger
  workspace. `splitk_workspace()` retires the first one stamped with the submissions made so far;
  the recording that uses it is not one of them, so the range is free at once. The comment of
  `retire_later()` ("anything that could reference this memory was submitted at or before now")
  is not true of a recording. `NoRaces` still holds in `backend_calls`, whose two sizes allow the
  same history: as long as everything runs on one queue, the recorder's barriers order the old
  use before any new one. Memory given back to the driver by `trim()`, or written by the host,
  would have no such protection.
* `backend_timeout` - after a download's wait times out, its copy into the staging memory is
  still queued and the ticket does not cover it; an upload right after it overwrites the memory.
* `backend_wedged` - `submit()` throws at `vkEndCommandBuffer` before it clears `recording_`;
  transfers have no scope guard, and every later call fails in `begin()`.
* `lazy_loop` - `assign()` of a batch is not `assign_()` in a loop when pairs touch each other, e.g.
  a swap: only each pair's own two operands are tested for overlap.
* `site_links` - three kinds of links lead nowhere on a site that every gate passes. The contents
  rail of `api.html` has an entry for every category (`build.py:1584`), but the only headings of
  that page are titles of cards, without ids (1556-1562). The search results of the environment
  switches lead to anchors (1550-1552) that the table of switches does not have
  (`content/reference_env.py:85-101`). Every name in an operator's `see` list becomes a link within
  the page (736), also when it is documented on another. The link gate, whose first line says that
  every internal link and anchor must resolve, does not follow links that start with `#`
  (`check_docs_links.py:61`) and does not read the search index.
* `survivors` - `mutation_check` compares the extension a mutation was built into with what the
  mutation before it left there, because a mutation is taken out of the source and not out of the
  extension. So after a compiled mutation, the next one seems to be in the extension also when its
  build did not take it in (the extension changed, back to the original), and when no test fails it
  is reported as a survivor, which is what the fingerprint was put there to prevent.
* `bench_times` - a case whose function only realizes reads the profile of an earlier submission:
  nothing has waited for its own.

### Seen on the way, with no run of their own

In the core: the comment on the realize in `backward()` (`autograd.cpp:624-626`, and ADR 0006)
says that it cuts the graph and does not keep a step's forward alive, but realizing only sets
the computed flag and nothing drops a node's sources, so a gradient keeps the nodes its rule
read until it is dropped itself. Leaves that meet in one addition share one gradient node.
`vk_command.cpp:237` says `begin()` blocks only when the GPU is a ring of submissions behind;
abandoned recordings use up slots too. `vk_command.h:372` calls `upload()` blocking; only its
beginning is. `vk_allocator.cpp:239`: when binding or mapping a new block fails, its memory is
not given back. `--device cpu:0` initialises Vulkan and then answers CPU.

In the library: an optimizer made before `to()` or `load_state_dict()` goes on training tensors the
model no longer holds; Adam's step count also counts steps in which a parameter had no
gradient; two dropouts given the same seed, or encoder layers with seeds less than three apart,
draw equal masks; dropout offsets are not in a state dict; re-assigning a buffer's name goes
past `Module.__setattr__`; `capture()` waits for nothing when it is entered, and an exit that
raises leaves profiling on.

Around it: `attribute_steps` raises `StopIteration` on a dataset that is too small; `--epochs 0`
fails after the weights are written; two downloads at once share one `.part` file; a stroke near
the border stamps through a negative slice; the mutation campaign tests Python mutations against
the extension of the last compiled one, and skips its final rebuild when interrupted; `check_cpu_only_build` unlinks the
originals before its `try`; a killed `asan_python` that is run again overwrites the saved
extension; `verify_gates` ignores whether the site was built; several gates pass when what they
look at is absent (`check_versions`, `check_precise_gemm`, `docs_graph --check`,
`check_docs_examples`); a gap closed and not recorded may open again unnoticed;
`parse_header` takes the last line of a wrapped declaration with a default for a declaration;
`parse_classes` takes a statement of an inline body such as `return value;` for a field of that
name, against its comment that a member "is not a statement" (`research.py:637`); a class page
whose group and member have one name has one id twice (`build.py:791` and `799`).

## 4. Proofs

For every value of the constants the named assumptions allow - any ring of at least one slot,
any set of ranges, any sizes, counts and bounds, faults on or off. Eight modules, each proving
an inductive invariant (initially, kept by each action, implies the property) that the runs'
properties alone are not:

* `VkBackendProofs` - of `Recorder`: `CommandBuffersSafe` (`NoBufferReuse`), `SubmissionsOrdered`
  (`NoRaces`). The invariant `RecIInv` adds that every unfinished submission is the last one of its
  slot (`RingCovers`), that the slot being recorded has none (`SlotIdle`), and that a recording
  without a leading barrier started when everything submitted had completed (`Quiescent`). Of
  `VkBackend`: `CallInv` says where a call may be, and that wherever it records a command no
  earlier command of the recording awaits a barrier (`Fresh`). So every step of the backend is a
  step of the recorder (`BackendImplementsRecorder`), and the recorder's theorems hold of the
  backend with no further proof (`BackendRaceFree`). `MemInv` gives `OwnersDisjoint`.
  `InUseNeverFree` and `InUseNeverReused` hold under `OneWorkspaceSize`, that all split-K matmuls
  need the same workspace; `UseInv` says that each access of an unfinished submission is to a
  range that is live, the workspace, or retired with a stamp that covers it. Without the
  hypothesis the statement is false: `backend_workspace`. Of the faults: `CallsReleaseRecorder`
  (`RecorderReleased`) under `~EndMayFail`, since a transfer that waits has no recording open, and
  `StagingNeverShared` (`StagingSafe`) under `~WaitsMayTimeOut`, since every unfinished submission
  that touches the staging memory is covered by the ticket or by the download under way.
  `backend_wedged` and `backend_timeout` show that neither hypothesis can be left out.
* `VkAllocatorProofs` - `AllocInv`: every block is `Tiled` - its free runs and allocations are
  disjoint, inside it and cover it, and no two free runs touch - and its live count is right.
  From it `BytesPartitioned` (the first half of `Accounted`), `AllocatorImplementsPool`, and
  `NewBlocksOnlyWhenFull`: bytes in a row that no allocation touches are in one run, because two
  runs that shared them would have been merged. `AllocationsAccounted` is all of `Accounted`:
  `AccountInv` adds that each counter is the sum it stands for, and a sum over a finite set is
  the number of elements of the disjoint union of its terms, so that taking one term away is a
  matter of cardinality and that the bytes held fit the bytes reserved is an injection, by
  tiling, of the ones into the others.
* `TopologicalOrderProofs` - `OrderIsTopological` (`SourcesFirst`) and `NoFrameIsDone`, the code's
  branch for a frame whose node is done. `TopoInv`: the stack descends along sources
  (`StackDescends`), no node on it is done, and the sources a frame has passed are done
  (`SourcesBehind`). That the graph is acyclic by creation order is `GraphOK`.
  `OrderIsWhatIsNeeded` (`ExactlyNeeded`): what the roots need is the least set that holds them and
  is closed under the sources of nodes without a value; every frame is in it (`FramesNeeded`),
  every root asked for is listed, waiting or at the bottom of the stack (`RootsKept`), and what is
  listed is closed (`NothingMissed`).
* `LibraryProofs` - of `Optimizer`: `StateAndUpdatesAgree` (`StateFollowsUpdates`), `StepsAreWhole`
  (`StepAllOrNothing`), for all eight rules. `OptInv`: what has been built, stored and counted at
  each phase of a step (`BuiltNotStored`, `StoredLast`, `FoldsCounted`, `CountCovers`), with the
  captured parameters distinct. Of `NnState`: `StatisticsAndModeKept` (`StatsAndModeConsistent`),
  `MasksNeverRepeat` (`MasksFresh`). `NnInv`: open `no_grad` blocks are nested, each but the outermost
  having found the mode off; the mean is ahead of the variance by the failed updates and the one
  under way; a drawn mask is behind the offset of its dropout.
  Of `Checkpoint`: `CheckpointsWhole` (`DestinationWhole`) and `PartialsOwned`
  (`PartialOwned`). `CkInv`: a process at each of its places has written what that place implies
  (`Progress`) into a file of its own, and what is at the path is one of the archives a save closed
  (`DestKnown`). Of `DatasetCache`: `DatasetsAreWhole` (`DatasetsWhole`); `DcInv` says that as long as
  no two downloads met, at most one process is past the cache lookup (`Alone`), the partial file
  is its own (`PartIsOwn`), and what is cached is nothing or whole. Of `DataLoader`:
  `BatchesDetermined`, `EpochsTakeOnce` (`EpochOnce`) and `RunsReplay` (`Replays`). `DlInv` gives each
  iterator's position and each stream's count as a function of loader, epoch and batch number;
  batches of one pass then take disjoint intervals of one permutation, and the draws of one pass
  are disjoint intervals of one stream.
* `CaptureProofs` - `CapturesAreHonest` (`CaptureHonest`), of its two halves. `CapturesAreExact`: `CapInv`
  says that a slot to be read back has timestamps of one submission no other slot has
  (`SlotsTell`), and that as long as a window is open, what it has gathered and what is still in the
  ring are together what was in flight when it opened and every dispatch since, the gathered all
  before the others (`WindowCovers`, `Gathered`). The history is the last of what was gathered, and
  appending to it and cutting it again loses nothing a longer list would keep (`LastOfJoin`); at the
  end of a block the GPU is done, so the ring has nothing left. `SharesAlwaysAddUp`: `union_ms()` holds
  one interval and the length of what lies before it (`Fits`), so what it returns is the number
  of ticks covered; `occupancy_share()` has live, between two events, the intervals that run
  there (`RunningIsLive`), and has shared out the busy ticks up to the last event (`SweptTo`). That
  something sorted lists a set is stated by rank (`Lists`): a set has such a list and no other
  (`ListExists`, `InOrderIs`), and the sort keys are numbers whose first digit is the time
  (`DigitsOrder`). The clock is any; a report has up to three intervals, as in the run, so that
  shares stay whole numbers of sixths of a tick.
* `LazyProofs` - `HeapsAreSound`, `ResultsAreKept` (`ResultsKept`) and `FlagsAreEarned`
  (`FlaggedHoldsValue`), for graphs, views and batches of any size, on either backend, with every
  failure. `LazyInv` is `Built` (sources are older; a view's
  elements are elements of its base and of the root that owns the memory) and `Stored` (a bound
  view is where its root is; a kernel's node is in its own memory; what is computed is in memory
  of what is computed, and so are its sources; no cell is out of bounds). The order that
  `topological_order()` returns is `Sound`: it lists no computed node and none twice, and each
  after its sources (`OrderSound`: the search's steps are a relation, and a least counterexample
  among the nodes cannot be). So roots are bound before their views (`RootsFirst`), kernels write
  memory that no result is in (`ComputeAllWrites`, `Anchored`), and a copy writes no cell but those
  of its destination (`CopyOverwrites`, where the destination's being contiguous is needed). For the
  values: a kernel of the order writes only memory of later nodes, so what was read before it
  stays (`BehindElsewhere`, `ComputeAllReads`), and a view reads the elements of its base
  (`ViewReads`). So the heap a call leaves solves the equations of the graph (`Solves`,
  `RealizedSolves`); the recursion of `ValueNow` has a solution, which evaluating everything
  exhibits (`ValuesSolve`), and only one, by a least node where two would differ (`SolvedValues`).
  `AssignsDeliver` (`AssignDelivers`): what assign() realizes before it copies solves the equations
  of the heap before the call (`ReadyValues`), also of a source it flattens, which is then in memory
  of its own (`ReadySources`); each pair is among the staged or in the batch, once (`SortedPairs`),
  whatever the order of the batch (`OrdersEnumerate`). `Partly` says that the destinations copied to
  so far hold what their sources were and the others are untouched; a copy keeps it because pairs
  that do not touch share no cell (`PairCopied`, `StepsDeliver`). A staged copy is exact whatever
  overlaps; a batch copy writes what a staged one would as its two regions are apart (`ApartIsApart`).
* `AutogradProofs` - `BackwardIsComplete` (`GradientsComplete`), for any acyclic graph, any choice of
  leaves and calls of `backward()` one after another. The order the sweep follows is the search of
  `LazyGraph` on a heap that stands for the graph (`SameSearch`), so its lemmas give `OrderForSweep`:
  every node below the root, once, after what uses it. The sweep keeps a sum (`SweepInv`): over all
  nodes, the gradient that has arrived and is not passed on times the node's derivative is the
  derivative of the root. Retiring a node moves its term to its sources, which have not been
  retired because of the order; at the end only leaves have one. Sums over a set of nodes are taken
  without recursion, as the value of the one function that adds one node at a time (`Total`).
* `ProgramProofs` - the programs around the library. `TrainingHonest` (`RunHonest`): `TrInv` counts
  the loop variables against each other and says what has been accumulated, evaluated and saved
  at each place of the script. `ViewerHonest` (`PanesDescribeCanvas`). `ScriptsUndo` (`ScriptsHonest`):
  `BtInv` says, for each script and phase, what is damaged and where the undamaged version is kept
  (`SourcesInv`, `MutateInv`, `ExtsInv`, `SiteInv`), and that a gate that failed on the damage sees it
  or fails on anything (`GatesInv`). `RatchetHolds` (`NothingLost`): what was exercised when the
  baseline was accepted is not among its gaps (`BaselineInv`), so a session that misses it reports
  it. `DevicesHonest` (`NeverDowngraded`), by the branches of `resolve_device()`; the device that
  `best_device()` picks is one of highest rank. `BenchHonest`
  (`AlarmMeansChange`): `BeInv` says that a case reads the queries it wrote (`ReadsItsOwn`), that its
  time is of its own kernel when it waits (`TimesOwn`), and what a baseline and an alarm are then.
  `ScannersAreExact` (`ScannersExact`), for files of any length: a scanner is a fold over the lines,
  its recursion has a solution (`ScanExists`) and goes through one state per line (`Scans`), and
  what every line keeps holds at the end (`ScanHolds`) - that the block collected is the comment
  right above (`BlockAbove`), the access the last one stated, and that a declaration that is open
  keeps the name of its first line and that line's block for its last one. `ExInv` says that a file
  has lines of its kind, and that the end of a declaration comes right after its first line and
  nowhere else.
  `GreenIsHeld` (`GreenMeansHeld`): `GtInv` says that every command that was to run and is not
  waiting has succeeded on the tree as pushed, and none was passed over. The promise has two
  hypotheses, `Watched` and that line numbers are numbers. `Watched` says that
  `check_gate_coverage.py` is itself run, that the gates in question are scripts that can fail, and
  that in a step which holds a script and the argument it needs, the script is the one that has it:
  the watcher looks for the two anywhere in the step, so without this, `--check` given to another
  command of the step would do. Every tree of the run satisfies them (`TreesWatched`).

The assumptions are on the constants, in the modules that declare them, and say no more than the
code does: bounds and counts are natural numbers and sizes are positive; batch sizes and
fractions are what `DataLoader` and `split()` accept (`DataAssumption`); a control is one of its gate
(`BuildTreeAssumption`: the identifiers of `verify_gates.py` are distinct); a scanner reads lines of
the kinds there are (`FilesAssumption`); a test exercises an
operator there is, and takes a gradient or a strided input only where the operator has a rule or
a source (`OpCoverageAssumption`); a suite of benchmarks is a non-empty list of kernels there are,
none of which is the warm-up's (`BenchAssumption`).

Induction over data is stated without the library's induction theorems: a set of natural
numbers that is not empty has a least element, a counterexample to a claim by induction is such a
set, and its least element contradicts the step. A definition by recursion is used through its
equation, once a function that solves it is exhibited the same way.

A fold of the model is used through the states it goes through (`Steps`), which its recursion is
shown to have.

Only model-checked: `OwnInputsOnly` (what an output depends on, over concrete networks; each layer
class is a formula over its own index arithmetic, and the property compares two such formulas),
`SiteWhole` (what a build writes is a chain of folds over headings, their ids, links and blocks,
and the property that each gate accepts it: a proof would need an assumption for every input the
build takes as it is), and liveness (`CallsReturn`, `SearchEnds`), which is out of the prover's reach. Where a theorem needs a
hypothesis - `OneWorkspaceSize`, `~EndMayFail`, `~WaitsMayTimeOut`, `Watched` - it is part of its
statement.

## 5. Not modelled, and why

* CPU kernels, shaders, pipelines and device selection by the driver: numerics and driver
  calls. Only what memory a command touches matters to the models.
* Physical addresses, memory types, mapping: `VkAllocator` has kinds and offsets, and the
  creation of a block succeeds or fails as a whole.
* Threads: the C++ containers are guarded by mutexes, but the recorder and the graph are not
  meant for concurrent use, and Python cannot reach them concurrently.
* The single gradient rules, eps, learning rates, initialisation: numbers, compared with
  references by the repository's tests.
* Several axes and dtypes in `LazyGraph`; several devices in one call.
* The bindings (argument conversion), `docs_health`, `measure_docs`, `tracker` and the other helper
  scripts, the drawings and prose of the site: output without state. The registry keeps a plain
  pointer to each backend; nothing destroys a registered one.

## 6. Plan

1. **Composition** - `Capture`'s profiler on top of `Recorder`, so that its submissions are the
   recorder's and abandoned recordings use up slots of the same ring.
2. **Optimizer on LazyGraph** - the three passes as realize and assign calls on a shared heap, with
   the step as one assignment of new values for an abstract specification.
3. **What a gradient keeps alive** - reachability of nodes after `backward()`, for the comment at
   `autograd.cpp:624`.
4. **Proofs** - the layers of `OwnInputsOnly` one class at a time; the part of `SiteWhole` that is
   about ids; `SharesAddUp` for reports of any number of intervals, in fractions of a tick.
5. **Pure algorithms** - split-K planning and the dispatch grid with their word sizes, shapes of
   several axes against a reference definition.
