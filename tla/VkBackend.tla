------------------------------ MODULE VkBackend ------------------------------
(***************************************************************************)
(* The Vulkan backend above its recorder (vulkan_backend.cpp, and the      *)
(* staging buffer of vk_command.cpp): the jobs the host runs - compute(),  *)
(* uploads, downloads, device copies - and the life of the memory they     *)
(* touch, with GPU work still in flight when a tensor dies.                *)
(*                                                                         *)
(* Device memory is a pool of ranges.  A range is live (a Storage holds    *)
(* it), is the split-K workspace, waits in the retirement list for the GPU *)
(* to pass a timeline value, or is free.  How ranges are carved out of     *)
(* blocks is the business of VkAllocator.                                  *)
(***************************************************************************)
EXTENDS Recorder

CONSTANTS
  Staging,          \* the range of the host-visible staging buffer
  NoRange,          \* no range
  SplitKSizes,      \* workspace sizes the split-K matmuls ask for
  MaxNodes,         \* bound: nodes per graph, copies per span
  MaxChunks,        \* bound: staging-sized chunks per transfer
  WaitsMayTimeOut,  \* the GPU can be slower than wait()'s 30 seconds
  EndMayFail        \* vkEndCommandBuffer can fail

ASSUME StagingAssumption == Staging \in Ranges
ASSUME NoRangeAssumption == NoRange \notin Ranges
ASSUME SplitKAssumption == SplitKSizes \subseteq Nat \ {0}
ASSUME CountsAssumption == MaxNodes \in Nat /\ MaxChunks \in Nat
ASSUME FaultsAssumption == WaitsMayTimeOut \in BOOLEAN /\ EndMayFail \in BOOLEAN

Pool == Ranges \ {Staging}

VARIABLES
  job,            \* what the host is executing: "none" or a backend call
  step,           \* where in it
  left,           \* nodes, chunks or copies it still has to do
  pins,           \* ranges of the storages its caller holds references to
  target,         \* the output a split-K reduce will write
  ticket,         \* the submission a download waits for
  stagingTicket,  \* staging_ticket_
  live,           \* Impl::live: ranges held by storages
  retiring,       \* Impl::retiring: ranges and the value the GPU must pass
  ws,             \* Impl::splitk_ws: the workspace's range
  wsSize,         \* and its size
  hostRaces       \* the host touched staging memory while the GPU used it

jobVars == <<job, step, left, pins, target, ticket>>
memVars == <<live, retiring, ws, wsSize>>
vars    == <<recVars, jobVars, stagingTicket, memVars, hostRaces>>

Reads(r)  == [range |-> r, write |-> FALSE]
Writes(r) == [range |-> r, write |-> TRUE]

Init ==
  /\ RecInit
  /\ job = "none" /\ step = "none" /\ left = 0 /\ pins = {} /\ target = NoRange /\ ticket = 0
  /\ stagingTicket = 0
  /\ live = {} /\ retiring = {} /\ ws = NoRange /\ wsSize = 0
  /\ hostRaces = FALSE

-----------------------------------------------------------------------------
(* Memory: allocation, retirement, reclamation.                            *)

RetiringRanges(S) == {x.range : x \in S}
FreeRangesUnretired(L, R, w) == Pool \ (L \cup {w})
FreeRanges(L, R, w) == Pool \ (L \cup RetiringRanges(R) \cup {w})
Free == FreeRanges(live, retiring, ws)

\* retire_later(): stamped with the submissions made so far.
RetirementNext(r) == [range |-> r, after |-> timeline + 1]
RetirementPrevious(r) == [range |-> r, after |-> IF timeline = 0 THEN 0 ELSE timeline - 1]
Retirement(r) == [range |-> r, after |-> timeline]

\* drain_retired(): what stays in the list once the counter read `polled`.
KeptRetiring(R, polled) == {x \in R : x.after > polled}

\* retire_later(): the list with r added, and drained.
AfterRetiring(r, polled) == KeptRetiring(retiring \cup {Retirement(r)}, polled)

\* StorageAllocator::allocate(): reclaim, then take a free range.
Allocate ==
  /\ job = "none"
  /\ \E polled \in Poll :
       LET kept == KeptRetiring(retiring, polled) IN
       /\ retiring' = kept
       /\ \E r \in FreeRanges(live, kept, ws) : live' = live \cup {r}
  /\ UNCHANGED <<recVars, jobVars, stagingTicket, ws, wsSize, hostRaces>>

\* A Storage's deleter.  A transfer holds map_mutex, which the deleter takes; a
\* compute() does not, but its caller holds references to the storages it uses.
Drop(r) ==
  /\ job \in {"none", "compute"}
  /\ r \in live \ pins
  /\ live' = live \ {r}
  /\ \E polled \in Poll :
       retiring' = AfterRetiring(r, polled)
  /\ UNCHANGED <<recVars, jobVars, stagingTicket, ws, wsSize, hostRaces>>

\* stats(): reclaim first.
Stats ==
  /\ job = "none"
  /\ \E polled \in Poll : retiring' = KeptRetiring(retiring, polled)
  /\ UNCHANGED <<recVars, jobVars, stagingTicket, live, ws, wsSize, hostRaces>>

\* synchronize(): wait for everything, then reclaim.
Synchronize ==
  /\ job = "none"
  /\ completed = timeline
  /\ \E polled \in Poll : retiring' = KeptRetiring(retiring, polled)
  /\ UNCHANGED <<recVars, jobVars, stagingTicket, live, ws, wsSize, hostRaces>>

-----------------------------------------------------------------------------
(* Jobs.                                                                   *)

\* The caller's references P keep the storages a call works on alive.  While a
\* recording is left open, every call fails in begin().
StartJob(j, s, n, P) ==
  /\ job = "none" /\ phase = "idle"
  /\ job' = j /\ step' = s /\ left' = n /\ pins' = P
  /\ UNCHANGED <<target, ticket>>

EndJob ==
  /\ job' = "none" /\ step' = "none" /\ left' = 0 /\ pins' = {} /\ target' = NoRange
  /\ UNCHANGED ticket

GoTo(s) == step' = s /\ UNCHANGED <<job, left, pins, target, ticket>>

\* begin()'s wait, whichever job called it.
JobBeginReady ==
  /\ BeginReady
  /\ UNCHANGED <<jobVars, stagingTicket, memVars, hostRaces>>

JobBeginTimeout ==
  /\ WaitsMayTimeOut
  /\ BeginTimeout
  /\ EndJob
  /\ UNCHANGED <<stagingTicket, memVars, hostRaces>>

\* The barrier that ends a step.
FencedStep(j, from, to) ==
  /\ job = j /\ step = from
  /\ Barrier
  /\ GoTo(to)
  /\ UNCHANGED <<stagingTicket, memVars, hostRaces>>

UnfencedStep(j, from, to) ==
  /\ job = j /\ step = from /\ phase = "recording"
  /\ GoTo(to)
  /\ UNCHANGED <<recVars, stagingTicket, memVars, hostRaces>>

(* compute(): one recording for the whole graph, a barrier after each node. *)

ComputeStart(P) ==
  /\ timeline < MaxSubmissions
  /\ StartJob("compute", "node", MaxNodes, P)
  /\ Begin
  /\ UNCHANGED <<stagingTicket, memVars, hostRaces>>

\* One dispatch: it reads a live range and writes another, its own storage.
Node(r, w) ==
  /\ job = "compute" /\ step = "node" /\ left > 0
  /\ Record({Reads(r), Writes(w)})
  /\ step' = "nodeBarrier" /\ left' = left - 1
  /\ UNCHANGED <<job, pins, target, ticket, stagingTicket, memVars, hostRaces>>

\* splitk_workspace(): big enough, or retired and replaced, in the middle of
\* the recording.
Workspace(bytes) ==
  \/ /\ ws # NoRange /\ wsSize >= bytes
     /\ UNCHANGED memVars
  \/ /\ ws = NoRange
     /\ ws' \in Free /\ wsSize' = bytes
     /\ UNCHANGED <<live, retiring>>
  \/ /\ ws # NoRange /\ wsSize < bytes
     /\ \E polled \in Poll :
          LET kept == AfterRetiring(ws, polled) IN
          /\ retiring' = kept
          /\ ws' \in FreeRanges(live, kept, NoRange)
     /\ wsSize' = bytes
     /\ UNCHANGED live

\* The device has no memory for a larger workspace: the old one is gone by then.
SplitKNoMemory(bytes) ==
  /\ job = "compute" /\ step = "node" /\ left > 0
  /\ ws # NoRange /\ wsSize < bytes
  /\ \E polled \in Poll :
       LET kept == AfterRetiring(ws, polled) IN
       /\ retiring' = kept
       /\ FreeRanges(live, kept, NoRange) = {}
  /\ ws' = NoRange /\ wsSize' = 0
  /\ Abandon
  /\ EndJob
  /\ UNCHANGED <<stagingTicket, live, hostRaces>>

\* A split-K matmul: the partitions write disjoint slices of the workspace.
SplitKPartials(r, w, bytes) ==
  /\ job = "compute" /\ step = "node" /\ left > 0
  /\ Workspace(bytes)
  /\ Record({Reads(r), Writes(ws')})
  /\ step' = "partialsBarrier" /\ left' = left - 1 /\ target' = w
  /\ UNCHANGED <<job, pins, ticket, stagingTicket, hostRaces>>

PartialsBarrier == FencedStep("compute", "partialsBarrier", "reduce")

\* The fold of the partial results into the output.
SplitKReduce ==
  /\ job = "compute" /\ step = "reduce"
  /\ Record({Reads(ws), Writes(target)})
  /\ step' = "nodeBarrier" /\ target' = NoRange
  /\ UNCHANGED <<job, left, pins, ticket, stagingTicket, memVars, hostRaces>>

NodeUnfenced == UnfencedStep("compute", "nodeBarrier", "node")
NodeBarrier == FencedStep("compute", "nodeBarrier", "node")

ComputeSubmit ==
  /\ job = "compute" /\ step = "node"
  /\ Submit
  /\ EndJob
  /\ UNCHANGED <<stagingTicket, memVars, hostRaces>>

ComputeThrowsUnguarded ==
  /\ job = "compute" /\ phase = "recording"
  /\ EndJob
  /\ UNCHANGED <<recVars, stagingTicket, memVars, hostRaces>>

\* A kernel throws, or the queue refuses the buffer: RecordingGuard aborts.
ComputeThrows ==
  /\ job = "compute"
  /\ Abandon
  /\ EndJob
  /\ UNCHANGED <<stagingTicket, memVars, hostRaces>>

(* StagingBuffer::upload(): wait for the staging memory, fill it, queue a  *)
(* copy out of it, once per chunk.                                         *)

UploadStart(r, n) ==
  /\ timeline + n <= MaxSubmissions
  /\ StartJob("upload", "wait", n, {r})
  /\ UNCHANGED <<recVars, stagingTicket, memVars, hostRaces>>

StagingNotAwaited == TRUE
StagingIdle == stagingTicket <= completed

UploadFill ==
  /\ job = "upload" /\ step = "wait"
  /\ StagingIdle
  /\ hostRaces' = (hostRaces \/ \E f \in inflight : \E a \in f.acc : a.range = Staging)
  /\ Begin
  /\ GoTo("copy")
  /\ UNCHANGED <<stagingTicket, memVars>>

UploadWaitTimeout ==
  /\ WaitsMayTimeOut
  /\ job = "upload" /\ step = "wait" /\ ~StagingIdle
  /\ EndJob
  /\ UNCHANGED <<recVars, stagingTicket, memVars, hostRaces>>

UploadCopy ==
  /\ job = "upload" /\ step = "copy"
  /\ \E r \in pins : Record({Reads(Staging), Writes(r)})
  /\ GoTo("copyBarrier")
  /\ UNCHANGED <<stagingTicket, memVars, hostRaces>>

UploadBarrier == FencedStep("upload", "copyBarrier", "submit")

UploadSubmit ==
  /\ job = "upload" /\ step = "submit"
  /\ Submit
  /\ stagingTicket' = timeline'
  /\ IF left = 1
     THEN EndJob
     ELSE step' = "wait" /\ left' = left - 1 /\ UNCHANGED <<job, pins, target, ticket>>
  /\ UNCHANGED <<memVars, hostRaces>>

(* StagingBuffer::download(): copy into the staging memory, wait for that  *)
(* submission, read it, once per chunk.                                    *)

DownloadStart(r, n) ==
  /\ timeline + n <= MaxSubmissions
  /\ StartJob("download", "first", n, {r})
  /\ Begin
  /\ UNCHANGED <<stagingTicket, memVars, hostRaces>>

DownloadBarrier == FencedStep("download", "first", "copy")

DownloadCopy ==
  /\ job = "download" /\ step = "copy"
  /\ \E r \in pins : Record({Reads(r), Writes(Staging)})
  /\ GoTo("submit")
  /\ UNCHANGED <<stagingTicket, memVars, hostRaces>>

DownloadSubmit ==
  /\ job = "download" /\ step = "submit"
  /\ Submit
  /\ ticket' = timeline'
  /\ step' = "wait"
  /\ UNCHANGED <<job, left, pins, target, stagingTicket, memVars, hostRaces>>

DownloadRead ==
  /\ job = "download" /\ step = "wait"
  /\ ticket <= completed
  /\ stagingTicket' = ticket
  /\ hostRaces' = (hostRaces \/ \E f \in inflight : Writes(Staging) \in f.acc)
  /\ IF left = 1
     THEN EndJob /\ UNCHANGED recVars
     ELSE Begin /\ step' = "first" /\ left' = left - 1 /\ UNCHANGED <<job, pins, target, ticket>>
  /\ UNCHANGED memVars

\* The wait throws before staging_ticket_ is set: the copy into the staging
\* memory stays in flight.
DownloadWaitTimeout ==
  /\ WaitsMayTimeOut
  /\ job = "download" /\ step = "wait" /\ ticket > completed
  /\ EndJob
  /\ UNCHANGED <<recVars, stagingTicket, memVars, hostRaces>>

(* copy_device_to_device(): one barrier, then a span of copies with none   *)
(* between them.  The caller hands in copies that do not depend on each    *)
(* other.                                                                  *)

CopyStart(P) ==
  /\ timeline < MaxSubmissions
  /\ StartJob("copy", "first", MaxNodes, P)
  /\ Begin
  /\ UNCHANGED <<stagingTicket, memVars, hostRaces>>

CopyBarrier == FencedStep("copy", "first", "copy")

CopyOne(s, d) ==
  /\ job = "copy" /\ step = "copy" /\ left > 0
  /\ Disciplined({Reads(s), Writes(d)})
  /\ Record({Reads(s), Writes(d)})
  /\ left' = left - 1
  /\ UNCHANGED <<job, step, pins, target, ticket, stagingTicket, memVars, hostRaces>>

CopySubmit ==
  /\ job = "copy" /\ step = "copy" /\ left < MaxNodes
  /\ Submit
  /\ EndJob
  /\ UNCHANGED <<stagingTicket, memVars, hostRaces>>

AtTransferSubmit ==
  /\ phase = "recording"
  /\ \/ job \in {"upload", "download"} /\ step = "submit"
     \/ job = "copy" /\ step = "copy" /\ left < MaxNodes

\* The queue refuses the buffer of a transfer: recording_ is already false.
TransferSubmitFails ==
  /\ AtTransferSubmit
  /\ Abandon
  /\ EndJob
  /\ UNCHANGED <<stagingTicket, memVars, hostRaces>>

\* vkEndCommandBuffer fails: submit() throws before it clears recording_, and
\* only compute() has a guard that does.
TransferEndFails ==
  /\ EndMayFail
  /\ AtTransferSubmit
  /\ EndJob
  /\ UNCHANGED <<recVars, stagingTicket, memVars, hostRaces>>

-----------------------------------------------------------------------------
HostCompute ==
  \/ \E r, w \in pins : r # w /\ Node(r, w)
  \/ \E r, w \in pins, b \in SplitKSizes : r # w /\ SplitKPartials(r, w, b)
  \/ \E b \in SplitKSizes : SplitKNoMemory(b)
  \/ PartialsBarrier \/ SplitKReduce \/ NodeBarrier \/ ComputeSubmit \/ ComputeThrows

HostTransfer ==
  \/ UploadFill \/ UploadWaitTimeout \/ UploadCopy \/ UploadBarrier \/ UploadSubmit
  \/ DownloadBarrier \/ DownloadCopy \/ DownloadSubmit \/ DownloadRead \/ DownloadWaitTimeout
  \/ CopyBarrier \/ (\E s, d \in pins : s # d /\ CopyOne(s, d)) \/ CopySubmit
  \/ TransferSubmitFails \/ TransferEndFails

\* A step of the call the host is in.
HostStep == JobBeginReady \/ JobBeginTimeout \/ HostCompute \/ HostTransfer

\* A new call.
HostCall ==
  \/ Allocate \/ Stats \/ Synchronize
  \/ \E P \in SUBSET live : Cardinality(P) > 1 /\ (ComputeStart(P) \/ CopyStart(P))
  \/ \E r \in live, n \in 1 .. MaxChunks : UploadStart(r, n) \/ DownloadStart(r, n)

Gpu == GpuFinish /\ UNCHANGED <<jobVars, stagingTicket, memVars, hostRaces>>

Next == HostStep \/ HostCall \/ Gpu \/ \E r \in live : Drop(r)

\* The driver makes progress, and a call that has started keeps running.
Fairness == WF_vars(Gpu) /\ WF_vars(HostStep)

SafeSpec == Init /\ [][Next]_vars
Spec == SafeSpec /\ Fairness

-----------------------------------------------------------------------------
\* Every variable keeps its type (Impl and StagingBuffer fields).
TypeOK ==
  /\ RecTypeOK
  /\ job \in {"none", "compute", "upload", "download", "copy"}
  /\ step \in {"none", "node", "nodeBarrier", "partialsBarrier", "reduce", "wait", "copy",
               "copyBarrier", "submit", "first"}
  /\ left \in Nat
  /\ pins \subseteq live
  /\ target \in pins \cup {NoRange}
  /\ ticket \in 0 .. timeline
  /\ stagingTicket \in 0 .. timeline
  /\ live \subseteq Pool
  /\ retiring \subseteq [range : Pool, after : 0 .. timeline]
  /\ ws \in Pool \cup {NoRange}
  /\ wsSize \in Nat
  /\ hostRaces \in BOOLEAN

\* What the GPU may still touch: the accesses of unfinished submissions, and
\* the ones a running call has recorded for the next.
PendingAcc == (UNION {f.acc : f \in inflight}) \cup (IF job = "none" THEN {} ELSE openAcc)
InUse == {a.range : a \in PendingAcc} \ {Staging}

\* The free list never holds memory that unfinished or recorded GPU work
\* accesses (ADR 0012 section 4d; the comment of retire_later()).
NoFreeInUse == InUse \cap Free = {}

\* Memory is never handed out, to a storage or as workspace, while unfinished
\* or recorded GPU work accesses it.
NoReuseInUse ==
  [][\A r \in Pool :
       r \in (live' \cup {ws'}) /\ r \notin (live \cup {ws}) => r \notin InUse]_vars

\* No range has two owners: live, workspace and retiring are disjoint.
OneOwner ==
  /\ ws \notin live
  /\ RetiringRanges(retiring) \cap (live \cup {ws}) = {}
  /\ \A x, y \in retiring : x.range = y.range => x = y

\* The host never writes staging memory a queued copy still uses, and never
\* reads it before the copy that fills it is done (staging_ticket_,
\* vk_command.h:386).
StagingSafe == ~hostRaces

\* An open recording always belongs to a call in progress: a call that throws
\* leaves the recorder usable (abort_recording(), vk_command.h:156).
RecorderReleased == phase # "idle" => job # "none"

\* The calls respect the recorder's contract: a command that conflicts with an
\* earlier one of the same recording is preceded by a barrier, and the backend
\* as a whole behaves as the recorder specified in Recorder.
ImplementsRecorder == RecSafeSpec

\* Every call returns: no wait is for a value the GPU is never asked to signal.
CallsReturn == job # "none" ~> job = "none"
=============================================================================
