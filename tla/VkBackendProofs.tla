--------------------------- MODULE VkBackendProofs ---------------------------
(***************************************************************************)
(* Proofs about Recorder, for every ring size, every set of ranges and     *)
(* every bound on the timeline, and then about VkBackend: its calls        *)
(* respect the recorder's contract, so the backend implements Recorder; no *)
(* range has two owners; when every split-K matmul needs the same          *)
(* workspace, memory the GPU still uses is never free; and what the calls  *)
(* promise when a fault is absent.                                         *)
(***************************************************************************)
EXTENDS VkBackend, TLAPS

\* A slot's value covers every unfinished submission recorded in it.
RingCovers == \A f \in inflight : f.sub <= slotValue[f.slot]

\* While a slot is being recorded, its last submission is over.
SlotIdle == phase = "recording" => slotValue[current] <= completed

\* A recording without a barrier began with nothing in flight, and nothing can
\* be submitted before it closes.
Quiescent ==
  /\ phase = "waiting" /\ ~outstanding => completed = timeline
  /\ phase = "recording" /\ ~fenced => completed = timeline

RecIInv == RecTypeOK /\ RingCovers /\ SlotIdle /\ Quiescent /\ NoRaces

-----------------------------------------------------------------------------
\* The invariant holds of a new recorder.
LEMMA RecInitInv == RecInit => RecIInv
<1>1. 0 \in Slots
  BY RingSizeAssumption DEF Slots
<1>2. RecInit => RecTypeOK
  <2> SUFFICES ASSUME RecInit PROVE RecTypeOK
    OBVIOUS
  <2>1. slotValue \in [Slots -> 0 .. timeline]
    BY DEF RecInit
  <2> QED BY <1>1, <2>1 DEF RecInit, RecTypeOK
<1> QED
  BY <1>2 DEF RecInit, RecIInv, RingCovers, SlotIdle, Quiescent, NoRaces

\* In a typed state where the open recording has no barrier, no earlier
\* access is left unordered.
LEMMA NothingLeftUnordered ==
  ASSUME RecTypeOK, Quiescent, phase = "recording"
  PROVE  Unordered = openTail
<1>1. CASE fenced
  BY <1>1 DEF Unordered
<1>2. CASE ~fenced
  <2>1. completed + 1 .. timeline = {}
    BY <1>2 DEF Quiescent, RecTypeOK
  <2>2. tail = {}
    BY <2>1 DEF RecTypeOK
  <2> QED BY <2>2 DEF Unordered
<1> QED BY <1>1, <1>2

\* Every step of the recorder keeps its variables typed.
LEMMA RecTypeStep == RecTypeOK /\ [RecNext]_recVars => RecTypeOK'
<1> SUFFICES ASSUME RecTypeOK, [RecNext]_recVars PROVE RecTypeOK'
  OBVIOUS
<1> USE RingSizeAssumption DEF RecTypeOK
<1>1. CASE Begin
  <2>1. (current + 1) % RingSize \in Slots
    BY DEF Slots
  <2> QED BY <1>1, <2>1 DEF Begin, gpuVars, openVars, WorkOutstanding
<1>2. CASE BeginReady
  BY <1>2 DEF BeginReady, gpuVars
<1>3. CASE BeginTimeout
  BY <1>3 DEF BeginTimeout, gpuVars, openVars
<1>4. ASSUME NEW A \in SUBSET Access, Record(A) PROVE RecTypeOK'
  <2>1. {a.range : a \in {x \in A : \E p \in Unordered : Conflict(x, p)}} \subseteq Ranges
    BY DEF Access
  <2> QED BY <1>4, <2>1 DEF Record, gpuVars
<1>5. CASE Barrier
  BY <1>5 DEF Barrier, gpuVars
<1>6. CASE Submit
  <2>1. /\ timeline' \in Nat
        /\ completed' \in 0 .. timeline'
        /\ completed' + 1 .. timeline' = (completed + 1 .. timeline) \cup {timeline + 1}
    BY <1>6 DEF Submit
  <2>2. slotValue' \in [Slots -> 0 .. timeline']
    BY <1>6, <2>1 DEF Submit, SlotTicket
  <2>3. inflight' \subseteq [sub : completed' + 1 .. timeline', slot : Slots, acc : SUBSET Access]
    BY <1>6, <2>1 DEF Submit
  <2>4. {[sub |-> timeline + 1, range |-> a.range, write |-> a.write] : a \in openTail}
          \subseteq [sub : {timeline + 1}, range : Ranges, write : BOOLEAN]
    BY DEF Access
  <2>5. tail' \subseteq [sub : completed' + 1 .. timeline', range : Ranges, write : BOOLEAN]
    BY <1>6, <2>1, <2>4 DEF Submit
  <2> QED BY <1>6, <2>1, <2>2, <2>3, <2>5 DEF Submit
<1>7. CASE Abandon
  BY <1>7 DEF Abandon, gpuVars
<1>8. CASE GpuFinish
  <2>1. completed' \in 0 .. timeline' /\ timeline' = timeline
    BY <1>8 DEF GpuFinish
  <2>2. \A f \in inflight' : f \in [sub : completed' + 1 .. timeline', slot : Slots, acc : SUBSET Access]
    BY <1>8, <2>1 DEF GpuFinish
  <2>3. \A t \in tail' : t \in [sub : completed' + 1 .. timeline', range : Ranges, write : BOOLEAN]
    BY <1>8, <2>1 DEF GpuFinish
  <2> QED BY <1>8, <2>1, <2>2, <2>3 DEF GpuFinish, openVars
<1>9. CASE UNCHANGED recVars
  BY <1>9 DEF recVars
<1> QED BY <1>1, <1>2, <1>3, <1>4, <1>5, <1>6, <1>7, <1>8, <1>9 DEF RecNext

\* Every step of the recorder keeps the inductive invariant.
LEMMA RecInvStep == RecIInv /\ [RecNext]_recVars => RecIInv'
<1> SUFFICES ASSUME RecIInv, [RecNext]_recVars PROVE RecIInv'
  OBVIOUS
<1>t. RecTypeOK /\ RecTypeOK'
  BY RecTypeStep DEF RecIInv
<1> USE <1>t DEF RecIInv
<1>1. CASE Begin
  <2>1. PICK polled \in Poll : outstanding' = (polled < timeline)
    BY <1>1 DEF Begin, WorkOutstanding
  <2>2. ~outstanding' => completed = timeline
    <3>1. polled <= completed /\ polled \in Nat
      BY DEF Poll, RecTypeOK
    <3>2. ~outstanding' => ~(polled < timeline)
      BY <2>1
    <3>3. ~(polled < timeline) => completed = timeline
      BY <3>1 DEF RecTypeOK
    <3> QED BY <3>2, <3>3
  <2> QED
    BY <1>1, <2>2 DEF Begin, gpuVars, openVars, RingCovers, SlotIdle, Quiescent, NoRaces
<1>2. CASE BeginReady
  BY <1>2 DEF BeginReady, gpuVars, SlotFree, RingCovers, SlotIdle, Quiescent, NoRaces
<1>3. CASE BeginTimeout
  BY <1>3 DEF BeginTimeout, gpuVars, openVars, RingCovers, SlotIdle, Quiescent, NoRaces
<1>4. ASSUME NEW A \in SUBSET Access, Disciplined(A), Record(A) PROVE RecIInv'
  <2>1. Unordered = openTail
    BY <1>4, NothingLeftUnordered DEF Record
  <2>2. races' = races
    BY <1>4, <2>1 DEF Record, Disciplined
  <2> QED BY <1>4, <2>2 DEF Record, gpuVars, RingCovers, SlotIdle, Quiescent, NoRaces
<1>5. CASE Barrier
  BY <1>5 DEF Barrier, gpuVars, RingCovers, SlotIdle, Quiescent, NoRaces
<1>6. CASE Submit
  <2>1. RingCovers'
    <3>1. ASSUME NEW f \in inflight' PROVE f.sub <= slotValue'[f.slot]
      <4>1. CASE f \in inflight
        BY <1>6, <4>1 DEF Submit, SlotTicket, RingCovers, RecTypeOK
      <4>2. CASE f = [sub |-> timeline + 1, slot |-> current, acc |-> openAcc]
        BY <1>6, <4>2 DEF Submit, SlotTicket, RecTypeOK
      <4> QED BY <1>6, <4>1, <4>2 DEF Submit
    <3> QED BY <3>1 DEF RingCovers
  <2> QED BY <1>6, <2>1 DEF Submit, SlotIdle, Quiescent, NoRaces
<1>7. CASE Abandon
  BY <1>7 DEF Abandon, gpuVars, RingCovers, SlotIdle, Quiescent, NoRaces
<1>8. CASE GpuFinish
  BY <1>8 DEF GpuFinish, openVars, RecTypeOK, RingCovers, SlotIdle, Quiescent, NoRaces
<1>9. CASE UNCHANGED recVars
  BY <1>9 DEF recVars, RingCovers, SlotIdle, Quiescent, NoRaces
<1> QED BY <1>1, <1>2, <1>3, <1>4, <1>5, <1>6, <1>7, <1>8, <1>9 DEF RecNext

\* The strengthened invariant holds in every reachable state.
THEOREM RecInvariant == RecSafeSpec => []RecIInv
BY RecInitInv, RecInvStep, PTL DEF RecSafeSpec

\* The recorder's variables always have their types.
THEOREM RecTypeCorrect == RecSafeSpec => []RecTypeOK
BY RecInvariant, PTL DEF RecIInv

\* A command buffer the GPU may still execute is never recorded again.
THEOREM CommandBuffersSafe == RecSafeSpec => []NoBufferReuse
<1>1. RecIInv => NoBufferReuse
  BY DEF RecIInv, RecTypeOK, RingCovers, SlotIdle, NoBufferReuse
<1> QED BY <1>1, RecInvariant, PTL

\* Conflicting commands of different submissions are always ordered.
THEOREM SubmissionsOrdered == RecSafeSpec => []NoRaces
BY RecInvariant, PTL DEF RecIInv

-----------------------------------------------------------------------------
(* The backend's calls.                                                    *)

\* Nothing is recorded outside a recording.
Clean == phase # "recording" => openAcc = {}

\* Where a call records a command, no earlier command of the recording is
\* waiting for a barrier - except between device copies.
Fresh ==
  openTail # {} =>
    \/ job = "none"
    \/ step \in {"nodeBarrier", "partialsBarrier", "copyBarrier", "submit"}
    \/ job = "copy" /\ step = "copy"

\* A split-K matmul has its workspace and its output between its two halves.
Halfway == job = "compute" /\ step \in {"partialsBarrier", "reduce"} => ws # NoRange /\ target \in pins

\* A call in progress is in one of its own steps.
StepOfJob ==
  /\ job = "none" => step = "none" /\ pins = {}
  /\ job = "compute" => step \in {"node", "nodeBarrier", "partialsBarrier", "reduce"}
  /\ job = "upload" => step \in {"wait", "copy", "copyBarrier", "submit"}
  /\ job = "download" => step \in {"first", "copy", "submit", "wait"}
  /\ job = "copy" => step \in {"first", "copy"}
  /\ job \in {"upload", "download"} => left > 0

CallInv == TypeOK /\ Clean /\ Fresh /\ Halfway /\ StepOfJob

-----------------------------------------------------------------------------
\* The calls' invariant holds before the first call.
LEMMA InitCallInv == Init => CallInv
<1> SUFFICES ASSUME Init PROVE CallInv
  OBVIOUS
<1>1. RecTypeOK
  BY RecInitInv DEF Init, RecIInv
<1>2. 0 \in 0 .. timeline
  BY DEF Init, RecInit
<1>3. TypeOK
  BY <1>1, <1>2, NoRangeAssumption DEF Init, TypeOK
<1> QED
  BY <1>3 DEF Init, RecInit, CallInv, Clean, Fresh, Halfway, StepOfJob

\* Commands on ranges of the model are well-formed, and with nothing awaiting a
\* barrier they are disciplined.
LEMMA FreshRecord ==
  ASSUME NEW r \in Ranges, NEW w \in Ranges,
         openTail = {}, Record({Reads(r), Writes(w)})
  PROVE  RecNext
<1>1. {Reads(r), Writes(w)} \in SUBSET Access
  BY DEF Access, Reads, Writes
<1>2. Disciplined({Reads(r), Writes(w)})
  BY DEF Disciplined
<1> QED
  BY <1>1, <1>2 DEF RecNext

\* Every step of the backend is a step of the recorder, or leaves it alone.
LEMMA StepRefines ==
  ASSUME CallInv, [Next]_vars
  PROVE  [RecNext]_recVars
<1> USE DEF CallInv
<1>p. Pool \subseteq Ranges /\ live \subseteq Pool /\ pins \subseteq live /\ Staging \in Ranges
  BY StagingAssumption DEF TypeOK, Pool
<1>1. CASE HostCompute
  <2>1. ASSUME NEW r \in pins, NEW w \in pins, Node(r, w) PROVE RecNext
    <3>1. openTail = {}
      BY <2>1 DEF Node, Fresh
    <3> QED BY <1>p, <2>1, <3>1, FreshRecord DEF Node
  <2>2. ASSUME NEW r \in pins, NEW w \in pins, NEW b \in SplitKSizes, SplitKPartials(r, w, b)
        PROVE  RecNext
    <3>1. openTail = {}
      BY <2>2 DEF SplitKPartials, Fresh
    <3>2. ws' \in Ranges
      <4>1. CASE ws # NoRange /\ wsSize >= b /\ UNCHANGED memVars
        BY <1>p, <4>1 DEF TypeOK, memVars
      <4>2. CASE ws' \in Free
        BY <1>p, <4>2 DEF Free, FreeRanges
      <4>3. CASE \E kept : ws' \in FreeRanges(live, kept, NoRange)
        BY <1>p, <4>3 DEF FreeRanges
      <4> QED BY <2>2, <4>1, <4>2, <4>3 DEF SplitKPartials, Workspace
    <3> QED BY <1>p, <2>2, <3>1, <3>2, FreshRecord DEF SplitKPartials
  <2>3. ASSUME NEW b \in SplitKSizes, SplitKNoMemory(b) PROVE RecNext
    BY <2>3 DEF SplitKNoMemory, RecNext
  <2>4. CASE PartialsBarrier \/ NodeBarrier
    BY <2>4 DEF PartialsBarrier, NodeBarrier, FencedStep, RecNext
  <2>5. CASE SplitKReduce
    <3>1. openTail = {}
      BY <2>5 DEF SplitKReduce, Fresh
    <3>2. ws \in Ranges /\ target \in Ranges
      BY <1>p, <2>5 DEF SplitKReduce, Halfway, TypeOK
    <3> QED BY <2>5, <3>1, <3>2, FreshRecord DEF SplitKReduce
  <2>6. CASE ComputeSubmit
    BY <2>6 DEF ComputeSubmit, RecNext
  <2>7. CASE ComputeThrows
    BY <2>7 DEF ComputeThrows, RecNext
  <2> QED BY <1>1, <2>1, <2>2, <2>3, <2>4, <2>5, <2>6, <2>7 DEF HostCompute
<1>2. CASE HostTransfer
  <2>1. CASE UploadFill
    BY <2>1 DEF UploadFill, RecNext
  <2>2. CASE UploadWaitTimeout \/ DownloadWaitTimeout \/ TransferEndFails
    BY <2>2 DEF UploadWaitTimeout, DownloadWaitTimeout, TransferEndFails
  <2>3. CASE UploadCopy
    <3>1. openTail = {}
      BY <2>3 DEF UploadCopy, Fresh
    <3> QED BY <1>p, <2>3, <3>1, FreshRecord DEF UploadCopy
  <2>4. CASE UploadBarrier \/ DownloadBarrier \/ CopyBarrier
    BY <2>4 DEF UploadBarrier, DownloadBarrier, CopyBarrier, FencedStep, RecNext
  <2>5. CASE UploadSubmit \/ DownloadSubmit \/ CopySubmit
    BY <2>5 DEF UploadSubmit, DownloadSubmit, CopySubmit, RecNext
  <2>6. CASE DownloadCopy
    <3>1. openTail = {}
      BY <2>6 DEF DownloadCopy, Fresh
    <3> QED BY <1>p, <2>6, <3>1, FreshRecord DEF DownloadCopy
  <2>7. CASE DownloadRead
    BY <2>7 DEF DownloadRead, RecNext
  <2>8. ASSUME NEW s \in pins, NEW d \in pins, CopyOne(s, d) PROVE RecNext
    <3>1. {Reads(s), Writes(d)} \in SUBSET Access
      BY <1>p DEF Access, Reads, Writes
    <3> QED BY <2>8, <3>1 DEF CopyOne, RecNext
  <2>9. CASE TransferSubmitFails
    BY <2>9 DEF TransferSubmitFails, RecNext
  <2> QED BY <1>2, <2>1, <2>2, <2>3, <2>4, <2>5, <2>6, <2>7, <2>8, <2>9 DEF HostTransfer
<1>3. CASE JobBeginReady \/ JobBeginTimeout
  BY <1>3 DEF JobBeginReady, JobBeginTimeout, RecNext
<1>4. CASE HostCall
  BY <1>4 DEF HostCall, Allocate, Stats, Synchronize, ComputeStart, CopyStart,
              UploadStart, DownloadStart, RecNext
<1>5. CASE Gpu
  BY <1>5 DEF Gpu, RecNext
<1>6. ASSUME NEW r \in live, Drop(r) PROVE UNCHANGED recVars
  BY <1>6 DEF Drop
<1>7. CASE UNCHANGED vars
  BY <1>7 DEF vars
<1> QED
  BY <1>1, <1>2, <1>3, <1>4, <1>5, <1>6, <1>7 DEF Next, HostStep

-----------------------------------------------------------------------------
\* The memory's bookkeeping is typed and no range has two owners.
MemTypeOK ==
  /\ live \subseteq Pool
  /\ retiring \subseteq [range : Pool, after : 0 .. timeline]
  /\ ws \in Pool \cup {NoRange}
  /\ wsSize \in Nat

MemInv == MemTypeOK /\ OneOwner

\* Submissions are only ever added (timeline_value_ in submit()).
LEMMA TimelineGrows ==
  ASSUME RecTypeOK, [RecNext]_recVars
  PROVE  timeline' \in Nat /\ timeline <= timeline'
BY DEF RecTypeOK, RecNext, recVars, Begin, BeginReady, BeginTimeout, Record, Barrier, Submit,
       Abandon, GpuFinish

\* Reclaiming forgets retired ranges and adds none.
LEMMA KeptSubset ==
  ASSUME NEW R, NEW polled
  PROVE  /\ KeptRetiring(R, polled) \subseteq R
         /\ RetiringRanges(KeptRetiring(R, polled)) \subseteq RetiringRanges(R)
BY DEF KeptRetiring, RetiringRanges

\* Retiring a range that is not retiring yet.
LEMMA RetireTyped ==
  ASSUME MemInv, RecTypeOK, NEW r \in Pool, r \notin RetiringRanges(retiring), NEW polled
  PROVE  LET kept == AfterRetiring(r, polled) IN
         /\ kept \subseteq [range : Pool, after : 0 .. timeline]
         /\ RetiringRanges(kept) \subseteq RetiringRanges(retiring) \cup {r}
         /\ \A x, y \in kept : x.range = y.range => x = y
<1> DEFINE kept == AfterRetiring(r, polled)
<1>1. Retirement(r) \in [range : Pool, after : 0 .. timeline] /\ Retirement(r).range = r
  BY DEF Retirement, RecTypeOK
<1>2. kept \subseteq retiring \cup {Retirement(r)}
  BY KeptSubset DEF AfterRetiring
<1> HIDE DEF kept
<1>3. \A x \in retiring : x.range # r
  BY DEF RetiringRanges
<1>4. kept \subseteq [range : Pool, after : 0 .. timeline]
  BY <1>1, <1>2 DEF MemInv, MemTypeOK
<1>5. RetiringRanges(kept) \subseteq RetiringRanges(retiring) \cup {r}
  BY <1>1, <1>2 DEF RetiringRanges
<1>6. \A x, y \in kept : x.range = y.range => x = y
  BY <1>1, <1>2, <1>3 DEF MemInv, OneOwner
<1> QED BY <1>4, <1>5, <1>6 DEF kept

\* A choice of workspace keeps the memory's invariant.
LEMMA WorkspaceStep ==
  ASSUME MemInv, RecTypeOK, NEW b \in SplitKSizes, Workspace(b), timeline' = timeline
  PROVE  MemInv'
<1> USE SplitKAssumption, NoRangeAssumption DEF MemInv
<1>p. NoRange \notin Pool
  BY DEF Pool
<1>1. CASE ws # NoRange /\ wsSize >= b /\ UNCHANGED memVars
  BY <1>1 DEF memVars, MemTypeOK, OneOwner, RetiringRanges
<1>2. CASE ws = NoRange /\ ws' \in Free /\ wsSize' = b /\ UNCHANGED <<live, retiring>>
  BY <1>p, <1>2 DEF Free, FreeRanges, MemTypeOK, OneOwner, RetiringRanges
<1>3. ASSUME ws # NoRange, NEW polled \in Poll,
             NEW kept, kept = AfterRetiring(ws, polled),
             retiring' = kept, ws' \in FreeRanges(live, kept, NoRange),
             wsSize' = b, live' = live
      PROVE  MemInv'
  <2>1. ws \in Pool /\ ws \notin RetiringRanges(retiring) /\ ws \notin live
    BY <1>3 DEF MemTypeOK, OneOwner
  <2>2. /\ kept \subseteq [range : Pool, after : 0 .. timeline]
        /\ RetiringRanges(kept) \subseteq RetiringRanges(retiring) \cup {ws}
        /\ \A x, y \in kept : x.range = y.range => x = y
    BY <1>3, <2>1, RetireTyped
  <2>3. ws' \in Pool /\ ws' \notin live /\ ws' \notin RetiringRanges(kept)
    BY <1>3 DEF FreeRanges
  <2>4. MemTypeOK'
    BY <1>3, <2>2, <2>3 DEF MemTypeOK
  <2>5. RetiringRanges(kept) \cap live = {}
    BY <2>1, <2>2 DEF OneOwner
  <2>6. RetiringRanges(retiring') \cap (live' \cup {ws'}) = {}
    BY <1>3, <2>3, <2>5
  <2>7. OneOwner'
    BY <1>3, <2>2, <2>3, <2>6 DEF OneOwner
  <2> QED BY <2>4, <2>7
<1> QED BY <1>1, <1>2, <1>3 DEF Workspace

\* Every step of the backend keeps the memory's invariant.
LEMMA MemStep ==
  ASSUME MemInv, CallInv, [Next]_vars
  PROVE  MemInv'
<1>r. RecTypeOK /\ timeline' \in Nat /\ timeline <= timeline'
  BY StepRefines, TimelineGrows DEF CallInv, TypeOK
<1>p. NoRange \notin Pool
  BY NoRangeAssumption DEF Pool
<1>0. ASSUME UNCHANGED memVars PROVE MemInv'
  <2>1. 0 .. timeline \subseteq 0 .. timeline'
    BY <1>r DEF RecTypeOK
  <2>2. MemTypeOK'
    BY <1>0, <2>1 DEF memVars, MemInv, MemTypeOK
  <2>3. OneOwner'
    BY <1>0 DEF memVars, MemInv, OneOwner, RetiringRanges
  <2> QED BY <2>2, <2>3 DEF MemInv
<1>1. ASSUME NEW polled \in Poll, retiring' = KeptRetiring(retiring, polled),
             UNCHANGED <<live, ws, wsSize, timeline>>
      PROVE  MemInv'
  <2>1. retiring' \subseteq retiring
    BY <1>1, KeptSubset
  <2> QED BY <1>1, <2>1 DEF MemInv, MemTypeOK, OneOwner, RetiringRanges
<1>2. CASE Allocate
  <2>1. PICK polled \in Poll :
          /\ retiring' = KeptRetiring(retiring, polled)
          /\ \E r \in FreeRanges(live, retiring', ws) : live' = live \cup {r}
    BY <1>2 DEF Allocate
  <2>2. PICK r \in FreeRanges(live, retiring', ws) : live' = live \cup {r}
    BY <2>1
  <2>3. retiring' \subseteq retiring
    BY <2>1, KeptSubset
  <2>4. UNCHANGED <<timeline, ws, wsSize>>
    BY <1>2 DEF Allocate, recVars
  <2>5. MemTypeOK'
    BY <2>2, <2>3, <2>4 DEF MemInv, MemTypeOK, FreeRanges
  <2>6. OneOwner'
    BY <2>2, <2>3, <2>4 DEF MemInv, OneOwner, FreeRanges, RetiringRanges
  <2> QED BY <2>5, <2>6 DEF MemInv
<1>3. ASSUME NEW r \in live, Drop(r) PROVE MemInv'
  <2>1. PICK polled \in Poll : retiring' = AfterRetiring(r, polled)
    BY <1>3 DEF Drop
  <2>2. live' = live \ {r} /\ UNCHANGED <<timeline, ws, wsSize>>
    BY <1>3 DEF Drop, recVars
  <2>3. r \in Pool /\ r \notin RetiringRanges(retiring) /\ r # ws
    BY DEF MemInv, MemTypeOK, OneOwner
  <2>4. /\ retiring' \subseteq [range : Pool, after : 0 .. timeline]
        /\ RetiringRanges(retiring') \subseteq RetiringRanges(retiring) \cup {r}
        /\ \A x, y \in retiring' : x.range = y.range => x = y
    BY <1>r, <2>1, <2>3, RetireTyped
  <2>5. MemTypeOK'
    BY <2>2, <2>4 DEF MemInv, MemTypeOK
  <2>6. OneOwner'
    BY <2>2, <2>3, <2>4 DEF MemInv, OneOwner, RetiringRanges
  <2> QED BY <2>5, <2>6 DEF MemInv
<1>4. CASE Stats \/ Synchronize
  BY <1>1, <1>4 DEF Stats, Synchronize, recVars
<1>5. ASSUME NEW r \in pins, NEW w \in pins, NEW b \in SplitKSizes, SplitKPartials(r, w, b)
      PROVE  MemInv'
  BY <1>r, <1>5, WorkspaceStep DEF SplitKPartials, Record
<1>6. ASSUME NEW b \in SplitKSizes, SplitKNoMemory(b) PROVE MemInv'
  <2>1. PICK polled \in Poll : retiring' = AfterRetiring(ws, polled)
    BY <1>6 DEF SplitKNoMemory
  <2>2. ws \in Pool /\ ws \notin live /\ ws \notin RetiringRanges(retiring)
    BY <1>6 DEF SplitKNoMemory, MemInv, MemTypeOK, OneOwner
  <2>3. /\ retiring' \subseteq [range : Pool, after : 0 .. timeline]
        /\ RetiringRanges(retiring') \subseteq RetiringRanges(retiring) \cup {ws}
        /\ \A x, y \in retiring' : x.range = y.range => x = y
    BY <1>r, <2>1, <2>2, RetireTyped
  <2>4. UNCHANGED <<timeline, live>> /\ ws' = NoRange /\ wsSize' = 0
    BY <1>6 DEF SplitKNoMemory, Abandon
  <2>5. MemTypeOK'
    BY <2>3, <2>4 DEF MemInv, MemTypeOK
  <2>6. OneOwner'
    BY <1>p, <2>2, <2>3, <2>4, <2>5 DEF MemInv, MemTypeOK, OneOwner, RetiringRanges
  <2> QED BY <2>5, <2>6 DEF MemInv
<1>7. CASE HostCompute
  <2>1. ASSUME NEW r \in pins, NEW w \in pins, Node(r, w) PROVE UNCHANGED memVars
    BY <2>1 DEF Node
  <2>2. CASE PartialsBarrier \/ SplitKReduce \/ NodeBarrier \/ ComputeSubmit \/ ComputeThrows
    BY <1>0, <2>2 DEF PartialsBarrier, SplitKReduce, NodeBarrier, ComputeSubmit, ComputeThrows,
                      FencedStep
  <2> QED BY <1>0, <1>5, <1>6, <1>7, <2>1, <2>2 DEF HostCompute
<1>8. CASE HostTransfer
  <2>1. UNCHANGED memVars
    BY <1>8 DEF HostTransfer, UploadFill, UploadWaitTimeout, UploadCopy, UploadBarrier,
         UploadSubmit, DownloadBarrier, DownloadCopy, DownloadSubmit, DownloadRead,
         DownloadWaitTimeout, CopyBarrier, CopyOne, CopySubmit, TransferSubmitFails,
         TransferEndFails, FencedStep
  <2> QED BY <1>0, <2>1
<1>9. CASE JobBeginReady \/ JobBeginTimeout
  BY <1>0, <1>9 DEF JobBeginReady, JobBeginTimeout
<1>10. CASE Gpu
  BY <1>0, <1>10 DEF Gpu
<1>11. CASE HostCall
  <2>1. ASSUME NEW P, ComputeStart(P) \/ CopyStart(P) PROVE MemInv'
    BY <1>0, <2>1 DEF ComputeStart, CopyStart
  <2>2. ASSUME NEW r, NEW n, UploadStart(r, n) \/ DownloadStart(r, n) PROVE MemInv'
    BY <1>0, <2>2 DEF UploadStart, DownloadStart
  <2> QED BY <1>2, <1>4, <1>11, <2>1, <2>2 DEF HostCall
<1>12. CASE UNCHANGED vars
  BY <1>0, <1>12 DEF vars
<1> QED BY <1>3, <1>7, <1>8, <1>9, <1>10, <1>11, <1>12 DEF Next, HostStep

-----------------------------------------------------------------------------
\* The call in progress: its variables' types, and where it may be.
JobTypeOK ==
  /\ job \in {"none", "compute", "upload", "download", "copy"}
  /\ step \in {"none", "node", "nodeBarrier", "partialsBarrier", "reduce", "wait", "copy",
               "copyBarrier", "submit", "first"}
  /\ left \in Nat
  /\ pins \subseteq live
  /\ target \in pins \cup {NoRange}
  /\ ticket \in 0 .. timeline
  /\ stagingTicket \in 0 .. timeline
  /\ hostRaces \in BOOLEAN

JobInv == JobTypeOK /\ Clean /\ Fresh /\ Halfway /\ StepOfJob

\* The calls' invariant is that of the recorder, of the memory and of the job.
LEMMA CallInvSplit == CallInv <=> RecTypeOK /\ MemTypeOK /\ JobInv
BY DEF CallInv, TypeOK, MemTypeOK, JobTypeOK, JobInv

\* Every step of the backend keeps the calls' invariant.
LEMMA JobStep ==
  ASSUME CallInv, [Next]_vars
  PROVE  JobInv'
<1>r. RecTypeOK /\ RecTypeOK' /\ timeline' \in Nat /\ timeline <= timeline'
  BY StepRefines, TimelineGrows, RecTypeStep DEF CallInv, TypeOK
<1>t. 0 .. timeline \subseteq 0 .. timeline'
  BY <1>r DEF RecTypeOK
<1>j. JobInv /\ timeline \in Nat /\ openTail \subseteq openAcc
  BY <1>r, CallInvSplit DEF RecTypeOK
<1> USE <1>t, <1>j DEF JobInv, JobTypeOK, Clean, Fresh, Halfway, StepOfJob
<1>e. ASSUME EndJob, pins' = {}, stagingTicket' \in 0 .. timeline', hostRaces' = hostRaces,
             phase' # "recording" => openAcc' = {}
      PROVE  JobInv'
  BY <1>e DEF EndJob
<1>1. ASSUME NEW r \in pins, NEW w \in pins, Node(r, w) PROVE JobInv'
  BY <1>1 DEF Node, Record, memVars
<1>2. ASSUME NEW r \in pins, NEW w \in pins, NEW b \in SplitKSizes, SplitKPartials(r, w, b)
      PROVE  JobInv'
  <2>1. ws' # NoRange /\ live' = live
    BY <1>2, SplitKAssumption, NoRangeAssumption
       DEF SplitKPartials, Workspace, Free, FreeRanges, Pool, memVars
  <2> QED BY <1>2, <2>1 DEF SplitKPartials, Record
<1>3. ASSUME NEW b \in SplitKSizes, SplitKNoMemory(b) PROVE JobInv'
  BY <1>3 DEF SplitKNoMemory, Abandon, EndJob
<1>4. CASE PartialsBarrier \/ NodeBarrier \/ UploadBarrier \/ DownloadBarrier \/ CopyBarrier
  BY <1>4 DEF PartialsBarrier, NodeBarrier, UploadBarrier, DownloadBarrier, CopyBarrier,
              FencedStep, Barrier, GoTo, memVars
<1>5. CASE SplitKReduce
  BY <1>5 DEF SplitKReduce, Record, memVars
<1>6. CASE ComputeSubmit \/ CopySubmit
  BY <1>6 DEF ComputeSubmit, CopySubmit, Submit, EndJob, memVars
<1>7. CASE ComputeThrows \/ TransferSubmitFails
  BY <1>7 DEF ComputeThrows, TransferSubmitFails, Abandon, EndJob, memVars
<1>8. CASE UploadFill
  <2>1. hostRaces' \in BOOLEAN
    BY <1>8 DEF UploadFill
  <2> QED BY <1>8, <2>1 DEF UploadFill, Begin, GoTo, memVars, openVars
<1>9. CASE UploadWaitTimeout \/ DownloadWaitTimeout \/ TransferEndFails
  BY <1>9 DEF UploadWaitTimeout, DownloadWaitTimeout, TransferEndFails, EndJob, recVars, memVars
<1>10. CASE UploadCopy \/ DownloadCopy
  BY <1>10 DEF UploadCopy, DownloadCopy, Record, GoTo, memVars
<1>11. CASE UploadSubmit
  <2>1. stagingTicket' \in 0 .. timeline'
    BY <1>r, <1>11 DEF UploadSubmit
  <2>2. CASE left = 1
    BY <1>e, <1>11, <2>1, <2>2 DEF UploadSubmit, Submit, EndJob
  <2>3. CASE left # 1
    BY <1>11, <2>1, <2>3 DEF UploadSubmit, Submit, memVars
  <2> QED BY <2>2, <2>3
<1>12. CASE DownloadSubmit
  BY <1>r, <1>12 DEF DownloadSubmit, Submit, memVars
<1>13. CASE DownloadRead
  <2>1. hostRaces' \in BOOLEAN
    BY <1>13 DEF DownloadRead
  <2>2. timeline' = timeline
    BY <1>13 DEF DownloadRead, Begin, recVars
  <2>3. CASE left = 1
    BY <1>13, <2>1, <2>2, <2>3 DEF DownloadRead, EndJob, recVars, memVars
  <2>4. CASE left # 1
    BY <1>13, <2>1, <2>2, <2>4 DEF DownloadRead, Begin, memVars, openVars
  <2> QED BY <2>3, <2>4
<1>14. ASSUME NEW s \in pins, NEW d \in pins, CopyOne(s, d) PROVE JobInv'
  BY <1>14 DEF CopyOne, Record, memVars
<1>15. CASE JobBeginReady \/ JobBeginTimeout
  BY <1>15 DEF JobBeginReady, JobBeginTimeout, BeginReady, BeginTimeout, EndJob, jobVars, memVars,
               openVars
<1>16. CASE Gpu
  BY <1>16 DEF Gpu, GpuFinish, jobVars, memVars, openVars
<1>17. CASE Allocate \/ Stats \/ Synchronize
  BY <1>17 DEF Allocate, Stats, Synchronize, recVars, jobVars
<1>18. ASSUME NEW P \in SUBSET live, ComputeStart(P) \/ CopyStart(P) PROVE JobInv'
  BY <1>18, CountsAssumption DEF ComputeStart, CopyStart, StartJob, Begin, memVars, openVars
<1>19. ASSUME NEW r \in live, NEW n \in 1 .. MaxChunks, UploadStart(r, n) \/ DownloadStart(r, n)
       PROVE  JobInv'
  BY <1>19, CountsAssumption DEF UploadStart, DownloadStart, StartJob, Begin, recVars, memVars, openVars
<1>20. ASSUME NEW r \in live, Drop(r) PROVE JobInv'
  BY <1>20 DEF Drop, recVars, jobVars
<1>21. CASE UNCHANGED vars
  BY <1>21 DEF vars, recVars, jobVars, memVars
<1> QED
  BY <1>1, <1>2, <1>3, <1>4, <1>5, <1>6, <1>7, <1>8, <1>9, <1>10, <1>11, <1>12, <1>13, <1>14,
     <1>15, <1>16, <1>17, <1>18, <1>19, <1>20, <1>21
     DEF Next, HostStep, HostCompute, HostTransfer, HostCall

-----------------------------------------------------------------------------
\* What every call keeps, in every reachable state.
BackendInv == CallInv /\ MemInv

\* The backend's inductive invariant holds in every reachable state: calls are
\* where their code can be (compute(), upload(), download(),
\* copy_device_to_device()), and memory has one owner.
THEOREM BackendInvariant == SafeSpec => []BackendInv
<1>1. Init => BackendInv
  BY InitCallInv, NoRangeAssumption
     DEF BackendInv, MemInv, CallInv, TypeOK, MemTypeOK, OneOwner, Init, RetiringRanges
<1>2. BackendInv /\ [Next]_vars => BackendInv'
  <2> SUFFICES ASSUME BackendInv, [Next]_vars PROVE BackendInv'
    OBVIOUS
  <2>1. RecTypeOK'
    BY StepRefines, RecTypeStep DEF BackendInv, CallInv, TypeOK
  <2>2. MemInv' /\ JobInv'
    BY MemStep, JobStep DEF BackendInv
  <2>3. CallInv'
    BY <2>1, <2>2, CallInvSplit DEF MemInv, CallInv, TypeOK, MemTypeOK, JobInv, JobTypeOK
  <2> QED BY <2>2, <2>3 DEF BackendInv
<1> QED BY <1>1, <1>2, PTL DEF SafeSpec

\* Every variable of the backend keeps its type (Impl's fields, staging_ticket_).
THEOREM BackendTypeCorrect == SafeSpec => []TypeOK
BY BackendInvariant, PTL DEF BackendInv, CallInv

\* No range ever has two owners among storages, splitk_ws and the retirement
\* list, whatever retire_later() and drain_retired() do in between.
THEOREM OwnersDisjoint == SafeSpec => []OneOwner
BY BackendInvariant, PTL DEF BackendInv, MemInv

\* compute(), upload(), download() and copy_device_to_device() use the recorder
\* as it asks to be used: every step is a step of RecNext or leaves it alone.
THEOREM BackendImplementsRecorder == SafeSpec => ImplementsRecorder
<1>1. Init => RecInit
  BY DEF Init
<1>2. BackendInv /\ [Next]_vars => [RecNext]_recVars
  BY StepRefines DEF BackendInv
<1> QED BY <1>1, <1>2, BackendInvariant, PTL DEF SafeSpec, RecSafeSpec, ImplementsRecorder

\* So no command races with an earlier one, and no command buffer is recorded
\* while the GPU may execute it, whatever calls the host makes.
THEOREM BackendRaceFree == SafeSpec => [](NoRaces /\ NoBufferReuse)
BY BackendImplementsRecorder, SubmissionsOrdered, CommandBuffersSafe, PTL DEF ImplementsRecorder

-----------------------------------------------------------------------------
(* Memory in use is never free, when all split-K matmuls need the same     *)
(* workspace.  (MCVkBackend_workspace.cfg shows what happens otherwise.)   *)

OneWorkspaceSize == \A a, b \in SplitKSizes : a = b

\* Range r belongs to someone until the GPU has passed value v.
Held(r, v) ==
  r \in live \/ r = ws \/ \E x \in retiring : x.range = r /\ x.after >= v

UseInv ==
  /\ ws # NoRange => wsSize \in SplitKSizes
  /\ \A f \in inflight : \A a \in f.acc : a.range # Staging => Held(a.range, f.sub)
  /\ job # "none" => \A a \in openAcc : a.range \in pins \cup {ws, Staging}

\* What an unfinished submission uses stays in the retirement list.
LEMMA StaysHeld ==
  ASSUME RecTypeOK, NEW polled \in Poll, NEW v \in completed + 1 .. timeline,
         NEW x, x.after \in 0 .. timeline, x.after >= v
  PROVE  ~(x.after <= polled) /\ x.after > polled
BY DEF Poll, RecTypeOK

\* Draining, with or without retiring another range first, keeps every range an
\* unfinished submission was stamped with (drain_retired(), retire_later()).
LEMMA RetirementStaysHeld ==
  ASSUME RecTypeOK, MemTypeOK, NEW polled \in Poll, NEW v \in completed + 1 .. timeline, NEW r
  PROVE  /\ \A x \in retiring : x.after >= v =>
              x \in KeptRetiring(retiring, polled) /\ \A q : x \in AfterRetiring(q, polled)
         /\ Retirement(r) \in AfterRetiring(r, polled)
         /\ Retirement(r).range = r /\ Retirement(r).after >= v
<1>1. \A x \in retiring : x.after >= v => x.after > polled
  BY StaysHeld DEF MemTypeOK
<1>2. Retirement(r).range = r /\ Retirement(r).after = timeline
  BY DEF Retirement
<1>3. timeline >= v /\ timeline > polled
  BY DEF RecTypeOK, Poll
<1> QED BY <1>1, <1>2, <1>3 DEF KeptRetiring, AfterRetiring

\* In-use memory has an owner, so it is not free.
LEMMA HeldNotFree ==
  ASSUME BackendInv, UseInv
  PROVE  NoFreeInUse
<1>1. ASSUME NEW f \in inflight, NEW a \in f.acc, a.range # Staging PROVE a.range \notin Free
  BY <1>1 DEF UseInv, Held, Free, FreeRanges, RetiringRanges
<1>2. ASSUME job # "none", NEW a \in openAcc, a.range # Staging PROVE a.range \notin Free
  BY <1>2 DEF UseInv, BackendInv, CallInv, TypeOK, Free, FreeRanges
<1>3. ASSUME NEW r \in InUse PROVE r \notin Free
  <2>1. PICK a \in PendingAcc : a.range = r /\ r # Staging
    BY <1>3 DEF InUse
  <2>2. CASE \E f \in inflight : a \in f.acc
    BY <1>1, <2>1, <2>2
  <2>3. CASE job # "none" /\ a \in openAcc
    BY <1>2, <2>1, <2>3
  <2>4. a \in UNION {f.acc : f \in inflight} => \E f \in inflight : a \in f.acc
    OBVIOUS
  <2>5. a \in UNION {f.acc : f \in inflight} \/ (job # "none" /\ a \in openAcc)
    <3>1. CASE job = "none"
      BY <2>1, <3>1 DEF PendingAcc
    <3>2. CASE job # "none"
      BY <2>1, <3>2 DEF PendingAcc
    <3> QED BY <3>1, <3>2
  <2> QED BY <2>2, <2>3, <2>4, <2>5
<1> QED BY <1>3 DEF NoFreeInUse

\* The accesses of a submission are owned until the GPU is past it.
LEMMA UseStep ==
  ASSUME OneWorkspaceSize, BackendInv, BackendInv', UseInv, [Next]_vars
  PROVE  UseInv'
<1>i. /\ RecTypeOK /\ RecTypeOK' /\ MemTypeOK /\ JobInv /\ pins \subseteq live
      /\ inflight \subseteq [sub : completed + 1 .. timeline, slot : Slots, acc : SUBSET Access]
  BY CallInvSplit DEF BackendInv, CallInv, TypeOK, RecTypeOK
<1>p. NoRange \notin Pool /\ \A b \in SplitKSizes : ~(wsSize < b) \/ ws = NoRange
  BY <1>i, SplitKAssumption, NoRangeAssumption DEF Pool, OneWorkspaceSize, UseInv, MemTypeOK
<1>h. ASSUME UNCHANGED memVars, inflight' \subseteq inflight,
             job' # "none" => \A a \in openAcc' : a.range \in pins' \cup {ws, Staging}
      PROVE  UseInv'
  BY <1>h DEF UseInv, Held, memVars
<1>s. ASSUME Submit, UNCHANGED memVars, job # "none"
      PROVE  UseInv'
  <2>1. openAcc' = {}
    BY <1>s DEF Submit
  <2>2. ASSUME NEW f \in inflight', NEW a \in f.acc, a.range # Staging
        PROVE  Held(a.range, f.sub)
    <3>1. CASE f \in inflight
      BY <2>2, <3>1 DEF UseInv
    <3>2. CASE f.acc = openAcc
      BY <1>i, <1>s, <2>2, <3>2 DEF UseInv, Held
    <3> QED BY <1>s, <2>2, <3>1, <3>2 DEF Submit
  <2> QED BY <1>s, <2>1, <2>2 DEF UseInv, Held, memVars
\* Memory changes, the recorder and the call do not, and in-use memory that was
\* waiting for the GPU still is.
<1>m. ASSUME UNCHANGED <<recVars, jobVars, ws, wsSize>>,
             NEW D \in SUBSET Pool, NEW polled \in Poll,
             live \ D \subseteq live', D \cap pins = {},
             \A x \in KeptRetiring(retiring, polled) : x \in retiring',
             \A r \in D : retiring' = AfterRetiring(r, polled)
      PROVE  UseInv'
  <2>1. ASSUME NEW f \in inflight, NEW a \in f.acc, a.range # Staging
        PROVE  Held(a.range, f.sub)'
    <3>1. f.sub \in completed + 1 .. timeline
      BY <1>i
    <3>2. Held(a.range, f.sub)
      BY <2>1 DEF UseInv
    <3>3. CASE a.range \in D
      <4>1. Retirement(a.range) \in retiring' /\ Retirement(a.range).range = a.range
              /\ Retirement(a.range).after >= f.sub
        BY <1>i, <1>m, <3>1, <3>3, RetirementStaysHeld
      <4> QED BY <1>m, <4>1 DEF Held, recVars
    <3>4. CASE a.range \in live \ D
      BY <1>m, <3>4 DEF Held
    <3>5. CASE a.range = ws
      BY <1>m, <3>5 DEF Held
    <3>6. CASE \E x \in retiring : x.range = a.range /\ x.after >= f.sub
      <4>1. PICK x \in retiring : x.range = a.range /\ x.after >= f.sub
        BY <3>6
      <4>2. x \in retiring'
        BY <1>i, <1>m, <3>1, <4>1, RetirementStaysHeld
      <4> QED BY <4>1, <4>2 DEF Held
    <3> QED BY <3>2, <3>3, <3>4, <3>5, <3>6 DEF Held
  <2> QED BY <1>m, <2>1 DEF UseInv, recVars, jobVars
<1>1. ASSUME NEW r \in pins, NEW w \in pins, Node(r, w) PROVE UseInv'
  BY <1>h, <1>1 DEF Node, Record, Reads, Writes, UseInv, gpuVars
<1>2. ASSUME NEW r \in pins, NEW w \in pins, NEW b \in SplitKSizes, SplitKPartials(r, w, b)
      PROVE  UseInv'
  <2>1. inflight' = inflight /\ openAcc' = openAcc \cup {Reads(r), Writes(ws')} /\ pins' = pins
        /\ job' = job /\ job = "compute"
    BY <1>2 DEF SplitKPartials, Record, gpuVars
  <2>2. CASE UNCHANGED memVars
    BY <1>h, <2>1, <2>2 DEF UseInv, Reads, Writes, memVars
  <2>3. CASE ws = NoRange /\ wsSize' = b /\ UNCHANGED <<live, retiring>>
    <3>1. ASSUME NEW f \in inflight, NEW a \in f.acc, a.range # Staging
          PROVE  Held(a.range, f.sub)'
      <4>1. a.range \in Ranges /\ NoRange \notin Ranges
        BY <1>i, <3>1, NoRangeAssumption DEF Access
      <4>2. Held(a.range, f.sub)
        BY <3>1 DEF UseInv
      <4> QED BY <2>3, <4>1, <4>2 DEF Held
    <3>2. \A a \in openAcc : a.range \in pins \cup {Staging}
      BY <1>i, <2>1, <2>3, NoRangeAssumption DEF UseInv, RecTypeOK, Access
    <3> QED BY <2>1, <2>3, <3>1, <3>2 DEF UseInv, Reads, Writes
  <2> QED BY <1>p, <1>2, <2>2, <2>3 DEF SplitKPartials, Workspace
<1>3. ASSUME NEW b \in SplitKSizes, SplitKNoMemory(b) PROVE UseInv'
  BY <1>p, <1>3 DEF SplitKNoMemory
<1>4. CASE PartialsBarrier \/ NodeBarrier \/ UploadBarrier \/ DownloadBarrier \/ CopyBarrier
  BY <1>h, <1>4 DEF PartialsBarrier, NodeBarrier, UploadBarrier, DownloadBarrier, CopyBarrier,
              FencedStep, Barrier, GoTo, gpuVars, UseInv
<1>5. CASE SplitKReduce
  BY <1>h, <1>5, <1>i DEF SplitKReduce, Record, Reads, Writes, UseInv, gpuVars, JobInv, Halfway
<1>6. CASE ComputeSubmit \/ CopySubmit \/ UploadSubmit \/ DownloadSubmit
  BY <1>s, <1>6 DEF ComputeSubmit, CopySubmit, UploadSubmit, DownloadSubmit
<1>7. CASE ComputeThrows \/ TransferSubmitFails
  BY <1>h, <1>7 DEF ComputeThrows, TransferSubmitFails, Abandon, EndJob, gpuVars
<1>8. CASE UploadFill
  BY <1>h, <1>8 DEF UploadFill, Begin, GoTo, memVars, openVars, gpuVars, UseInv
<1>9. CASE UploadWaitTimeout \/ DownloadWaitTimeout \/ TransferEndFails
  BY <1>h, <1>9 DEF UploadWaitTimeout, DownloadWaitTimeout, TransferEndFails, EndJob, recVars
<1>10. CASE UploadCopy \/ DownloadCopy
  BY <1>h, <1>10 DEF UploadCopy, DownloadCopy, Record, Reads, Writes, GoTo, gpuVars, UseInv
<1>11. CASE DownloadRead
  <2>1. CASE left = 1
    BY <1>h, <1>11, <2>1 DEF DownloadRead, EndJob, recVars
  <2>2. CASE left # 1
    BY <1>h, <1>11, <2>2 DEF DownloadRead, Begin, gpuVars, openVars, UseInv
  <2> QED BY <2>1, <2>2
<1>12. ASSUME NEW s \in pins, NEW d \in pins, CopyOne(s, d) PROVE UseInv'
  BY <1>h, <1>12 DEF CopyOne, Record, Reads, Writes, UseInv, gpuVars
<1>13. CASE JobBeginReady
  BY <1>h, <1>13 DEF JobBeginReady, BeginReady, gpuVars
<1>14. CASE JobBeginTimeout
  BY <1>h, <1>14 DEF JobBeginTimeout, BeginTimeout, EndJob, gpuVars
<1>15. CASE Gpu
  BY <1>h, <1>15 DEF Gpu, GpuFinish, jobVars, openVars, memVars, UseInv
<1>16. CASE Allocate \/ Stats \/ Synchronize
  <2>1. PICK polled \in Poll : retiring' = KeptRetiring(retiring, polled)
    BY <1>16 DEF Allocate, Stats, Synchronize
  <2>2. live \subseteq live' /\ UNCHANGED <<recVars, jobVars, ws, wsSize>>
    BY <1>16 DEF Allocate, Stats, Synchronize
  <2>3. /\ {} \in SUBSET Pool /\ live \ {} \subseteq live' /\ {} \cap pins = {}
        /\ \A x \in KeptRetiring(retiring, polled) : x \in retiring'
        /\ \A r \in {} : retiring' = AfterRetiring(r, polled)
    BY <2>1, <2>2
  <2> QED BY <1>m, <2>2, <2>3
<1>17. ASSUME NEW P \in SUBSET live, ComputeStart(P) \/ CopyStart(P) PROVE UseInv'
  <2>1. openAcc' = {} /\ inflight' = inflight /\ UNCHANGED memVars
    BY <1>i, <1>17 DEF ComputeStart, CopyStart, StartJob, Begin, gpuVars, openVars, JobInv, Clean
  <2> QED BY <1>h, <2>1
<1>18. ASSUME NEW r \in live, NEW n \in 1 .. MaxChunks, UploadStart(r, n) \/ DownloadStart(r, n)
       PROVE  UseInv'
  <2>1. openAcc' = {} /\ inflight' = inflight /\ UNCHANGED memVars
    BY <1>i, <1>18 DEF UploadStart, DownloadStart, StartJob, Begin, recVars, gpuVars, openVars,
                       JobInv, Clean
  <2> QED BY <1>h, <2>1
<1>19. ASSUME NEW r \in live, Drop(r) PROVE UseInv'
  <2>1. PICK polled \in Poll : retiring' = AfterRetiring(r, polled)
    BY <1>19 DEF Drop
  <2>2. /\ live' = live \ {r} /\ UNCHANGED <<recVars, jobVars, ws, wsSize>>
        /\ r \notin pins /\ r \in Pool
    BY <1>i, <1>19 DEF Drop, MemTypeOK
  <2>3. \A x \in KeptRetiring(retiring, polled) : x \in retiring'
    BY <2>1 DEF KeptRetiring, AfterRetiring
  <2>4. /\ {r} \in SUBSET Pool /\ live \ {r} \subseteq live' /\ {r} \cap pins = {}
        /\ \A q \in {r} : retiring' = AfterRetiring(q, polled)
    BY <2>1, <2>2
  <2> QED BY <1>m, <2>2, <2>3, <2>4
<1>20. CASE UNCHANGED vars
  BY <1>h, <1>20 DEF vars, recVars, jobVars, memVars, UseInv
<1> QED
  BY <1>1, <1>2, <1>3, <1>4, <1>5, <1>6, <1>7, <1>8, <1>9, <1>10, <1>11, <1>12, <1>13, <1>14,
     <1>15, <1>16, <1>17, <1>18, <1>19, <1>20
     DEF Next, HostStep, HostCompute, HostTransfer, HostCall

\* Memory the GPU still accesses is never free, when every split-K matmul asks
\* for the same workspace size.
THEOREM InUseNeverFree == OneWorkspaceSize => (SafeSpec => []NoFreeInUse)
<1> SUFFICES ASSUME OneWorkspaceSize PROVE SafeSpec => []NoFreeInUse
  OBVIOUS
<1>1. Init => UseInv
  BY DEF Init, RecInit, UseInv
<1>2. BackendInv /\ BackendInv' /\ UseInv /\ [Next]_vars => UseInv'
  BY UseStep
<1>3. BackendInv /\ UseInv => NoFreeInUse
  BY HeldNotFree
<1> QED BY <1>1, <1>2, <1>3, BackendInvariant, PTL DEF SafeSpec

\* No other call can hand that memory out again.
LEMMA FreshNotInUse ==
  ASSUME OneWorkspaceSize, BackendInv, UseInv, Next,
         NEW r \in Pool, r \in live' \cup {ws'}, r \notin live \cup {ws}
  PROVE  r \notin InUse
<1>i. /\ RecTypeOK /\ MemTypeOK /\ pins \subseteq live
      /\ inflight \subseteq [sub : completed + 1 .. timeline, slot : Slots, acc : SUBSET Access]
  BY CallInvSplit DEF BackendInv, CallInv, TypeOK, RecTypeOK
<1>p. ASSUME NEW b \in SplitKSizes, ws # NoRange PROVE ~(wsSize < b)
  <2>1. wsSize = b
    BY <1>p DEF OneWorkspaceSize, UseInv
  <2> QED BY <1>i, <2>1 DEF MemTypeOK
<1>1. CASE Allocate
  <2>1. PICK polled \in Poll :
          /\ retiring' = KeptRetiring(retiring, polled)
          /\ \E q \in FreeRanges(live, retiring', ws) : live' = live \cup {q}
    BY <1>1 DEF Allocate
  <2>2. r \in FreeRanges(live, KeptRetiring(retiring, polled), ws)
    BY <1>1, <2>1 DEF Allocate
  <2>3. ASSUME NEW f \in inflight, NEW a \in f.acc, a.range = r, r # Staging PROVE FALSE
    <3>1. Held(r, f.sub) /\ f.sub \in completed + 1 .. timeline
      BY <1>i, <2>3 DEF UseInv
    <3>2. PICK x \in retiring : x.range = r /\ x.after >= f.sub
      BY <3>1 DEF Held
    <3>3. x \in KeptRetiring(retiring, polled)
      BY <1>i, <3>1, <3>2, RetirementStaysHeld
    <3> QED BY <2>2, <3>2, <3>3 DEF FreeRanges, RetiringRanges
  <2>4. PendingAcc = UNION {f.acc : f \in inflight}
    BY <1>1 DEF Allocate, PendingAcc
  <2> QED BY <2>3, <2>4 DEF InUse, Pool
<1>2. CASE ws' # ws /\ live' = live
  <2>1. PICK b \in SplitKSizes : Workspace(b) \/ SplitKNoMemory(b)
    <3>1. \/ \E b \in SplitKSizes, q, w \in pins : SplitKPartials(q, w, b)
          \/ \E b \in SplitKSizes : SplitKNoMemory(b)
          \/ UNCHANGED ws
      BY DEF Next, HostStep, HostCompute, HostTransfer, HostCall, Allocate, Stats, Synchronize,
             ComputeStart, CopyStart, UploadStart, DownloadStart, Drop, Gpu, JobBeginReady,
             JobBeginTimeout, Node, PartialsBarrier, NodeBarrier, FencedStep, SplitKReduce,
             ComputeSubmit, ComputeThrows, UploadFill, UploadWaitTimeout, UploadCopy,
             UploadBarrier, UploadSubmit, DownloadBarrier, DownloadCopy, DownloadSubmit,
             DownloadRead, DownloadWaitTimeout, CopyBarrier, CopyOne, CopySubmit,
             TransferSubmitFails, TransferEndFails, memVars
    <3> QED BY <1>2, <3>1 DEF SplitKPartials
  <2>2. ws' \in Free
    BY <1>p, <1>2, <2>1 DEF Workspace, SplitKNoMemory, memVars
  <2>3. InUse \cap Free = {}
    BY HeldNotFree DEF NoFreeInUse
  <2> QED BY <1>2, <2>2, <2>3
<1>3. CASE live' \subseteq live /\ ws' = ws
  BY <1>3
<1>4. Allocate \/ (ws' # ws /\ live' = live) \/ (live' \subseteq live /\ ws' = ws)
  BY DEF Next, HostStep, HostCompute, HostTransfer, HostCall, Stats, Synchronize, SplitKPartials,
         Workspace, SplitKNoMemory,
         ComputeStart, CopyStart, UploadStart, DownloadStart, Drop, Gpu, JobBeginReady,
         JobBeginTimeout, Node, PartialsBarrier, NodeBarrier, FencedStep, SplitKReduce,
         ComputeSubmit, ComputeThrows, UploadFill, UploadWaitTimeout, UploadCopy,
         UploadBarrier, UploadSubmit, DownloadBarrier, DownloadCopy, DownloadSubmit,
         DownloadRead, DownloadWaitTimeout, CopyBarrier, CopyOne, CopySubmit,
         TransferSubmitFails, TransferEndFails, memVars
<1> QED BY <1>1, <1>2, <1>3, <1>4

\* Nothing - no storage, no workspace - is ever given memory the GPU still
\* accesses, under the same condition.
THEOREM InUseNeverReused == OneWorkspaceSize => (SafeSpec => NoReuseInUse)
<1> SUFFICES ASSUME OneWorkspaceSize PROVE SafeSpec => NoReuseInUse
  OBVIOUS
<1>1. Init => UseInv
  BY DEF Init, RecInit, UseInv
<1>2. BackendInv /\ BackendInv' /\ UseInv /\ [Next]_vars => UseInv'
  BY UseStep
<1>3. BackendInv /\ UseInv /\ [Next]_vars =>
        [\A r \in Pool : r \in (live' \cup {ws'}) /\ r \notin (live \cup {ws}) => r \notin InUse]_vars
  BY FreshNotInUse
<1> QED BY <1>1, <1>2, <1>3, BackendInvariant, PTL DEF SafeSpec, NoReuseInUse

-----------------------------------------------------------------------------
(* With one of the faults absent: a recording never outlives its call when  *)
(* vkEndCommandBuffer cannot fail, and the staging memory is never shared by *)
(* host and GPU when every wait ends in time.  MCVkBackend_wedged.cfg and    *)
(* MCVkBackend_timeout.cfg show that neither condition can be left out.      *)

\* A transfer that waits on the host has no recording open.
WaitsOutside == job \in {"upload", "download"} /\ step = "wait" => phase = "idle"

ReleasedInv == RecorderReleased /\ WaitsOutside

\* Every step of the backend keeps a recording within its call, when
\* vkEndCommandBuffer does not fail.
LEMMA ReleasedStep ==
  ASSUME ~EndMayFail, CallInv, ReleasedInv, [Next]_vars
  PROVE  ReleasedInv'
<1> USE DEF ReleasedInv, RecorderReleased, WaitsOutside
<1>s. StepOfJob
  BY DEF CallInv
<1>1. ASSUME NEW r \in pins, NEW w \in pins, Node(r, w) PROVE ReleasedInv'
  BY <1>1 DEF Node, Record
<1>2. ASSUME NEW r \in pins, NEW w \in pins, NEW b \in SplitKSizes, SplitKPartials(r, w, b)
      PROVE  ReleasedInv'
  BY <1>2 DEF SplitKPartials, Record
<1>3. CASE PartialsBarrier \/ NodeBarrier \/ UploadBarrier \/ DownloadBarrier \/ CopyBarrier
  BY <1>3 DEF PartialsBarrier, NodeBarrier, UploadBarrier, DownloadBarrier, CopyBarrier,
              FencedStep, Barrier, GoTo
<1>4. CASE SplitKReduce
  BY <1>4 DEF SplitKReduce, Record
<1>5. CASE ComputeSubmit \/ CopySubmit
  BY <1>5 DEF ComputeSubmit, CopySubmit, Submit, EndJob
<1>6. CASE ComputeThrows \/ TransferSubmitFails \/ \E b \in SplitKSizes : SplitKNoMemory(b)
  BY <1>6 DEF ComputeThrows, TransferSubmitFails, SplitKNoMemory, Abandon, EndJob
<1>7. CASE UploadFill
  BY <1>7 DEF UploadFill, Begin, GoTo
<1>8. CASE UploadWaitTimeout \/ DownloadWaitTimeout
  BY <1>8 DEF UploadWaitTimeout, DownloadWaitTimeout, EndJob, recVars
<1>9. ~TransferEndFails
  BY DEF TransferEndFails
<1>10. CASE UploadCopy \/ DownloadCopy
  BY <1>10 DEF UploadCopy, DownloadCopy, Record, GoTo
<1>11. CASE UploadSubmit \/ DownloadSubmit
  BY <1>11 DEF UploadSubmit, DownloadSubmit, Submit, EndJob
<1>12. CASE DownloadRead
  BY <1>12 DEF DownloadRead, EndJob, Begin, recVars
<1>13. ASSUME NEW s \in pins, NEW d \in pins, CopyOne(s, d) PROVE ReleasedInv'
  BY <1>13 DEF CopyOne, Record
<1>14. CASE JobBeginReady \/ JobBeginTimeout
  BY <1>14 DEF JobBeginReady, JobBeginTimeout, BeginReady, BeginTimeout, EndJob, jobVars
<1>15. CASE Gpu
  BY <1>15 DEF Gpu, GpuFinish, jobVars
<1>16. CASE Allocate \/ Stats \/ Synchronize \/ \E r \in live : Drop(r)
  BY <1>16 DEF Allocate, Stats, Synchronize, Drop, recVars, jobVars
<1>17. ASSUME NEW P \in SUBSET live, ComputeStart(P) \/ CopyStart(P) PROVE ReleasedInv'
  BY <1>17 DEF ComputeStart, CopyStart, StartJob, Begin
<1>18. ASSUME NEW r \in live, NEW n \in 1 .. MaxChunks, UploadStart(r, n) \/ DownloadStart(r, n)
       PROVE  ReleasedInv'
  BY <1>18 DEF UploadStart, DownloadStart, StartJob, Begin, recVars
<1>19. CASE UNCHANGED vars
  BY <1>19 DEF vars, recVars, jobVars
<1> QED
  BY <1>1, <1>2, <1>3, <1>4, <1>5, <1>6, <1>7, <1>8, <1>9, <1>10, <1>11, <1>12, <1>13, <1>14,
     <1>15, <1>16, <1>17, <1>18, <1>19
     DEF Next, HostStep, HostCompute, HostTransfer, HostCall

\* A call that ends, also by throwing, leaves the recorder usable
\* (abort_recording(), RecordingGuard) as long as vkEndCommandBuffer succeeds.
THEOREM CallsReleaseRecorder == ~EndMayFail => (SafeSpec => []RecorderReleased)
<1> SUFFICES ASSUME ~EndMayFail PROVE SafeSpec => []RecorderReleased
  OBVIOUS
<1>1. Init => ReleasedInv
  BY DEF Init, RecInit, ReleasedInv, RecorderReleased, WaitsOutside
<1>2. BackendInv /\ ReleasedInv /\ [Next]_vars => ReleasedInv'
  BY ReleasedStep DEF BackendInv
<1>3. ReleasedInv => RecorderReleased
  BY DEF ReleasedInv
<1> QED BY <1>1, <1>2, <1>3, BackendInvariant, PTL DEF SafeSpec

-----------------------------------------------------------------------------
\* The submission whose end means that every copy from or to the staging memory
\* is over: staging_ticket_, or the ticket download() is about to store in it.
Cover == IF job = "download" /\ step = "wait" THEN ticket ELSE stagingTicket

TouchesStaging(A) == \E a \in A : a.range = Staging

StagingInv ==
  /\ ~hostRaces
  /\ \A f \in inflight : TouchesStaging(f.acc) => f.sub <= Cover
  /\ TouchesStaging(openAcc) => job \in {"none", "upload", "download"}

\* A command on storages and workspace does not touch the staging memory.
LEMMA PoolOnly ==
  ASSUME NEW r \in Pool, NEW w \in Pool
  PROVE  ~TouchesStaging({Reads(r), Writes(w)})
BY DEF Pool, TouchesStaging, Reads, Writes

\* Steps that submit nothing, keep the cover and the host's hands off keep the
\* invariant when what they record does not touch the staging memory, or may.
LEMMA StagingKept ==
  ASSUME StagingInv, hostRaces' = hostRaces, inflight' \subseteq inflight, Cover' = Cover,
         TouchesStaging(openAcc') => job' \in {"none", "upload", "download"}
  PROVE  StagingInv'
BY DEF StagingInv, TouchesStaging

\* A submission that becomes the cover, or touches no staging memory.
LEMMA StagingSubmitted ==
  ASSUME StagingInv, RecTypeOK, Submit, hostRaces' = hostRaces,
         \/ Cover' = timeline'
         \/ Cover' = Cover /\ ~TouchesStaging(openAcc)
  PROVE  StagingInv'
<1>1. \A f \in inflight : f.sub <= timeline /\ f.sub \in Nat
  BY DEF RecTypeOK
<1>2. timeline' = timeline + 1 /\ openAcc' = {}
  BY DEF Submit
<1>3. \A f \in inflight' :
        f \in inflight \/ f = [sub |-> timeline + 1, slot |-> current, acc |-> openAcc]
  BY DEF Submit
<1>4. CASE Cover' = timeline'
  BY <1>1, <1>2, <1>3, <1>4 DEF StagingInv, TouchesStaging, RecTypeOK
<1>5. CASE Cover' = Cover /\ ~TouchesStaging(openAcc)
  BY <1>2, <1>3, <1>5 DEF StagingInv, TouchesStaging
<1> QED BY <1>4, <1>5

\* Every step of the backend keeps the staging memory's invariant, when every
\* wait ends in time.
LEMMA StagingStep ==
  ASSUME ~WaitsMayTimeOut, BackendInv, StagingInv, [Next]_vars
  PROVE  StagingInv'
<1>i. /\ RecTypeOK /\ Clean /\ StepOfJob /\ Halfway
      /\ hostRaces \in BOOLEAN /\ pins \subseteq Pool /\ ws \in Pool \cup {NoRange} /\ {ticket, stagingTicket} \subseteq 0 .. timeline
  BY DEF BackendInv, CallInv, TypeOK
<1>q. /\ \A f \in inflight : f.sub > completed /\ f.sub \in Nat
      /\ {completed, timeline} \subseteq Nat
  BY <1>i DEF RecTypeOK
<1> USE DEF Cover
<1>1. ASSUME NEW r \in pins, NEW w \in pins, Node(r, w) PROVE StagingInv'
  <2>1. ~TouchesStaging({Reads(r), Writes(w)})
    BY <1>i, PoolOnly
  <2>2. TouchesStaging(openAcc') => TouchesStaging(openAcc)
    BY <1>1, <2>1 DEF Node, Record, TouchesStaging
  <2> QED BY <1>1, <2>2, StagingKept DEF Node, Record, gpuVars, StagingInv
<1>2. ASSUME NEW r \in pins, NEW w \in pins, NEW b \in SplitKSizes, SplitKPartials(r, w, b)
      PROVE  StagingInv'
  <2>1. ws' \in Pool
    BY <1>i, <1>2 DEF SplitKPartials, Workspace, Free, FreeRanges, memVars
  <2>2. ~TouchesStaging({Reads(r), Writes(ws')})
    BY <1>i, <2>1, PoolOnly
  <2>3. TouchesStaging(openAcc') => TouchesStaging(openAcc)
    BY <1>2, <2>2 DEF SplitKPartials, Record, TouchesStaging
  <2> QED BY <1>2, <2>3, StagingKept DEF SplitKPartials, Record, gpuVars, StagingInv
<1>3. CASE SplitKReduce
  <2>1. ws \in Pool /\ target \in Pool
    BY <1>i, <1>3 DEF SplitKReduce, Halfway
  <2>2. ~TouchesStaging({Reads(ws), Writes(target)})
    BY <2>1, PoolOnly
  <2>3. TouchesStaging(openAcc') => TouchesStaging(openAcc)
    BY <1>3, <2>2 DEF SplitKReduce, Record, TouchesStaging
  <2> QED BY <1>3, <2>3, StagingKept DEF SplitKReduce, Record, gpuVars, StagingInv
<1>4. ASSUME NEW s \in pins, NEW d \in pins, CopyOne(s, d) PROVE StagingInv'
  <2>1. ~TouchesStaging({Reads(s), Writes(d)})
    BY <1>i, PoolOnly
  <2>2. TouchesStaging(openAcc') => TouchesStaging(openAcc)
    BY <1>4, <2>1 DEF CopyOne, Record, TouchesStaging
  <2> QED BY <1>4, <2>2, StagingKept DEF CopyOne, Record, gpuVars, StagingInv
<1>5. CASE PartialsBarrier \/ NodeBarrier \/ UploadBarrier \/ DownloadBarrier \/ CopyBarrier
  BY <1>5, StagingKept
     DEF PartialsBarrier, NodeBarrier, UploadBarrier, DownloadBarrier, CopyBarrier, FencedStep,
         Barrier, GoTo, gpuVars, StagingInv
<1>6. CASE ComputeSubmit \/ CopySubmit
  <2>1. ~TouchesStaging(openAcc) /\ Submit /\ Cover' = Cover /\ hostRaces' = hostRaces
    BY <1>6 DEF ComputeSubmit, CopySubmit, EndJob, StagingInv
  <2> QED BY <1>i, <2>1, StagingSubmitted
<1>7. CASE ComputeThrows \/ TransferSubmitFails \/ \E b \in SplitKSizes : SplitKNoMemory(b)
  <2>1. openAcc' = {} /\ Cover' = Cover /\ UNCHANGED <<inflight, hostRaces>>
    BY <1>7 DEF ComputeThrows, TransferSubmitFails, SplitKNoMemory, AtTransferSubmit, Abandon,
                EndJob, gpuVars
  <2> QED BY <2>1, StagingKept DEF TouchesStaging
<1>8. CASE UploadFill
  <2>1. ASSUME NEW f \in inflight, TouchesStaging(f.acc) PROVE FALSE
    <3>1. f.sub <= stagingTicket /\ stagingTicket <= completed
      BY <1>8, <2>1 DEF UploadFill, StagingIdle, StagingInv
    <3> QED BY <1>q, <1>i, <3>1
  <2>2. hostRaces' = hostRaces
    <3>1. ~\E f \in inflight : \E a \in f.acc : a.range = Staging
      BY <2>1 DEF TouchesStaging
    <3>2. hostRaces' = (hostRaces \/ \E f \in inflight : \E a \in f.acc : a.range = Staging)
      BY <1>8 DEF UploadFill
    <3> QED BY <1>i, <3>1, <3>2, Zenon
  <2> QED BY <1>8, <2>2, StagingKept DEF UploadFill, Begin, GoTo, gpuVars, openVars, StagingInv
<1>9. ~UploadWaitTimeout /\ ~DownloadWaitTimeout /\ ~JobBeginTimeout
  BY DEF UploadWaitTimeout, DownloadWaitTimeout, JobBeginTimeout
<1>10. CASE TransferEndFails
  BY <1>10, StagingKept DEF TransferEndFails, AtTransferSubmit, EndJob, recVars, StagingInv
<1>11. CASE UploadCopy \/ DownloadCopy
  BY <1>11, StagingKept DEF UploadCopy, DownloadCopy, Record, GoTo, gpuVars, StagingInv
<1>12. CASE UploadSubmit
  <2>1. Cover' = timeline'
    BY <1>12 DEF UploadSubmit, EndJob
  <2> QED BY <1>i, <1>12, <2>1, StagingSubmitted DEF UploadSubmit
<1>13. CASE DownloadSubmit
  <2>1. Cover' = timeline'
    BY <1>13 DEF DownloadSubmit
  <2> QED BY <1>i, <1>13, <2>1, StagingSubmitted DEF DownloadSubmit
<1>14. CASE DownloadRead
  <2>1. ASSUME NEW f \in inflight, TouchesStaging(f.acc) PROVE FALSE
    <3>1. f.sub <= ticket /\ ticket <= completed
      BY <1>14, <2>1 DEF DownloadRead, StagingInv
    <3> QED BY <1>q, <1>i, <3>1
  <2>2. hostRaces' = hostRaces
    <3>1. ~\E f \in inflight : Writes(Staging) \in f.acc
      BY <2>1 DEF TouchesStaging, Writes
    <3>2. hostRaces' = (hostRaces \/ \E f \in inflight : Writes(Staging) \in f.acc)
      BY <1>14 DEF DownloadRead
    <3> QED BY <1>i, <3>1, <3>2, Zenon
  <2>3. Cover' = Cover
    BY <1>14 DEF DownloadRead, EndJob
  <2>4. openAcc' = openAcc /\ inflight' = inflight /\ job' \in {"none", "download"}
    BY <1>14 DEF DownloadRead, EndJob, Begin, recVars, gpuVars, openVars
  <2> QED BY <2>2, <2>3, <2>4, StagingKept DEF StagingInv
<1>15. CASE JobBeginReady
  <2>1. openAcc' = {} /\ Cover' = Cover /\ UNCHANGED <<inflight, hostRaces>>
    BY <1>15 DEF JobBeginReady, BeginReady, jobVars, gpuVars
  <2> QED BY <2>1, StagingKept DEF TouchesStaging
<1>16. CASE Gpu
  BY <1>16, StagingKept DEF Gpu, GpuFinish, jobVars, openVars, StagingInv
<1>17. CASE Allocate \/ Stats \/ Synchronize \/ \E r \in live : Drop(r)
  BY <1>17, StagingKept DEF Allocate, Stats, Synchronize, Drop, recVars, jobVars, StagingInv
<1>18. ASSUME NEW P \in SUBSET live, ComputeStart(P) \/ CopyStart(P) PROVE StagingInv'
  <2>1. openAcc' = {} /\ Cover' = Cover /\ UNCHANGED <<inflight, hostRaces>>
    BY <1>i, <1>18 DEF ComputeStart, CopyStart, StartJob, Begin, gpuVars, openVars, Clean
  <2> QED BY <2>1, StagingKept DEF TouchesStaging
<1>19. ASSUME NEW r \in live, NEW n \in 1 .. MaxChunks, UploadStart(r, n) \/ DownloadStart(r, n)
       PROVE  StagingInv'
  <2>1. openAcc' = {} /\ Cover' = Cover /\ UNCHANGED <<inflight, hostRaces>>
    BY <1>i, <1>19 DEF UploadStart, DownloadStart, StartJob, Begin, recVars, gpuVars, openVars, Clean
  <2> QED BY <2>1, StagingKept DEF TouchesStaging
<1>20. CASE UNCHANGED vars
  BY <1>20, StagingKept DEF vars, recVars, jobVars, StagingInv
<1> QED
  BY <1>1, <1>2, <1>3, <1>4, <1>5, <1>6, <1>7, <1>8, <1>9, <1>10, <1>11, <1>12, <1>13, <1>14,
     <1>15, <1>16, <1>17, <1>18, <1>19, <1>20
     DEF Next, HostStep, HostCompute, HostTransfer, HostCall

\* Host and GPU never use the staging memory at once (staging_ticket_,
\* vk_command.h:386) as long as every wait ends within its 30 seconds.
THEOREM StagingNeverShared == ~WaitsMayTimeOut => (SafeSpec => []StagingSafe)
<1> SUFFICES ASSUME ~WaitsMayTimeOut PROVE SafeSpec => []StagingSafe
  OBVIOUS
<1>1. Init => StagingInv
  BY DEF Init, RecInit, StagingInv, TouchesStaging
<1>2. BackendInv /\ StagingInv /\ [Next]_vars => StagingInv'
  BY StagingStep
<1>3. StagingInv => StagingSafe
  BY DEF StagingInv, StagingSafe
<1> QED BY <1>1, <1>2, <1>3, BackendInvariant, PTL DEF SafeSpec
=============================================================================
