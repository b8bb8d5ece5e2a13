------------------------------ MODULE Recorder ------------------------------
(***************************************************************************)
(* The command recorder of the Vulkan backend (vk_command.cpp) and the GPU *)
(* queue it feeds.                                                         *)
(*                                                                         *)
(* Submission is asynchronous.  The recorder owns a ring of command        *)
(* buffers and one timeline semaphore; the host records into one slot      *)
(* while the GPU still executes others, and only a slot's own previous     *)
(* submission is waited for before the slot is recorded again.  The GPU    *)
(* orders two commands only across a barrier, or when the host has seen    *)
(* the first one complete before it recorded the second.                   *)
(*                                                                         *)
(* A command is abstracted to the memory ranges it accesses.               *)
(***************************************************************************)
EXTENDS Integers, FiniteSets

CONSTANTS
  RingSize,        \* kRingSize: command buffers in the ring
  Ranges,          \* memory ranges a command can access
  MaxSubmissions   \* bound on the timeline, for model checking

ASSUME RingSizeAssumption == RingSize \in Nat \ {0}
ASSUME BoundAssumption == MaxSubmissions \in Nat

Slots  == 0 .. RingSize - 1
Access == [range : Ranges, write : BOOLEAN]

VARIABLES
  slotValue,    \* [Slots -> Nat]: Slot::value, the last submission of each slot
  current,      \* current_: the slot being recorded, or recorded last
  phase,        \* "idle", "waiting" (inside begin()'s wait) or "recording"
  outstanding,  \* begin()'s anything_outstanding, polled before its wait
  timeline,     \* timeline_value_: submissions made so far
  completed,    \* the semaphore's counter: submissions the GPU has finished
  inflight,     \* unfinished submissions: their number, slot and accesses
  tail,         \* accesses of unfinished submissions that no barrier follows
  openAcc,      \* accesses of the open recording
  openTail,     \* the ones recorded since its last barrier
  fenced,       \* the open recording holds a barrier
  races         \* ranges on which two unordered commands conflicted

recVars == <<slotValue, current, phase, outstanding, timeline, completed,
             inflight, tail, openAcc, openTail, fenced, races>>

openVars == <<openAcc, openTail, fenced>>
gpuVars  == <<completed, inflight, tail>>

-----------------------------------------------------------------------------
Conflict(a, b) == a.range = b.range /\ (a.write \/ b.write)

\* Accesses that nothing orders before the next recorded command.
Unordered ==
  openTail \cup IF fenced THEN {}
                ELSE {[range |-> t.range, write |-> t.write] : t \in tail}

\* completed_value(): the counter, or 0 when the driver's query fails.
Poll == {0, completed}

\* begin()'s anything_outstanding, from the polled counter.
NeverOutstanding(polled) == FALSE
WorkOutstanding(polled) == polled < timeline

\* begin()'s wait for the slot's own previous submission is over.
SlotNotAwaited == TRUE
SlotFree == slotValue[current] <= completed

\* The value a slot's next begin() waits for.
TicketOfTheNext == timeline + 2
SlotTicket == timeline + 1

RecInit ==
  /\ slotValue = [s \in Slots |-> 0]
  /\ current = 0
  /\ phase = "idle"
  /\ outstanding = FALSE
  /\ timeline = 0
  /\ completed = 0
  /\ inflight = {}
  /\ tail = {}
  /\ openAcc = {}
  /\ openTail = {}
  /\ fenced = FALSE
  /\ races = {}

-----------------------------------------------------------------------------
\* begin(), up to its wait: take the next slot and look whether anything is
\* still running.
Begin ==
  /\ phase = "idle"
  /\ current' = (current + 1) % RingSize
  /\ \E polled \in Poll : outstanding' = WorkOutstanding(polled)
  /\ phase' = "waiting"
  /\ UNCHANGED <<slotValue, timeline, gpuVars, openVars, races>>

\* begin(), after its wait: reset the command buffer, and order everything
\* recorded from here after the earlier submissions if the poll saw any.
BeginReady ==
  /\ phase = "waiting"
  /\ SlotFree
  /\ phase' = "recording"
  /\ openAcc' = {}
  /\ openTail' = {}
  /\ fenced' = outstanding
  /\ UNCHANGED <<slotValue, current, outstanding, timeline, gpuVars, races>>

\* begin()'s wait gives up after 30 seconds and throws: the slot has been
\* taken from the ring, nothing is recorded.
BeginTimeout ==
  /\ phase = "waiting"
  /\ ~SlotFree
  /\ phase' = "idle"
  /\ UNCHANGED <<slotValue, current, outstanding, timeline, gpuVars, openVars, races>>

\* dispatch(), dispatch_groups() or copy(): one command with accesses A.
Record(A) ==
  /\ phase = "recording"
  /\ openAcc' = openAcc \cup A
  /\ openTail' = openTail \cup A
  /\ races' = races \cup {a.range : a \in {x \in A : \E p \in Unordered : Conflict(x, p)}}
  /\ UNCHANGED <<slotValue, current, phase, outstanding, timeline, gpuVars, fenced>>

\* barrier(): one global memory barrier, ordering all earlier commands of the
\* queue before all later ones.
Barrier ==
  /\ phase = "recording"
  /\ openTail' = {}
  /\ fenced' = TRUE
  /\ UNCHANGED <<slotValue, current, phase, outstanding, timeline, gpuVars, openAcc, races>>

\* submit(): hand the buffer to the queue without waiting for it.
Submit ==
  /\ phase = "recording"
  /\ timeline < MaxSubmissions
  /\ timeline' = timeline + 1
  /\ slotValue' = [slotValue EXCEPT ![current] = SlotTicket]
  /\ phase' = "idle"
  /\ inflight' = inflight \cup {[sub |-> timeline + 1, slot |-> current, acc |-> openAcc]}
  /\ tail' = (IF fenced THEN {} ELSE tail)
               \cup {[sub |-> timeline + 1, range |-> a.range, write |-> a.write] : a \in openTail}
  /\ openAcc' = {}
  /\ openTail' = {}
  /\ fenced' = FALSE
  /\ UNCHANGED <<current, outstanding, completed, races>>

\* abort_recording(), or a vkQueueSubmit2 that fails: the recording is dropped
\* with its barriers; the slot keeps the value of its last submission.
Abandon ==
  /\ phase = "recording"
  /\ phase' = "idle"
  /\ openAcc' = {}
  /\ openTail' = {}
  /\ fenced' = FALSE
  /\ UNCHANGED <<slotValue, current, outstanding, timeline, gpuVars, races>>

\* The GPU signals the timeline semaphore, in submission order.
GpuFinish ==
  /\ completed < timeline
  /\ completed' = completed + 1
  /\ inflight' = {f \in inflight : f.sub > completed + 1}
  /\ tail' = {t \in tail : t.sub > completed + 1}
  /\ UNCHANGED <<slotValue, current, phase, outstanding, timeline, openVars, races>>

\* The recorder's contract with its callers: a command that conflicts with one
\* recorded since the last barrier of the same recording needs a barrier first.
Disciplined(A) == \A a \in A, p \in openTail : ~Conflict(a, p)

RecNext ==
  \/ Begin
  \/ BeginReady
  \/ BeginTimeout
  \/ \E A \in SUBSET Access : Disciplined(A) /\ Record(A)
  \/ Barrier
  \/ Submit
  \/ Abandon
  \/ GpuFinish

RecSafeSpec == RecInit /\ [][RecNext]_recVars

-----------------------------------------------------------------------------
\* Every variable keeps its type, and the GPU never runs ahead of the host
\* (Recorder's fields in vk_command.h).
RecTypeOK ==
  /\ slotValue \in [Slots -> 0 .. timeline]
  /\ current \in Slots
  /\ phase \in {"idle", "waiting", "recording"}
  /\ outstanding \in BOOLEAN
  /\ timeline \in Nat
  /\ completed \in 0 .. timeline
  /\ inflight \subseteq [sub : completed + 1 .. timeline, slot : Slots, acc : SUBSET Access]
  /\ tail \subseteq [sub : completed + 1 .. timeline, range : Ranges, write : BOOLEAN]
  /\ openAcc \subseteq Access
  /\ openTail \subseteq openAcc
  /\ fenced \in BOOLEAN
  /\ races \subseteq Ranges

\* A command buffer is only reset and recorded again when no unfinished
\* submission executes it (begin() waits for the slot's own value).
NoBufferReuse ==
  phase = "recording" => \A f \in inflight : f.slot # current

\* Two submissions that touch the same range, one of them writing, are always
\* ordered: by begin()'s leading barrier or because the earlier one was seen
\* complete, whatever barriers the callers themselves emit (ADR 0012 section 4b).
NoRaces == races = {}
=============================================================================
