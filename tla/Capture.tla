-------------------------------- MODULE Capture --------------------------------
(* Cost attribution: capture of python/vkml/attribution.py over the recorder's  *)
(* profiler (vk_command.cpp: the timestamps pending in each ring slot, what a   *)
(* wait resolves of them and the history window) and the decision window        *)
(* (decisions.cpp).  A submission is its number.                                *)
EXTENDS Integers, Sequences, FiniteSetsExt, SequencesExt

CONSTANTS
  Slots,            \* the recorder's ring
  HistoryLimits,    \* capture(submissions=...)
  MaxWork,          \* bound: submissions and aborted recordings
  MaxCaptures,      \* bound: captures
  Ticks             \* bound: the GPU's clock within one submission
ASSUME CaptureAssumption == Slots \in Nat \ {0} /\ HistoryLimits \subseteq Nat \ {0} /\ Ticks \in Nat

VARIABLES
  profiling, limit, profiled, resolvedCount,    \* profiling_, history_limit_, history_, history_resolved_
  ring,         \* [0..Slots-1 -> [value, pending, resolved]]
  current,      \* current_
  submitted, completed,     \* the timeline: submitted and reached
  dispatched,     \* the submissions with a dispatch in them
  works,        \* recordings begun, for the bound
  recordingOn, decided,     \* the decision window: the submissions it holds decisions of
  window,       \* the capture that is open, or Closed
  captured,     \* what the last capture recorded, with what it should have
  captures,
  intervals, costs      \* report(): the timestamps of one submission and its attribution
capVars == <<profiling, limit, profiled, resolvedCount, ring, current, submitted, completed, dispatched,
             works, recordingOn, decided, window, captured, captures, intervals, costs>>
Profiler == <<profiling, limit, profiled, resolvedCount>>
Timeline == <<ring, current, submitted, completed, dispatched, works>>
Window == <<window, captured, captures>>
Tables == <<intervals, costs>>

Closed == [open |-> FALSE]
NothingCaptured == [records |-> <<>>]
NoCosts == [union |-> 0, shares |-> <<>>]
CapInit ==
  /\ profiling = FALSE /\ limit = 0 /\ profiled = <<>> /\ resolvedCount = 0
  /\ ring = [s \in 0..(Slots - 1) |-> [value |-> 0, pending |-> FALSE, resolved |-> TRUE]]
  /\ current = 0 /\ submitted = 0 /\ completed = 0 /\ dispatched = {} /\ works = 0
  /\ recordingOn = FALSE /\ decided = {}
  /\ window = Closed /\ captured = NothingCaptured /\ captures = 0
  /\ intervals = <<>> /\ costs = NoCosts

(* A set as a list: each element after those whose rank is below its own.       *)
InOrder(S, rank) ==
  [n \in 1..Cardinality(S) |-> CHOOSE x \in S : Cardinality({y \in S : rank[y] < rank[x]}) = n - 1]

(* resolve_completed(): the finished slots, the oldest submission first.        *)
ByPosition(ready) == InOrder(ready, [s \in ready |-> s])
OldestFirst(ready) == InOrder(ready, [s \in ready |-> ring[s].value])
Ready == {s \in DOMAIN ring : ~ring[s].resolved /\ ring[s].value <= completed}
Timed == {s \in Ready : profiling /\ ring[s].pending}
(* resolve_slot() reads the timestamps back; without profiling every slot is    *)
(* only marked.                                                                 *)
Resolved(s) ==
  IF ~profiling \/ s \in Ready THEN [ring[s] EXCEPT !.resolved = TRUE, !.pending = FALSE] ELSE ring[s]
(* retain(): the window forgets its oldest submissions. *)
LastOf(list, n) == IF Len(list) > n THEN SubSeq(list, Len(list) - n + 1, Len(list)) ELSE list
Offered == [i \in 1..Cardinality(Timed) |-> ring[OldestFirst(Timed)[i]].value]
History == IF limit = 0 THEN <<>> ELSE LastOf(profiled \o Offered, limit)
Count == IF limit = 0 THEN 0 ELSE resolvedCount + Len(Offered)

(* begin(), the commands and submit() of one call of the backend: a compute     *)
(* call has dispatches to time and publishes a decision, a copy has neither.    *)
(* An aborted recording leaves its pending entries in a slot that is resolved.  *)
NextSlot == (current + 1) % Slots
Work(dispatches, aborted) ==
  /\ works < MaxWork /\ works' = works + 1
  /\ ring[NextSlot].value <= completed /\ current' = NextSlot
  /\ profiled' = History /\ resolvedCount' = Count
  /\ ring' = [s \in DOMAIN ring |->
        CASE s # NextSlot -> Resolved(s)
          [] s = NextSlot /\ aborted -> [Resolved(s) EXCEPT !.pending = profiling /\ dispatches]
          [] OTHER -> [value |-> submitted + 1, pending |-> profiling /\ dispatches,
                       resolved |-> ~(profiling /\ dispatches)]]
  /\ submitted' = IF aborted THEN submitted ELSE submitted + 1
  /\ dispatched' = IF dispatches /\ ~aborted THEN dispatched \cup {submitted + 1} ELSE dispatched
  /\ decided' = IF recordingOn /\ dispatches THEN decided \cup {submitted + 1} ELSE decided
  /\ UNCHANGED <<profiling, limit, completed, recordingOn, Window, Tables>>
GpuDone ==
  /\ completed < submitted /\ completed' = completed + 1
  /\ UNCHANGED <<Profiler, ring, current, submitted, dispatched, works, recordingOn, decided, Window, Tables>>
(* A result is read: wait() for its submission. *)
ReadBack ==
  /\ completed > 0
  /\ profiled' = History /\ resolvedCount' = Count
  /\ ring' = [s \in DOMAIN ring |-> Resolved(s)]
  /\ UNCHANGED <<profiling, limit, current, submitted, completed, dispatched, works, recordingOn, decided,
                 Window, Tables>>

(* vulkan_set_profiling() of a caller that measures by itself. *)
SetProfiling(on) ==
  /\ ~window.open /\ profiling # on /\ profiling' = on
  /\ UNCHANGED <<limit, profiled, resolvedCount, Timeline, recordingOn, decided, Window, Tables>>

(* capture.__enter__: the window opens without waiting for what is in flight.   *)
InFlight == {ring[s].value : s \in {s \in DOMAIN ring : ~ring[s].resolved /\ ring[s].pending}}
Enter(n) ==
  /\ ~window.open /\ captures < MaxCaptures /\ captures' = captures + 1
  /\ profiling' = TRUE
  /\ limit' = n /\ profiled' = <<>> /\ resolvedCount' = 0
  /\ recordingOn' = TRUE /\ decided' = {}
  /\ window' = [open |-> TRUE, made |-> submitted, before |-> InFlight, profiling |-> profiling]
  /\ UNCHANGED <<Timeline, captured, Tables>>

(* __exit__: synchronize, take the counters and the lists, and stop what        *)
(* __enter__ started but for the profiling.  The step's own exception goes on.  *)
SynchronizeSkipped == TRUE
Synchronized == completed = submitted
Exit ==
  /\ window.open /\ Synchronized
  /\ captured' = [records |-> History, resolved |-> Count, made |-> submitted - window.made,
                  decisions |-> decided,
                  since |-> window.made, before |-> window.before, limit |-> limit]
  /\ ring' = [s \in DOMAIN ring |-> Resolved(s)]
  /\ window' = Closed
  /\ limit' = 0 /\ profiled' = <<>> /\ resolvedCount' = 0
  /\ recordingOn' = FALSE /\ decided' = {}
  /\ UNCHANGED <<profiling, current, submitted, completed, dispatched, works, captures, Tables>>
(* synchronize throws: retention and the decision window stay on. *)
ExitRaises ==
  /\ window.open /\ window' = Closed
  /\ UNCHANGED <<Profiler, Timeline, recordingOn, decided, captured, captures, Tables>>

(* report(): the intervals of one submission's dispatches, as the GPU timed     *)
(* them, and their attribution.                                                 *)
Kernels == {"matmul", "add"}
Intervals == {i \in [start : 0..Ticks, end : 0..Ticks, key : Kernels] : i.start <= i.end}

(* union_ms(): intervals in order of their start, merged while they touch.      *)
ByStart(ivs) ==
  InOrder(DOMAIN ivs, [i \in DOMAIN ivs |-> (ivs[i].start * (Ticks + 1) + ivs[i].end) * (Len(ivs) + 1) + i])
Merge(acc, i) ==
  IF i.start <= acc.end THEN [acc EXCEPT !.end = IF i.end > @ THEN i.end ELSE @]
  ELSE [total |-> acc.total + acc.end - acc.start, start |-> i.start, end |-> i.end]
Merged(ivs) ==
  LET sorted == ByStart(ivs)
      acc[k \in 0..Len(ivs)] ==
        IF k = 0 THEN [total |-> 0, start |-> 0, end |-> 0] ELSE Merge(acc[k - 1], ivs[sorted[k]])
  IN acc
UnionMs(ivs) ==
  LET last == Merged(ivs)[Len(ivs)] IN last.total + last.end - last.start

(* occupancy_share(): a sweep over starts and ends; each slice is split among   *)
(* the intervals live in it.  In sixths of a tick, at most three at once.       *)
EventsOf(ivs) ==
  UNION {{[at |-> ivs[i].start, d |-> 1, key |-> ivs[i].key, place |-> 2 * i],
          [at |-> ivs[i].end, d |-> -1, key |-> ivs[i].key, place |-> 2 * i + 1]} :
         i \in {i \in DOMAIN ivs : ivs[i].end > ivs[i].start}}
Events(ivs) ==
  InOrder(EventsOf(ivs), [e \in EventsOf(ivs) |-> e.at * (2 * Len(ivs) + 2) + e.place])
Total(f) == f["matmul"] + f["add"]
WholeSliceEach(slice, live) == [k \in Kernels |-> 6 * slice * live[k]]
Split(slice, live) == [k \in Kernels |-> (6 * slice * live[k]) \div Total(live)]
Sweep(acc, e) ==
  [shares |-> IF Total(acc.live) > 0 /\ e.at > acc.previous
              THEN [k \in Kernels |-> acc.shares[k] + Split(e.at - acc.previous, acc.live)[k]]
              ELSE acc.shares,
   live |-> [acc.live EXCEPT ![e.key] = @ + e.d], previous |-> e.at]
Swept(ivs) ==
  LET none == [k \in Kernels |-> 0]
      sorted == Events(ivs)
      acc[k \in 0..Len(sorted)] ==
        IF k = 0 THEN [shares |-> none, live |-> none, previous |-> 0] ELSE Sweep(acc[k - 1], sorted[k])
  IN acc
OccupancyShare(ivs) == Swept(ivs)[Len(Events(ivs))].shares

(* attribute() is pure: it also takes records some earlier process has kept.    *)
Attribute(ivs) ==
  /\ intervals' = ivs
  /\ costs' = [union |-> UnionMs(ivs), shares |-> OccupancyShare(ivs)]
  /\ UNCHANGED <<Profiler, Timeline, recordingOn, decided, Window>>

CapNext ==
  \/ /\ intervals = <<>> /\ works = 0 /\ captures = 0
     /\ \E ivs \in SeqOf(Intervals, 3) \ {<<>>} : Attribute(ivs)
  \/ /\ intervals = <<>>
     /\ \/ \E dispatches, aborted \in BOOLEAN : (aborted => dispatches) /\ Work(dispatches, aborted)
        \/ GpuDone \/ ReadBack
        \/ \E on \in BOOLEAN : SetProfiling(on)
        \/ \E n \in HistoryLimits : Enter(n)
        \/ Exit \/ ExitRaises
CapSpec == CapInit /\ [][CapNext]_capVars

(* capture "Records everything one step publishes": the report is of exactly    *)
(* the compute submissions of its block, the most recent ones in the order they *)
(* ran, counted in full, with a decision only of dispatches in the block -      *)
(* whatever order they finished and were waited for in, and whatever was left   *)
(* of an earlier capture.  But __enter__ waits for nothing: what was profiled   *)
(* and in flight when the block began is in the report too.                     *)
CaptureExact ==
  LET c == captured
      made == (c.since + 1)..(c.since + c.made)
      due == c.before \cup {n \in made : n \in dispatched}
  IN captured # NothingCaptured =>
       /\ c.records = LastOf(InOrder(due, [n \in due |-> n]), c.limit)
       /\ c.resolved = Cardinality(due)
       /\ \A n \in c.decisions : n > c.since
       /\ made \cap dispatched \subseteq c.decisions

(* "the shares sum to union_ms exactly, so a table built from them accounts for *)
(* all the time and none of it twice": union_ms() is the ticks with a dispatch  *)
(* running, the kernels' shares add up to it, and a kernel that runs alone gets *)
(* its whole time.                                                              *)
SharesAddUp ==
  intervals # <<>> =>
    LET running(at) == {i \in 1..Len(intervals) : intervals[i].start <= at /\ at < intervals[i].end}
        busy == {at \in 0..Ticks : running(at) # {}}
    IN /\ costs.union = Cardinality(busy)
       /\ Total(costs.shares) = 6 * costs.union
       /\ \A k \in Kernels :
            costs.shares[k] >= 6 * Cardinality({at \in busy : \A i \in running(at) : intervals[i].key = k})

(* What a capture reports: the submissions it should, and shares of their time  *)
(* that add up.                                                                 *)
CaptureHonest == CaptureExact /\ SharesAddUp
================================================================================
