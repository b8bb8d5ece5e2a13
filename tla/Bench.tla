---------------------------------- MODULE Bench ----------------------------------
(* bench/gpu_bench.py and bench/latency_bench.py: which submission's timestamps *)
(* a case reads, and the comparison with a recorded baseline.  A realize()      *)
(* returns when its work is queued; timestamps are read back when a recording   *)
(* begins or the caller waits, and vulkan_last_profile() gives the newest read. *)
EXTENDS Integers, Sequences, FiniteSetsExt

CONSTANTS
  Suites,       \* [tool -> <<[name, kernel, waits]>>]: the cases, and whether fn() reads its result
  Revisions,    \* what the kernels may cost: [kernel -> [time, registers]]
  Floors,       \* run-to-run spreads --runs may find, in percent
  Ring,         \* the recorder's ring
  WarmUps, Reps,    \* bounds: warm-up submissions and timed repetitions of a case
  MaxBenches    \* bound: benchmark runs
Machines == {"this", "other"}
Warm == "warm"
KernelNames == UNION {DOMAIN k : k \in Revisions}
Benchmark == [name : STRING, kernel : KernelNames, waits : BOOLEAN]
ASSUME BenchAssumption ==
  /\ Revisions \subseteq [KernelNames -> [time : Nat, registers : Nat]] /\ Warm \notin KernelNames
  /\ Suites \in [{"gpu_bench", "latency_bench"} -> Seq(Benchmark) \ {<<>>}]
  /\ Floors \cup {WarmUps, Reps, MaxBenches} \subseteq Nat
Threshold == 15
NoiseSigma == 3

VARIABLES
  kernels, machine, \* the code's kernels, and the GPU under it
  tool, bpc, case, turn,    \* the run: its tool, where it is, the case and the repetition
  queue, finished,  \* this process: [kernel, of, timed] of every submission, and how many are done
  lastRead,     \* the submission vulkan_last_profile() shows, 0 for none
  times,        \* [case -> the submissions whose time it took]
  prior,        \* the recorded baseline: [machine, times, floor, registers, kernels]
  warnings, benches
beVars == <<kernels, machine, tool, bpc, case, turn, queue, finished, lastRead, times, prior, warnings, benches>>
Process == <<queue, finished, lastRead, times>>

NoPrior == [machine |-> "none"]
BeInit ==
  /\ kernels \in Revisions /\ machine = "this"
  /\ tool = "gpu_bench" /\ bpc = "idle" /\ case = 0 /\ turn = 0
  /\ queue = <<>> /\ finished = 0 /\ lastRead = 0 /\ times = <<>>
  /\ prior = NoPrior /\ warnings = {} /\ benches = 0

(* Between runs the code or the machine changes. *)
Rewrite(k) ==
  /\ bpc = "idle" /\ kernels # k /\ kernels' = k /\ warnings' = {} /\ times' = <<>>
  /\ UNCHANGED <<machine, tool, bpc, case, turn, queue, finished, lastRead, prior, benches>>
MoveToMachine(m) ==
  /\ bpc = "idle" /\ machine # m /\ machine' = m /\ warnings' = {} /\ times' = <<>>
  /\ UNCHANGED <<kernels, tool, bpc, case, turn, queue, finished, lastRead, prior, benches>>

Suite == Suites[tool]
StartBench(t) ==
  /\ bpc = "idle" /\ benches < MaxBenches /\ benches' = benches + 1
  /\ tool' = t /\ bpc' = "submit" /\ case' = 1 /\ turn' = 1
  /\ queue' = <<>> /\ finished' = 0 /\ lastRead' = 0 /\ warnings' = {}
  /\ times' = [c \in DOMAIN Suites[t] |-> {}]
  /\ UNCHANGED <<kernels, machine, prior>>

(* begin() reads back what has finished, and blocks when the ring is full.      *)
NewestTimed(upTo) == Max({0} \cup {i \in 1..upTo : queue[i].timed})
(* One submission of measure() or measure_gpu(): the warm-up of the case, fn()  *)
(* once untimed by the clock, then fn() for every repetition.  latency_bench    *)
(* warms up before it turns profiling on, and synchronizes after every one.     *)
Warming == turn <= WarmUps
NeverWaits == FALSE
SynchronizesEach == tool = "latency_bench"
Submit ==
  /\ bpc = "submit" /\ Len(queue) - finished < Ring
  /\ lastRead' = NewestTimed(finished)
  /\ queue' = Append(queue, [kernel |-> IF Warming THEN Warm ELSE Suite[case].kernel, of |-> case,
                             timed |-> tool = "gpu_bench" \/ ~Warming])
  /\ bpc' = IF ~Warming /\ (Suite[case].waits \/ SynchronizesEach) THEN "wait"
            ELSE IF turn > WarmUps + 1 THEN "read" ELSE "submit"
  /\ turn' = IF bpc' = "submit" THEN turn + 1 ELSE turn
  /\ UNCHANGED <<kernels, machine, tool, case, finished, times, prior, warnings, benches>>
GpuFinishes ==
  /\ finished < Len(queue) /\ finished' = finished + 1
  /\ UNCHANGED <<kernels, machine, tool, bpc, case, turn, queue, lastRead, times, prior, warnings, benches>>
(* numpy() or vulkan_synchronize(). *)
Waited ==
  /\ bpc = "wait" /\ finished = Len(queue) /\ lastRead' = NewestTimed(finished)
  /\ bpc' = IF turn > WarmUps + 1 THEN "read" ELSE "submit"
  /\ turn' = IF bpc' = "submit" THEN turn + 1 ELSE turn
  /\ UNCHANGED <<kernels, machine, tool, case, queue, finished, times, prior, warnings, benches>>
(* vulkan_submit_ms(vulkan_last_profile()), and on to the next case.            *)
Read ==
  /\ bpc = "read"
  /\ times' = [times EXCEPT ![case] = @ \cup ({lastRead} \ {0})]
  /\ IF turn < WarmUps + 1 + Reps THEN turn' = turn + 1 /\ bpc' = "submit" /\ UNCHANGED case
     ELSE IF case < Len(Suite) THEN case' = case + 1 /\ turn' = 1 /\ bpc' = "submit"
     ELSE bpc' = "report" /\ UNCHANGED <<case, turn>>
  /\ UNCHANGED <<kernels, machine, tool, queue, finished, lastRead, prior, warnings, benches>>

(* gpu_min of a case; a case that read nothing has none. *)
TimeOf(i) == IF queue[i].kernel = Warm THEN 1 ELSE kernels[queue[i].kernel].time
Fastest == [c \in DOMAIN times |-> IF times[c] = {} THEN 0 ELSE Min({TimeOf(i) : i \in times[c]})]
Registers == [k \in DOMAIN kernels |-> kernels[k].registers]
(* --json, with the spread that noise_floor() found when it was asked for runs. *)
RecordBaseline(floor) ==
  /\ bpc = "report" /\ tool = "gpu_bench"
  /\ prior' = [machine |-> machine, times |-> Fastest, floor |-> floor, registers |-> Registers,
               kernels |-> kernels]
  /\ bpc' = "idle"
  /\ UNCHANGED <<kernels, machine, tool, case, turn, Process, warnings, benches>>

(* check(): nothing is compared across GPUs; a register count is exact, a time  *)
(* counts beyond the threshold and beyond the noise of its own case.            *)
Slower(now, before) ==
  /\ before > 0 /\ now > 0 /\ (now - before) * 100 > Threshold * before
  /\ ~(prior.floor > 0 /\ (now - before) * 100 <= NoiseSigma * prior.floor * before)
CompareBaseline ==
  /\ bpc = "report" /\ tool = "gpu_bench" /\ prior # NoPrior
  /\ warnings' = IF prior.machine # machine THEN {}
                 ELSE {<<"kernel", c>> : c \in {c \in DOMAIN Fastest : Slower(Fastest[c], prior.times[c])}}
                   \cup {<<"registers", k>> : k \in {k \in DOMAIN kernels : Registers[k] # prior.registers[k]}}
  /\ bpc' = "idle"
  /\ UNCHANGED <<kernels, machine, tool, case, turn, Process, prior, benches>>
ReportBench ==
  /\ bpc = "report" /\ bpc' = "idle"
  /\ UNCHANGED <<kernels, machine, tool, case, turn, Process, prior, warnings, benches>>

BeNext ==
  \/ (\E k \in Revisions : Rewrite(k)) \/ (\E m \in Machines : MoveToMachine(m))
  \/ (\E t \in DOMAIN Suites : StartBench(t)) \/ Submit \/ GpuFinishes \/ Waited \/ Read
  \/ (\E f \in Floors : RecordBaseline(f)) \/ CompareBaseline \/ ReportBench
BeSpec == BeInit /\ [][BeNext]_beVars

IsOwn(c, i) == queue[i].of = c /\ queue[i].kernel = Suite[c].kernel
(* A time is of the case it is listed under: where fn() or the tool waits for   *)
(* the work, no repetition ever takes the time of a warm-up or of another case, *)
(* whatever is still in flight; and so a warning about such a case means that   *)
(* its kernel has become slower on this machine since the baseline.             *)
AlarmMeansChange ==
  /\ \A c \in DOMAIN times : Suite[c].waits \/ tool = "latency_bench" => \A i \in times[c] : IsOwn(c, i)
  /\ \A w \in warnings : prior.machine = machine /\
       CASE w[1] = "registers" -> kernels[w[2]].registers # prior.kernels[w[2]].registers
         [] w[1] = "kernel" -> Suite[w[2]].waits =>
              kernels[Suite[w[2]].kernel].time > prior.kernels[Suite[w[2]].kernel].time
(* "Both operands stay resident and nothing is downloaded, so the kernel time   *)
(* is the whole measurement": every time is of the case's own submissions.      *)
EveryTimeIsItsOwn == \A c \in DOMAIN times : \A i \in times[c] : IsOwn(c, i)
================================================================================
