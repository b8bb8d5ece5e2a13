------------------------------- MODULE Training -------------------------------
(* train(), evaluate() and attribute_steps() of examples/mnist/train.py and     *)
(* examples/cifar100/train.py: the epochs, the PyTorch twin that is fed the     *)
(* same batches, the evaluations, and the two files a run leaves behind - the   *)
(* weights and the summary.  A run may raise or be killed at any point; the     *)
(* next run starts from nothing and finds the files.                            *)
EXTENDS Naturals, Sequences

CONSTANTS
  Batches,      \* the batches of an epoch (drop_last: all of one size)
  Epochs,       \* the values of --epochs tried
  AttributeValues,\* the values of --attribute tried, 0 for a training run
  WarmUp, Rounds,   \* attribute_steps: steps thrown away, rounds measured
  MaxRuns       \* bound: the runs of the script
ASSUME TrainingAssumption == {Batches, WarmUp, Rounds, MaxRuns} \cup AttributeValues \subseteq Nat

VARIABLES
  args,         \* the arguments of the run
  tpc,          \* where the run is
  epochNo, stepNo, batchNo,     \* the loop counters; batchNo counts within the epoch
  grads,        \* the batches accumulated in vkml's gradients
  vk, torch,    \* the updates both models have had: each the batches it is from
  mode,         \* model.training
  history,      \* per epoch: the model evaluated on the test and the train set
  final,        \* the model of the last evaluation
  weights, summary,     \* the files
  taken,        \* attribute_steps: batches taken
  runs
trVars == <<args, tpc, epochNo, stepNo, batchNo, grads, vk, torch, mode, history, final, weights,
            summary, taken, runs>>
Loop == <<epochNo, stepNo, batchNo>>
Models == <<grads, vk, torch, mode>>
Files == <<weights, summary>>

NoFile == [run |-> 0, model |-> <<>>, accuracyOf |-> <<>>]
(* main(): --augment switches the comparison off. *)
Arguments == {a \in [epochs : Epochs, compare : BOOLEAN, augment : BOOLEAN, attribute : AttributeValues] :
                a.augment => ~a.compare}
Begun(a) ==
  /\ args' = a /\ tpc' = IF a.attribute > 0 THEN "attribute" ELSE "epoch"
  /\ epochNo' = 0 /\ stepNo' = 0 /\ batchNo' = 0
  /\ grads' = {} /\ vk' = <<>> /\ torch' = <<>> /\ mode' = "train"
  /\ history' = <<>> /\ final' = <<>> /\ taken' = 0
TrInit ==
  /\ args = CHOOSE a \in Arguments : TRUE
  /\ tpc = "over"
  /\ epochNo = 0 /\ stepNo = 0 /\ batchNo = 0
  /\ grads = {} /\ vk = <<>> /\ torch = <<>> /\ mode = "train"
  /\ history = <<>> /\ final = <<>> /\ taken = 0
  /\ weights = NoFile /\ summary = NoFile /\ runs = 0

(* The setup of train(): both models start from one state dict, the model is    *)
(* moved before the optimiser captures its parameters.                          *)
StartTraining ==
  /\ tpc = "over" /\ runs < MaxRuns /\ runs' = runs + 1
  /\ \E a \in Arguments : Begun(a)
  /\ UNCHANGED Files

(* for epoch in range(args.epochs): the loader's iterator, to its end. *)
Epoch ==
  /\ tpc = "epoch"
  /\ IF epochNo < args.epochs
     THEN tpc' = "batch" /\ batchNo' = 0
     ELSE tpc' = "final" /\ UNCHANGED batchNo
  /\ UNCHANGED <<args, epochNo, stepNo, Models, history, final, Files, taken, runs>>
NextBatch ==
  /\ tpc = "batch"
  /\ IF batchNo < Batches
     THEN tpc' = "zero" /\ batchNo' = batchNo + 1
     ELSE tpc' = "test" /\ UNCHANGED batchNo
  /\ UNCHANGED <<args, epochNo, stepNo, Models, history, final, Files, taken, runs>>

GradsKept == grads
Zeroed == {}
(* One step: zero_grad, forward and backward, the optimiser, then the twin on   *)
(* the same array.                                                              *)
ZeroGrads ==
  /\ tpc = "zero" /\ tpc' = "backward" /\ grads' = Zeroed
  /\ UNCHANGED <<args, Loop, vk, torch, mode, history, final, Files, taken, runs>>
ThisBatch == <<epochNo, batchNo, mode>>
BackwardPass ==
  /\ tpc = "backward" /\ tpc' = "step" /\ grads' = grads \cup {ThisBatch}
  /\ UNCHANGED <<args, Loop, vk, torch, mode, history, final, Files, taken, runs>>
OptimiserStep ==
  /\ tpc = "step" /\ tpc' = "twin" /\ vk' = Append(vk, grads)
  /\ UNCHANGED <<args, Loop, grads, torch, mode, history, final, Files, taken, runs>>
TwinStep ==
  /\ tpc = "twin" /\ tpc' = "batch" /\ stepNo' = stepNo + 1
  /\ torch' = IF args.compare THEN Append(torch, {ThisBatch}) ELSE torch
  /\ UNCHANGED <<args, epochNo, batchNo, grads, vk, mode, history, final, Files, taken, runs>>

(* evaluate(): eval mode inside, train mode after; nothing is updated. *)
EvalMode(at) == tpc = at /\ mode = "train" /\ mode' = "eval"
ModeLeftAlone == mode
ModeAfterEvaluate == "train"
Scored(next) == mode = "eval" /\ mode' = ModeAfterEvaluate /\ tpc' = next
EvaluateTest ==
  \/ /\ EvalMode("test") /\ UNCHANGED <<tpc, history>>
     /\ UNCHANGED <<args, Loop, grads, vk, torch, final, Files, taken, runs>>
  \/ /\ tpc = "test" /\ Scored("train") /\ history' = Append(history, [test |-> vk, train |-> <<>>])
     /\ UNCHANGED <<args, Loop, grads, vk, torch, final, Files, taken, runs>>
EvaluateTrain ==
  \/ /\ EvalMode("train") /\ UNCHANGED <<tpc, history, epochNo>>
     /\ UNCHANGED <<args, stepNo, batchNo, grads, vk, torch, final, Files, taken, runs>>
  \/ /\ tpc = "train" /\ Scored("epoch")
     /\ history' = [history EXCEPT ![Len(history)].train = vk] /\ epochNo' = epochNo + 1
     /\ UNCHANGED <<args, stepNo, batchNo, grads, vk, torch, final, Files, taken, runs>>
FinalSkipped ==
  /\ tpc = "final" /\ tpc' = "save" /\ final' = IF history = <<>> THEN <<>> ELSE history[1].test
  /\ UNCHANGED <<args, Loop, Models, history, Files, taken, runs>>
EvaluateFinal ==
  \/ /\ EvalMode("final") /\ UNCHANGED <<tpc, final>>
     /\ UNCHANGED <<args, Loop, grads, vk, torch, history, Files, taken, runs>>
  \/ /\ tpc = "final" /\ Scored("save") /\ final' = vk
     /\ UNCHANGED <<args, Loop, grads, vk, torch, history, Files, taken, runs>>

(* save_module() is atomic (Checkpoint); the summary is written after it, and   *)
(* not at all when there was no epoch: history["train_accuracy"][-1].           *)
SaveWeights ==
  /\ tpc = "save" /\ tpc' = "summary"
  /\ weights' = [run |-> runs, model |-> vk, accuracyOf |-> final]
  /\ UNCHANGED <<args, Loop, Models, history, final, summary, taken, runs>>
WriteSummary ==
  /\ tpc = "summary"
  /\ IF history = <<>>
     THEN tpc' = "over" /\ UNCHANGED summary
     ELSE tpc' = "returned" /\ summary' = [run |-> runs, model |-> vk, accuracyOf |-> final]
  /\ UNCHANGED <<args, Loop, Models, history, final, weights, taken, runs>>
Report ==
  /\ tpc = "returned" /\ tpc' = "over"
  /\ UNCHANGED <<args, Loop, Models, history, final, Files, taken, runs>>

(* attribute_steps(): warm-up and rounds share one pass over the loader; the    *)
(* pass ending is a StopIteration that nothing catches.                         *)
AttributeSteps ==
  /\ tpc = "attribute"
  /\ IF taken = WarmUp + Rounds * args.attribute \/ taken = Batches
     THEN tpc' = "over" /\ UNCHANGED <<taken, vk>>
     ELSE taken' = taken + 1 /\ vk' = Append(vk, {<<0, taken + 1, mode>>}) /\ UNCHANGED tpc
  /\ UNCHANGED <<args, Loop, grads, torch, mode, history, final, Files, runs>>

(* An exception, an interrupt or a kill ends the script. *)
Abort ==
  /\ tpc # "over" /\ tpc' = "over"
  /\ UNCHANGED <<args, Loop, Models, history, final, Files, taken, runs>>

TrNext ==
  \/ StartTraining \/ Epoch \/ NextBatch \/ ZeroGrads \/ BackwardPass \/ OptimiserStep \/ TwinStep
  \/ EvaluateTest \/ EvaluateTrain \/ EvaluateFinal \/ SaveWeights \/ WriteSummary \/ Report
  \/ AttributeSteps \/ Abort
TrSpec == TrInit /\ [][TrNext]_trVars

(* "there is only one set of bytes, so the two runs cannot silently see         *)
(* different rows": every update comes from the gradient of one batch in        *)
(* training mode, epoch by epoch in the loader's order, and the PyTorch twin,   *)
(* where there is one, has had the same updates.                                *)
TwinsInStep ==
  /\ \A k \in 1..Len(vk) : vk[k] =
       {<<IF args.attribute > 0 THEN 0 ELSE (k - 1) \div Batches,
          IF args.attribute > 0 THEN k ELSE 1 + ((k - 1) % Batches), "train">>}
  /\ args.compare /\ args.attribute = 0 /\ tpc \notin {"twin", "over"} => torch = vk

(* What a run reports is about the model it saved: an epoch's two accuracies    *)
(* are of the model after exactly the epochs so far, the accuracy in the        *)
(* checkpoint is of the weights in it, and a summary that is older than the     *)
(* weights beside it means that the run which wrote the weights never returned. *)
ReportDescribesWeights ==
  /\ \A e \in 1..Len(history) :
       /\ Len(history[e].test) = e * Batches
       /\ tpc # "over" /\ ~(tpc = "train" /\ e = Len(history)) => history[e].train = history[e].test
  /\ weights.accuracyOf = weights.model /\ summary.accuracyOf = summary.model
  /\ tpc = "returned" => weights = summary /\ summary.run = runs /\ Len(weights.model) = stepNo
  /\ summary.run <= weights.run

(* What a training run says of itself is true: both parts above, over runs that *)
(* raise, are interrupted and follow one another.                               *)
RunHonest == TwinsInStep /\ ReportDescribesWeights
================================================================================
