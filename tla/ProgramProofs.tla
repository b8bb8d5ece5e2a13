---------------------------- MODULE ProgramProofs ----------------------------
(***************************************************************************)
(* Proofs about the programs around the library, for every value of their  *)
(* constants: what a training run reports is about the model it trained;   *)
(* the viewer's panes describe its canvas; the scripts that damage a tree  *)
(* leave it as they found it; the coverage ratchet loses nothing; a device *)
(* that is named is never exchanged for another; the scanners of the       *)
(* sources find what a reader would; and workflows that are green mean     *)
(* what the gates promise.                                                 *)
(***************************************************************************)
EXTENDS Training, Viewer, BuildTree, OpCoverage, Devices, Bench, Extract, Gates,
        SequenceTheorems, FiniteSetTheorems, WellFoundedInduction, TLAPS

-----------------------------------------------------------------------------
(* Training                                                                *)

Contribution == Nat \X Nat \X {"train", "eval"}
Update == SUBSET Contribution
Score == [test : Seq(Update), train : Seq(Update)]
File == [run : Nat, model : Seq(Update), accuracyOf : Seq(Update)]

TrTypeOK ==
  /\ epochNo \in Nat /\ stepNo \in Nat /\ batchNo \in Nat /\ taken \in Nat /\ runs \in Nat
  /\ grads \in Update /\ vk \in Seq(Update) /\ torch \in Seq(Update)
  /\ mode \in {"train", "eval"}
  /\ history \in Seq(Score) /\ final \in Seq(Update)
  /\ weights \in File /\ summary \in File

\* The step of an epoch in which a batch is worked on.
OnBatch == {"zero", "backward", "step", "twin"}
Ending == {"final", "save", "summary", "returned"}
Place == {"over", "attribute", "epoch", "batch", "test", "train"} \cup OnBatch \cup Ending

\* The loop counters tell how many updates the model has had.
Counted ==
  /\ tpc \in Place
  /\ tpc = "attribute" => args.attribute > 0 /\ Len(vk) = taken /\ history = <<>>
  /\ tpc \notin {"over", "attribute"} => args.attribute = 0
  /\ tpc \in {"batch"} \cup OnBatch => batchNo <= Batches
  /\ tpc \in OnBatch => batchNo > 0
  /\ tpc \in {"batch", "twin"} => Len(vk) = epochNo * Batches + batchNo
  /\ tpc \in OnBatch \ {"twin"} => Len(vk) = epochNo * Batches + batchNo - 1
  /\ tpc \in {"epoch"} \cup Ending => Len(vk) = epochNo * Batches
  /\ tpc \in {"test", "train"} => Len(vk) = (epochNo + 1) * Batches
  /\ tpc \notin {"over", "attribute", "twin"} => stepNo = Len(vk)
  /\ tpc = "twin" => stepNo = Len(vk) - 1

\* The gradient is of the batch at hand, taken in training mode, and the twin is
\* at most that one update behind.
OfThisBatch ==
  /\ tpc \notin {"over", "test", "train", "final"} => mode = "train"
  /\ tpc = "backward" => grads = {}
  /\ tpc \in {"step", "twin"} => grads = {ThisBatch}
  /\ tpc = "twin" /\ args.compare => vk = Append(torch, grads)

\* What the evaluations and the files hold.
Recorded ==
  /\ tpc \notin {"over", "attribute", "train"} => Len(history) = epochNo
  /\ tpc = "train" => Len(history) = epochNo + 1 /\ history[epochNo + 1].test = vk
  /\ tpc \in Ending \ {"final"} => final = vk
  /\ tpc \in {"summary", "returned"} => weights = [run |-> runs, model |-> vk, accuracyOf |-> final]
  /\ tpc = "returned" => summary = weights
  /\ weights.run <= runs

TrInv == TrTypeOK /\ Counted /\ OfThisBatch /\ Recorded /\ RunHonest

\* Where the k-th update of an epoch-by-epoch pass comes from.
LEMMA PassOrder ==
  ASSUME NEW e \in Nat, NEW b \in Nat, b < Batches, Batches \in Nat
  PROVE  (e * Batches + b) \div Batches = e /\ (e * Batches + b) % Batches = b
<1>1. (e * Batches + b) \div Batches = e
  OBVIOUS
<1>2. (e * Batches + b) % Batches = b
  OBVIOUS
<1> QED BY <1>1, <1>2

\* The script before its first run.
LEMMA TrInitInv == TrInit => TrInv
<1> SUFFICES ASSUME TrInit PROVE TrInv
  OBVIOUS
<1> USE DEF TrInit, NoFile
<1>1. TrTypeOK
  BY DEF TrTypeOK, Update, Contribution, Score, File
<1>2. Counted /\ OfThisBatch
  BY DEF Counted, OfThisBatch, Place, OnBatch, Ending
<1>3. Recorded
  BY DEF Recorded, OnBatch, Ending
<1>4. RunHonest
  BY DEF RunHonest, TwinsInStep, ReportDescribesWeights
<1> QED BY <1>1, <1>2, <1>3, <1>4 DEF TrInv

\* A function on the domain of a sequence is a sequence.
LEMMA SameDomain ==
  ASSUME NEW S, NEW s \in Seq(S), NEW t \in [DOMAIN s -> S] PROVE t \in Seq(S)
OBVIOUS

\* The train accuracy of the last epoch is filled in.
LEMMA TrainRecorded ==
  ASSUME history \in Seq(Score), vk \in Seq(Update)
  PROVE  [history EXCEPT ![Len(history)].train = vk] \in Seq(Score)
<1>1. \A h \in Score : [h EXCEPT !.train = vk] \in Score
  BY DEF Score
<1>2. \A i \in DOMAIN history : [history EXCEPT ![Len(history)].train = vk][i] \in Score
  BY <1>1
<1>3. DOMAIN [history EXCEPT ![Len(history)].train = vk] = 1 .. Len(history)
  OBVIOUS
<1>4. [history EXCEPT ![Len(history)].train = vk] \in [DOMAIN history -> Score]
  BY <1>2, <1>3
<1> QED BY <1>4, SameDomain

\* Every step of the script keeps the types.
LEMMA TrTypeStep == TrTypeOK /\ [TrNext]_trVars => TrTypeOK'
<1> SUFFICES ASSUME TrTypeOK, [TrNext]_trVars PROVE TrTypeOK'
  OBVIOUS
<1>e. <<>> \in Seq(Update) /\ <<>> \in Seq(Score) /\ {} \in Update
  BY DEF Update
<1>t. {ThisBatch} \in Update /\ grads \cup {ThisBatch} \in Update
  BY DEF TrTypeOK, ThisBatch, Update, Contribution
<1>a. \A s \in Seq(Update), u \in Update : Append(s, u) \in Seq(Update)
  OBVIOUS
<1> USE DEF TrTypeOK, Loop, Models, Files
<1>1. CASE StartTraining
  BY <1>1, <1>e DEF StartTraining, Begun
<1>2. CASE Epoch \/ NextBatch
  BY <1>2 DEF Epoch, NextBatch
<1>3. CASE ZeroGrads
  BY <1>3, <1>e DEF ZeroGrads, Zeroed
<1>4. CASE BackwardPass
  BY <1>4, <1>t DEF BackwardPass
<1>5. CASE OptimiserStep
  BY <1>5, <1>a DEF OptimiserStep
<1>6. CASE TwinStep
  BY <1>6, <1>t, <1>a DEF TwinStep
<1>7. CASE EvaluateTest
  <2>1. [test |-> vk, train |-> <<>>] \in Score
    BY <1>e DEF Score
  <2>2. Append(history, [test |-> vk, train |-> <<>>]) \in Seq(Score)
    BY <2>1
  <2> QED BY <1>7, <2>2 DEF EvaluateTest, EvalMode, Scored, ModeAfterEvaluate
<1>8. CASE EvaluateTrain
  <2>1. [history EXCEPT ![Len(history)].train = vk] \in Seq(Score)
    BY TrainRecorded
  <2>2. UNCHANGED history \/ history' = [history EXCEPT ![Len(history)].train = vk]
    BY <1>8 DEF EvaluateTrain
  <2>3. history' \in Seq(Score)
    BY <2>1, <2>2
  <2>4. epochNo' \in Nat /\ mode' \in {"train", "eval"}
    BY <1>8 DEF EvaluateTrain, EvalMode, Scored, ModeAfterEvaluate
  <2> QED BY <1>8, <2>3, <2>4 DEF EvaluateTrain
<1>9. CASE EvaluateFinal
  BY <1>9 DEF EvaluateFinal, EvalMode, Scored, ModeAfterEvaluate
<1>10. CASE SaveWeights \/ WriteSummary \/ Report
  <2>1. [run |-> runs, model |-> vk, accuracyOf |-> final] \in File
    BY DEF File
  <2> QED BY <1>10, <2>1 DEF SaveWeights, WriteSummary, Report
<1>11. CASE AttributeSteps
  <2>1. {<<0, taken + 1, mode>>} \in Update
    BY DEF Update, Contribution
  <2>2. Append(vk, {<<0, taken + 1, mode>>}) \in Seq(Update) /\ taken + 1 \in Nat
    BY <1>a, <2>1
  <2> QED BY <1>11, <2>2 DEF AttributeSteps
<1>12. CASE Abort \/ UNCHANGED trVars
  BY <1>12 DEF Abort, trVars
<1> QED BY <1>1, <1>2, <1>3, <1>4, <1>5, <1>6, <1>7, <1>8, <1>9, <1>10, <1>11, <1>12 DEF TrNext
\* The loop counters keep telling how many updates the model has had.
LEMMA CountedStep == TrTypeOK /\ Counted /\ Recorded /\ [TrNext]_trVars => Counted'
<1> SUFFICES ASSUME TrTypeOK, Counted, Recorded, [TrNext]_trVars PROVE Counted'
  OBVIOUS
<1>n. Batches \in Nat
  BY TrainingAssumption
<1>m. /\ epochNo * Batches \in Nat /\ (epochNo + 1) * Batches = epochNo * Batches + Batches
      /\ 0 * Batches = 0
  BY <1>n DEF TrTypeOK
<1>l. /\ Len(vk) \in Nat /\ \A u : Len(Append(vk, u)) = Len(vk) + 1
      /\ stepNo \in Nat /\ batchNo \in Nat /\ epochNo \in Nat /\ taken \in Nat
  BY DEF TrTypeOK
<1> DEFINE soFar == epochNo * Batches
           ahead == (epochNo + 1) * Batches
<1> HIDE DEF soFar, ahead
<1>b. soFar \in Nat /\ ahead = soFar + Batches /\ Batches \in Nat
  BY <1>m, <1>n DEF soFar, ahead
<1>c. Counted => /\ tpc \in {"batch", "twin"} => Len(vk) = soFar + batchNo
                 /\ tpc \in OnBatch \ {"twin"} => Len(vk) = soFar + batchNo - 1
                 /\ tpc \in {"epoch"} \cup Ending => Len(vk) = soFar
                 /\ tpc \in {"test", "train"} => Len(vk) = ahead
  BY DEF Counted, soFar, ahead
<1> USE DEF Place, OnBatch, Ending, Loop, Models, Files
<1>1. CASE StartTraining
  BY <1>1, <1>m, TrainingAssumption DEF StartTraining, Begun, Counted, Arguments
<1>2. CASE Epoch
  <2>1. CASE epochNo < args.epochs
    <3>1. tpc' = "batch" /\ batchNo' = 0 /\ UNCHANGED <<args, epochNo, stepNo, vk, history, taken>> /\ tpc = "epoch"
      BY <1>2, <2>1 DEF Epoch
    <3> QED BY <3>1, <1>m, <1>n, <1>l DEF Counted
  <2>2. CASE ~(epochNo < args.epochs)
    BY <1>2, <2>2 DEF Epoch, Counted
  <2> QED BY <2>1, <2>2
<1>3. CASE NextBatch
  BY <1>3, <1>b, <1>c, <1>l DEF NextBatch, Counted, soFar, ahead
<1>4. CASE ZeroGrads \/ BackwardPass
  BY <1>4 DEF ZeroGrads, BackwardPass, Counted
<1>5. CASE OptimiserStep
  BY <1>5, <1>b, <1>c, <1>l DEF OptimiserStep, Counted, soFar, ahead
<1>6. CASE TwinStep
  BY <1>6, <1>l DEF TwinStep, Counted
<1>7. CASE EvaluateTest
  BY <1>7 DEF EvaluateTest, EvalMode, Scored, Counted
<1>8. CASE EvaluateTrain
  BY <1>8, <1>l DEF EvaluateTrain, EvalMode, Scored, Counted
<1>9. CASE EvaluateFinal
  BY <1>9 DEF EvaluateFinal, EvalMode, Scored, Counted
<1>10. CASE SaveWeights \/ WriteSummary \/ Report
  BY <1>10 DEF SaveWeights, WriteSummary, Report, Counted
<1>11. CASE AttributeSteps
  BY <1>11, <1>l DEF AttributeSteps, Counted
<1>12. CASE Abort \/ UNCHANGED trVars
  BY <1>12 DEF Abort, trVars, Counted
<1> QED BY <1>1, <1>2, <1>3, <1>4, <1>5, <1>6, <1>7, <1>8, <1>9, <1>10, <1>11, <1>12 DEF TrNext

\* The gradient stays that of the batch at hand.
LEMMA OfThisBatchStep == TrTypeOK /\ Counted /\ OfThisBatch /\ RunHonest /\ [TrNext]_trVars => OfThisBatch'
<1> SUFFICES ASSUME TrTypeOK, Counted, OfThisBatch, RunHonest, [TrNext]_trVars PROVE OfThisBatch'
  OBVIOUS
<1> USE DEF OfThisBatch, ThisBatch, OnBatch, Ending, Loop, Models, Files
<1>1. CASE StartTraining
  BY <1>1 DEF StartTraining, Begun
<1>2. CASE Epoch \/ NextBatch \/ ZeroGrads \/ BackwardPass
  BY <1>2 DEF Epoch, NextBatch, ZeroGrads, BackwardPass, Zeroed
<1>3. CASE OptimiserStep
  <2>1. args.compare => torch = vk
    <3>1. tpc \notin {"over", "attribute"}
      BY <1>3 DEF OptimiserStep
    <3> QED BY <1>3, <3>1 DEF OptimiserStep, Counted, RunHonest, TwinsInStep
  <2> QED BY <1>3, <2>1 DEF OptimiserStep
<1>4. CASE TwinStep
  BY <1>4 DEF TwinStep
<1>5. CASE EvaluateTest \/ EvaluateTrain \/ EvaluateFinal
  BY <1>5 DEF EvaluateTest, EvaluateTrain, EvaluateFinal, EvalMode, Scored, ModeAfterEvaluate
<1>6. CASE SaveWeights \/ WriteSummary \/ Report \/ AttributeSteps
  BY <1>6 DEF SaveWeights, WriteSummary, Report, AttributeSteps
<1>7. CASE Abort \/ UNCHANGED trVars
  BY <1>7 DEF Abort, trVars
<1> QED BY <1>1, <1>2, <1>3, <1>4, <1>5, <1>6, <1>7 DEF TrNext
\* The evaluations and the files keep describing the model.
LEMMA RecordedStep == TrTypeOK /\ Counted /\ Recorded /\ [TrNext]_trVars => Recorded'
<1> SUFFICES ASSUME TrTypeOK, Counted, Recorded, [TrNext]_trVars PROVE Recorded'
  OBVIOUS
<1>r. runs \in Nat /\ weights.run \in Nat
  BY DEF TrTypeOK, File
<1> USE DEF Recorded, OnBatch, Ending, Loop, Models, Files
<1>1. CASE StartTraining
  BY <1>1, <1>r DEF StartTraining, Begun
<1>2. CASE Epoch \/ NextBatch \/ ZeroGrads \/ BackwardPass \/ OptimiserStep \/ TwinStep
  BY <1>2 DEF Epoch, NextBatch, ZeroGrads, BackwardPass, OptimiserStep, TwinStep
<1>3. CASE EvaluateTest
  <2>1. CASE tpc' = "test"
    BY <1>3, <2>1 DEF EvaluateTest, Scored
  <2>2. CASE tpc' = "train"
    <3>1. history' = Append(history, [test |-> vk, train |-> <<>>]) /\ tpc = "test"
      BY <1>3, <2>2 DEF EvaluateTest, EvalMode
    <3>2. Len(history') = epochNo + 1 /\ history'[epochNo + 1].test = vk
      BY <3>1 DEF TrTypeOK
    <3> QED BY <1>3, <2>2, <3>2 DEF EvaluateTest
  <2> QED BY <1>3, <2>1, <2>2 DEF EvaluateTest, EvalMode, Scored
<1>4. CASE EvaluateTrain
  <2>1. CASE tpc' = "train"
    BY <1>4, <2>1 DEF EvaluateTrain, Scored
  <2>2. CASE tpc' = "epoch"
    BY <1>4, <2>2 DEF EvaluateTrain, EvalMode, TrTypeOK
  <2> QED BY <1>4, <2>1, <2>2 DEF EvaluateTrain, EvalMode, Scored
<1>5. CASE EvaluateFinal
  BY <1>5 DEF EvaluateFinal, EvalMode, Scored
<1>6. CASE SaveWeights
  BY <1>6, <1>r DEF SaveWeights
<1>7. CASE WriteSummary \/ Report
  BY <1>7 DEF WriteSummary, Report
<1>8. CASE AttributeSteps
  BY <1>8 DEF AttributeSteps, Counted
<1>9. CASE Abort \/ UNCHANGED trVars
  BY <1>9 DEF Abort, trVars
<1> QED BY <1>1, <1>2, <1>3, <1>4, <1>5, <1>6, <1>7, <1>8, <1>9 DEF TrNext

\* Every update of the model, one batch after the other.
UpdatesInOrder ==
  \A k \in 1 .. Len(vk) : vk[k] =
    {<<IF args.attribute > 0 THEN 0 ELSE (k - 1) \div Batches,
       IF args.attribute > 0 THEN k ELSE 1 + ((k - 1) % Batches), "train">>}

TwinUpToDate == args.compare /\ args.attribute = 0 /\ tpc \notin {"twin", "over"} => torch = vk

\* Every step of the script keeps both models on the loader's order.
LEMMA TwinsStep ==
  TrTypeOK /\ Counted /\ OfThisBatch /\ TwinsInStep /\ [TrNext]_trVars => TwinsInStep'
<1> SUFFICES ASSUME TrTypeOK, Counted, OfThisBatch, UpdatesInOrder, TwinUpToDate, [TrNext]_trVars
             PROVE  UpdatesInOrder' /\ TwinUpToDate'
  BY DEF TwinsInStep, UpdatesInOrder, TwinUpToDate
<1> USE DEF Loop, Models, Files
<1>1. CASE StartTraining
  BY <1>1 DEF StartTraining, Begun, UpdatesInOrder, TwinUpToDate
<1>2. CASE Epoch \/ NextBatch \/ ZeroGrads \/ BackwardPass \/ SaveWeights \/ WriteSummary \/ Report
  BY <1>2 DEF Epoch, NextBatch, ZeroGrads, BackwardPass, SaveWeights, WriteSummary, Report,
              UpdatesInOrder, TwinUpToDate
<1>3. CASE OptimiserStep
  <2>1. /\ tpc = "step" /\ tpc' = "twin" /\ vk' = Append(vk, {<<epochNo, batchNo, "train">>})
        /\ args' = args /\ args.attribute = 0
        /\ Len(vk) = epochNo * Batches + batchNo - 1 /\ batchNo \in 1 .. Batches /\ epochNo \in Nat
    BY <1>3 DEF OptimiserStep, OfThisBatch, ThisBatch, Counted, OnBatch, TrTypeOK
  <2>2. /\ (epochNo * Batches + (batchNo - 1)) \div Batches = epochNo
        /\ (epochNo * Batches + (batchNo - 1)) % Batches = batchNo - 1
    <3>1. Batches \in Nat
      BY TrainingAssumption
    <3>2. batchNo - 1 \in Nat /\ batchNo - 1 < Batches
      BY <2>1, <3>1
    <3> QED BY <2>1, <3>1, <3>2, PassOrder
  <2>3. Len(vk) \div Batches = epochNo /\ 1 + (Len(vk) % Batches) = batchNo
    <3>1. epochNo * Batches + (batchNo - 1) = Len(vk)
      BY <2>1, TrainingAssumption
    <3>2. Len(vk) \div Batches = epochNo /\ Len(vk) % Batches = batchNo - 1
      BY <2>2, <3>1
    <3> QED BY <2>1, <3>2
  <2>4. Len(vk') = Len(vk) + 1 /\ vk'[Len(vk) + 1] = {<<epochNo, batchNo, "train">>}
        /\ \A k \in 1 .. Len(vk) : vk'[k] = vk[k]
    BY <2>1 DEF TrTypeOK
  <2>5. UpdatesInOrder'
    <3>1. ASSUME NEW k \in 1 .. Len(vk')
          PROVE  vk'[k] = {<<(k - 1) \div Batches, 1 + ((k - 1) % Batches), "train">>}
      <4>1. CASE k = Len(vk) + 1
        <5>1. k - 1 = Len(vk)
          BY <4>1 DEF TrTypeOK
        <5> QED BY <2>3, <2>4, <4>1, <5>1
      <4>2. CASE k \in 1 .. Len(vk)
        BY <2>1, <2>4, <4>2 DEF UpdatesInOrder
      <4> QED BY <2>4, <4>1, <4>2 DEF TrTypeOK
    <3> QED BY <2>1, <3>1 DEF UpdatesInOrder
  <2>6. TwinUpToDate'
    BY <2>1 DEF TwinUpToDate
  <2> QED BY <2>5, <2>6
<1>4. CASE TwinStep
  <2>1. tpc' # "twin" /\ tpc = "twin" /\ UNCHANGED <<args, vk>>
        /\ (args.compare => torch' = Append(torch, {ThisBatch}) /\ vk = Append(torch, {ThisBatch}))
    BY <1>4 DEF TwinStep, OfThisBatch
  <2> QED BY <2>1 DEF UpdatesInOrder, TwinUpToDate
<1>5. CASE EvaluateTest \/ EvaluateTrain \/ EvaluateFinal
  BY <1>5 DEF EvaluateTest, EvaluateTrain, EvaluateFinal, EvalMode, Scored, UpdatesInOrder, TwinUpToDate
<1>6. CASE AttributeSteps
  <2>1. args.attribute > 0 /\ Len(vk) = taken /\ mode = "train" /\ UNCHANGED args /\ tpc = "attribute"
    BY <1>6 DEF AttributeSteps, Counted, OfThisBatch
  <2>2. CASE vk' = vk
    BY <1>6, <2>1, <2>2 DEF AttributeSteps, UpdatesInOrder, TwinUpToDate
  <2>3. CASE vk' = Append(vk, {<<0, taken + 1, "train">>})
    <3>1. Len(vk') = Len(vk) + 1 /\ vk'[Len(vk) + 1] = {<<0, Len(vk) + 1, "train">>}
          /\ \A k \in 1 .. Len(vk) : vk'[k] = vk[k]
      <4> DEFINE u == {<<0, taken + 1, "train">>}
      <4>1. vk' = Append(vk, u) /\ vk \in Seq(Update)
        BY <2>3 DEF TrTypeOK
      <4>2. u = {<<0, Len(vk) + 1, "train">>}
        BY <2>1
      <4> HIDE DEF u
      <4>3. Len(vk') = Len(vk) + 1 /\ vk'[Len(vk) + 1] = u /\ \A k \in 1 .. Len(vk) : vk'[k] = vk[k]
        BY <4>1
      <4> QED BY <4>2, <4>3
    <3>2. UpdatesInOrder'
      BY <2>1, <3>1 DEF UpdatesInOrder, TrTypeOK
    <3> QED BY <1>6, <2>1, <3>2 DEF AttributeSteps, TwinUpToDate
  <2> QED BY <1>6, <2>1, <2>2, <2>3 DEF AttributeSteps
<1>7. CASE Abort \/ UNCHANGED trVars
  BY <1>7 DEF Abort, trVars, UpdatesInOrder, TwinUpToDate
<1> QED BY <1>1, <1>2, <1>3, <1>4, <1>5, <1>6, <1>7 DEF TrNext
\* Every step of the script keeps what it reports about the model it is of.
LEMMA ReportStep ==
  TrTypeOK /\ Counted /\ OfThisBatch /\ Recorded /\ ReportDescribesWeights /\ [TrNext]_trVars
    => ReportDescribesWeights'
<1> SUFFICES ASSUME TrTypeOK, Counted, Recorded, ReportDescribesWeights, [TrNext]_trVars
             PROVE  ReportDescribesWeights'
  OBVIOUS
<1> DEFINE Accuracies ==
      \A e \in 1 .. Len(history) :
        /\ Len(history[e].test) = e * Batches
        /\ tpc # "over" /\ ~(tpc = "train" /\ e = Len(history)) => history[e].train = history[e].test
    FileParts ==
      /\ weights.accuracyOf = weights.model /\ summary.accuracyOf = summary.model
      /\ tpc = "returned" => weights = summary /\ summary.run = runs /\ Len(weights.model) = stepNo
      /\ summary.run <= weights.run
<1>i. Accuracies /\ FileParts
  BY DEF ReportDescribesWeights
<1>s. SUFFICES Accuracies' /\ FileParts'
  BY DEF ReportDescribesWeights
<1>t. runs \in Nat /\ weights.run \in Nat /\ summary.run \in Nat
  BY DEF TrTypeOK, File
<1> USE DEF Loop, Models, Files
<1>1. CASE StartTraining
  <2>1. history' = <<>> /\ tpc' # "returned" /\ UNCHANGED <<weights, summary>>
    BY <1>1 DEF StartTraining, Begun
  <2> QED BY <1>i, <2>1
<1>2. CASE Epoch \/ NextBatch \/ ZeroGrads \/ BackwardPass \/ OptimiserStep \/ TwinStep
  <2>1. tpc # "over" /\ tpc # "train" /\ tpc' # "returned" /\ UNCHANGED <<history, weights, summary>>
    BY <1>2 DEF Epoch, NextBatch, ZeroGrads, BackwardPass, OptimiserStep, TwinStep
  <2> QED BY <1>i, <2>1
<1>3. CASE EvaluateTest
  <2>1. CASE history' = history /\ tpc' = tpc
    BY <1>i, <1>3, <2>1 DEF EvaluateTest
  <2>2. CASE tpc' = "train" /\ history' = Append(history, [test |-> vk, train |-> <<>>])
    <3>1. tpc = "test" /\ UNCHANGED <<weights, summary>>
      BY <1>3, <2>2 DEF EvaluateTest, EvalMode
    <3>2. Len(history) = epochNo /\ epochNo \in Nat /\ Len(vk) = (epochNo + 1) * Batches
      BY <3>1 DEF Recorded, Counted, TrTypeOK, Ending
    <3>3. /\ Len(history') = epochNo + 1 /\ history'[epochNo + 1].test = vk
          /\ \A e \in 1 .. epochNo : history'[e] = history[e]
      <4> DEFINE seen == [test |-> vk, train |-> <<>>]
      <4>1. seen.test = vk /\ history' = Append(history, seen)
        BY <2>2
      <4>2. PICK S : history \in Seq(S)
        BY DEF TrTypeOK
      <4> HIDE DEF seen
      <4>3. /\ Len(history') = Len(history) + 1 /\ history'[Len(history) + 1] = seen
            /\ \A e \in 1 .. Len(history) : history'[e] = history[e]
        BY <4>1, <4>2
      <4> QED BY <3>2, <4>1, <4>3
    <3>4. Accuracies'
      <4>1. ASSUME NEW e \in 1 .. Len(history')
            PROVE  /\ Len(history'[e].test) = e * Batches
                   /\ e # Len(history') => history'[e].train = history'[e].test
        <5>1. CASE e = epochNo + 1
          BY <3>2, <3>3, <5>1
        <5>2. CASE e \in 1 .. epochNo
          <6>1. /\ history'[e] = history[e] /\ Len(history[e].test) = e * Batches
                /\ history[e].train = history[e].test
            BY <1>i, <3>1, <3>2, <3>3, <5>2
          <6> QED BY <6>1
        <5> QED BY <3>2, <3>3, <5>1, <5>2
      <4> QED BY <2>2, <4>1
    <3> QED BY <1>i, <2>2, <3>1, <3>4
  <2> QED BY <1>3, <2>1, <2>2 DEF EvaluateTest, Scored
<1>4. CASE EvaluateTrain
  <2>1. CASE history' = history /\ tpc' = tpc
    BY <1>i, <1>4, <2>1 DEF EvaluateTrain
  <2>2. CASE tpc' = "epoch" /\ history' = [history EXCEPT ![Len(history)].train = vk]
    <3>1. tpc = "train" /\ UNCHANGED <<weights, summary>>
      BY <1>4, <2>2 DEF EvaluateTrain, EvalMode
    <3>2. Len(history) = epochNo + 1 /\ history[epochNo + 1].test = vk /\ epochNo \in Nat
      BY <3>1 DEF Recorded, TrTypeOK
    <3>3. /\ Len(history') = epochNo + 1
          /\ history'[epochNo + 1].test = vk /\ history'[epochNo + 1].train = vk
          /\ \A e \in 1 .. epochNo : history'[e] = history[e]
      <4>1. history[epochNo + 1] \in Score /\ Len(history') = Len(history)
        BY <2>2, <3>2 DEF TrTypeOK
      <4>2. history'[epochNo + 1] = [history[epochNo + 1] EXCEPT !.train = vk]
        BY <2>2, <3>2, SMTT(60) DEF TrTypeOK
      <4>3. history'[epochNo + 1].test = vk /\ history'[epochNo + 1].train = vk
        BY <3>2, <4>1, <4>2 DEF Score
      <4> QED BY <2>2, <3>2, <4>1, <4>3 DEF TrTypeOK
    <3>4. Accuracies'
      <4>1. ASSUME NEW e \in 1 .. Len(history')
            PROVE  Len(history'[e].test) = e * Batches /\ history'[e].train = history'[e].test
        <5>1. CASE e = epochNo + 1
          BY <1>i, <3>2, <3>3, <5>1
        <5>2. CASE e \in 1 .. epochNo
          <6>1. /\ history'[e] = history[e] /\ Len(history[e].test) = e * Batches
                /\ history[e].train = history[e].test
            BY <1>i, <3>1, <3>2, <3>3, <5>2
          <6> QED BY <6>1
        <5> QED BY <3>2, <3>3, <5>1, <5>2
      <4> QED BY <2>2, <4>1
    <3> QED BY <1>i, <2>2, <3>1, <3>4
  <2> QED BY <1>4, <2>1, <2>2 DEF EvaluateTrain, Scored
<1>5. CASE EvaluateFinal
  <2>1. tpc = "final" /\ tpc' \in {"final", "save"} /\ UNCHANGED <<history, weights, summary>>
    BY <1>5 DEF EvaluateFinal, EvalMode, Scored
  <2> QED BY <1>i, <2>1
<1>6. CASE SaveWeights
  <2>1. /\ tpc = "save" /\ tpc' = "summary" /\ UNCHANGED <<history, summary>>
        /\ weights' = [run |-> runs, model |-> vk, accuracyOf |-> final]
    BY <1>6 DEF SaveWeights
  <2>2. final = vk /\ summary.run <= runs
    BY <1>i, <1>t, <2>1 DEF Recorded, Ending
  <2> QED BY <1>i, <2>1, <2>2
<1>7. CASE WriteSummary
  <2>1. CASE tpc' = "over"
    BY <1>i, <1>7, <2>1 DEF WriteSummary
  <2>2. CASE tpc' = "returned"
    <3>1. /\ tpc = "summary" /\ UNCHANGED <<history, weights, vk, runs, stepNo>>
          /\ summary' = [run |-> runs, model |-> vk, accuracyOf |-> final]
      BY <1>7, <2>2 DEF WriteSummary
    <3>2. weights = [run |-> runs, model |-> vk, accuracyOf |-> final] /\ final = vk /\ stepNo = Len(vk)
      BY <3>1 DEF Recorded, Counted, Ending
    <3> QED BY <1>i, <1>t, <2>2, <3>1, <3>2
  <2> QED BY <1>7, <2>1, <2>2 DEF WriteSummary
<1>8. CASE AttributeSteps
  <2>1. /\ tpc = "attribute" /\ tpc' \in {"attribute", "over"} /\ history = <<>>
        /\ UNCHANGED <<history, weights, summary>>
    BY <1>8 DEF AttributeSteps, Counted
  <2> QED BY <1>i, <2>1
<1>9. CASE Report \/ Abort \/ UNCHANGED trVars
  BY <1>i, <1>9 DEF Report, Abort, trVars
<1> QED BY <1>1, <1>2, <1>3, <1>4, <1>5, <1>6, <1>7, <1>8, <1>9 DEF TrNext

\* The script's invariant, with the types, the loop counters and the order of
\* evaluation and save that RunHonest needs to be kept by every step.
THEOREM TrainingInvariant == TrSpec => []TrInv
<1>1. TrInv /\ [TrNext]_trVars => TrInv'
  BY TrTypeStep, CountedStep, OfThisBatchStep, RecordedStep, TwinsStep, ReportStep
     DEF TrInv, RunHonest
<1> QED BY <1>1, TrInitInv, PTL DEF TrSpec

\* train.py: the two models see the same batches in the loader's order, and
\* what a run prints and saves is about the model it trained, for any number of
\* batches, epochs and runs, interrupted ones included.
THEOREM TrainingHonest == TrSpec => []RunHonest
BY TrainingInvariant, PTL DEF TrInv
-----------------------------------------------------------------------------
(* The viewer                                                              *)

\* A picture whose inference is due is the one on the canvas, and before the
\* first event no inference has filled the bars yet.
VwInv ==
  /\ stage \in {NoStage, [open |-> TRUE, of |-> canvas]}
  /\ eventsSeen \in Nat /\ (stage.open /\ eventsSeen = 0 => bars = Blank)
  /\ drawingMode => canvas.kind # "test"
  /\ PanesDescribeCanvas

\* The window as it opens.
LEMMA VwInitInv == VwInit => VwInv
<1> SUFFICES ASSUME VwInit PROVE VwInv
  OBVIOUS
<1>1. stage = [open |-> TRUE, of |-> canvas] /\ stage.open /\ eventsSeen \in Nat
  BY DEF VwInit
<1>2. ~drawingMode /\ bars = Blank /\ verdict.of = bars /\ canvas = Test(index)
  BY DEF VwInit
<1> QED BY <1>1, <1>2 DEF VwInv, PanesDescribeCanvas

\* Every event and every inference, also one that raises, keeps the window's
\* invariant.
LEMMA VwStep == VwInv /\ [VwNext]_vwVars => VwInv'
<1> SUFFICES ASSUME VwInv, [VwNext]_vwVars PROVE VwInv'
  OBVIOUS
<1>s. stage = NoStage \/ stage = [open |-> TRUE, of |-> canvas]
  BY DEF VwInv
<1>o. (stage.open <=> stage # NoStage) /\ (Event => stage = NoStage /\ ~stage.open)
  BY <1>s DEF NoStage, Event
<1>k. \A i : Test(i).kind = "test" /\ Blank.kind = "blank"
  BY DEF Test, Blank
<1>d. \A ink : Drawn(ink).kind = "drawing" /\ Drawn(ink) # Blank
  BY DEF Drawn, Blank
<1>e. Event => eventsSeen' \in Nat
  BY DEF Event, VwInv
<1>n. ~NoStage.open
  BY DEF NoStage
<1> USE DEF VwInv, PanesDescribeCanvas, Panes, Drawing
<1>1. CASE Infer
  <2>1. stage.of = canvas
    BY <1>1, <1>s, <1>n DEF Infer
  <2> QED BY <1>1, <1>n, <2>1 DEF Infer
<1>2. CASE InferRaises
  <2>1. /\ stage' = NoStage /\ erred' = TRUE
        /\ UNCHANGED <<index, drawingMode, strokes, canvas, ovals, eventsSeen>>
    BY <1>2 DEF InferRaises
  <2>2. \/ UNCHANGED <<bars, verdict>>
        \/ eventsSeen = 0 /\ bars' = Blank /\ verdict'.of = Blank
    <3>1. stage.open /\ (eventsSeen = 0 => bars = Blank)
      BY <1>2, Zenon DEF InferRaises
    <3>2. CASE UNCHANGED Panes
      BY <3>2
    <3>3. CASE eventsSeen = 0 /\ verdict' = [of |-> Blank, says |-> "inference failed"] /\ UNCHANGED bars
      BY <3>1, <3>3
    <3>4. CASE UNCHANGED <<bars, verdict>>
      BY <3>4
    <3> QED BY <1>2, <3>2, <3>3, <3>4, Zenon DEF InferRaises
  <2>3. verdict'.of = bars'
    BY <2>2
  <2> QED BY <1>n, <2>1, <2>3
<1>3. ASSUME NEW i, Event, ShowTestImage(i) PROVE VwInv'
  <2>1. /\ stage' = [open |-> TRUE, of |-> canvas'] /\ ~drawingMode' /\ canvas' = Test(index')
        /\ UNCHANGED <<bars, verdict>>
    BY <1>3 DEF ShowTestImage, Painted
  <2>2. stage'.open /\ eventsSeen' \in Nat /\ eventsSeen' # 0
    BY <1>3, <2>1 DEF Event
  <2> QED BY <2>1, <2>2
<1>4. CASE Navigate
  BY <1>3, <1>4 DEF Navigate
<1>5. CASE JumpRefused \/ NextMistakeRaises
  <2>1. Event /\ UNCHANGED <<index, drawingMode, strokes, canvas, ovals, bars, verdict, stage, erred>>
    BY <1>5 DEF JumpRefused, NextMistakeRaises
  <2> QED BY <1>o, <1>e, <2>1
<1>6. CASE NextMistake
  BY <1>3, <1>6, <1>o, <1>e DEF NextMistake
<1>7. CASE Clear
  <2>1. CASE drawingMode
    <3>1. /\ Event /\ canvas' = Blank /\ bars' = Blank /\ verdict' = [of |-> Blank, says |-> ""]
          /\ strokes' = {} /\ drawingMode' = drawingMode /\ stage' = stage
      BY <1>7, <2>1 DEF Clear, ClearDrawing, StrokesCleared
    <3>2. canvas'.kind # "test" /\ verdict'.of = bars' /\ stage' = NoStage /\ eventsSeen' \in Nat
      BY <1>k, <1>o, <1>e, <3>1
    <3> QED BY <1>n, <2>1, <3>1, <3>2
  <2>2. CASE ~drawingMode
    <3>1. Event /\ UNCHANGED <<canvas, bars, verdict, index, drawingMode, stage, erred>>
      BY <1>7, <2>2 DEF Clear, ClearDrawing
    <3> QED BY <1>o, <1>e, <2>2, <3>1
  <2> QED BY <2>1, <2>2
<1>8. CASE ToggleDraw
  <2>1. CASE drawingMode
    BY <1>3, <1>8, <2>1 DEF ToggleDraw
  <2>2. CASE ~drawingMode
    <3>1. /\ Event /\ canvas' = Blank /\ bars' = Blank /\ verdict' = [of |-> Blank, says |-> ""]
          /\ strokes' = {} /\ drawingMode' = TRUE /\ stage' = stage
      BY <1>8, <2>2 DEF ToggleDraw, ClearDrawing, StrokesCleared
    <3>2. canvas'.kind # "test" /\ verdict'.of = bars' /\ stage' = NoStage /\ eventsSeen' \in Nat
      BY <1>k, <1>o, <1>e, <3>1
    <3> QED BY <1>n, <3>1, <3>2
  <2> QED BY <2>1, <2>2
<1>9. ASSUME NEW x \in (-Reach)..(Side + Reach - 1), Drag(x) PROVE VwInv'
  <2>1. /\ Event /\ drawingMode /\ drawingMode' /\ ovals' # {}
        /\ UNCHANGED <<index, canvas, bars, verdict, stage, erred>>
    BY <1>9 DEF Drag
  <2> QED BY <1>o, <1>e, <2>1
<1>10. CASE Release
  <2>1. PICK ink : canvas' = Drawn(ink) /\ stage' = [open |-> TRUE, of |-> canvas']
    BY <1>10 DEF Release, Painted
  <2>2. Event /\ drawingMode /\ UNCHANGED <<drawingMode, bars, verdict>>
    BY <1>10 DEF Release
  <2>3. stage'.open /\ eventsSeen' \in Nat /\ eventsSeen' # 0
    BY <2>1, <2>2 DEF Event
  <2> QED BY <1>d, <2>1, <2>2, <2>3
<1>11. CASE UNCHANGED vwVars
  BY <1>11 DEF vwVars
<1> QED BY <1>1, <1>2, <1>4, <1>5, <1>6, <1>7, <1>8, <1>9, <1>10, <1>11 DEF VwNext

\* gui.py: what the panes say is about the picture on the canvas, through any
\* sequence of events and whichever inferences raise.
THEOREM ViewerHonest == VwSpec => []PanesDescribeCanvas
<1>1. VwInv => PanesDescribeCanvas
  BY DEF VwInv
<1> QED BY <1>1, VwInitInv, VwStep, PTL DEF VwSpec
-----------------------------------------------------------------------------
(* The scripts that damage the tree                                        *)

\* A script is in one of its own phases.
PhaseOfScript ==
  /\ script = "mutate" => phase \in {"next", "build", "test", "finally", "unwind"}
  /\ script = "gates" => phase \in {"break", "site", "gate", "finally", "again", "unwind"}

\* The sources are damaged between a script's edit and its restore; outside, what
\* it remembers of them is of no use.
Damaged ==
  \/ script = "mutate" /\ phase \in {"build", "test", "finally", "unwind"}
  \/ script = "gates" /\ phase \in {"site", "gate", "finally", "unwind"}
SourcesInv == PhaseOfScript /\ ("killed" \notin harm => IF Damaged THEN original = {} ELSE sources = {})

CleanExts == binary = {} /\ copy \in {SameFile, {}}
\* The extensions of mutation_check.py: of the restored sources until a mutation
\* of compiled ones has been built, which the rebuild at the end undoes.
MutateInv ==
  script = "mutate" =>
    /\ phase = "build" => Mutation.compiled
    /\ CleanExts \/ compiledRan \/ (phase \in {"test", "finally"} /\ Mutation.compiled)
\* What each script saved of the extensions, when nothing went wrong so far.
ExtsInv ==
  /\ script \notin {"mutate", "cpu", "asan"} => CleanExts
  /\ script = "cpu" => Len(stash) = 2 /\ stash[1] = {} /\ stash[2] \in {SameFile, {}}
  /\ script = "asan" => stash = <<{}>> /\ preasan = {} /\ copy \in {SameFile, {}}
  /\ script # "asan" => preasan = Absent
SiteInv == siteOf = {} \/ (script = "gates" /\ phase \in {"gate", "finally"})
Undisturbed == harm = {} => MutateInv /\ ExtsInv /\ SiteInv /\ phase # "unwind"

\* The gate that failed on the damage sees it, or fails on anything.
GatesInv ==
  /\ script = "gates" => \E c \in Controls : todo = <<c>>
  /\ script = "gates" /\ phase \in {"finally", "again"} => (code => Control.red \/ Control.sees)

BtInv == SourcesInv /\ Undisturbed /\ GatesInv /\ VerifiedCanFail

\* The tree before the first script.
LEMMA BtInitInv == BtInit => BtInv
<1> SUFFICES ASSUME BtInit PROVE BtInv
  OBVIOUS
<1>1. SourcesInv /\ GatesInv /\ VerifiedCanFail
  BY DEF BtInit, SourcesInv, PhaseOfScript, Damaged, GatesInv, VerifiedCanFail
<1>2. CleanExts /\ SiteInv /\ script = "none" /\ phase # "unwind" /\ preasan = Absent
  BY DEF BtInit, CleanExts, SiteInv
<1>3. Undisturbed
  BY <1>2 DEF Undisturbed, MutateInv, ExtsInv
<1> QED BY <1>1, <1>3 DEF BtInv

\* Every step keeps the sources within what is undone: an interrupt lets the
\* finally run, only a kill does not.
LEMMA SourcesStep == SourcesInv /\ [BtNext]_btVars => SourcesInv'
<1> SUFFICES ASSUME SourcesInv, [BtNext]_btVars PROVE SourcesInv'
  OBVIOUS
<1> USE DEF SourcesInv, PhaseOfScript, Damaged, Begins, At, Ends, GoTo, Book, Own, Restored
<1>1. CASE Mutate \/ BuildMutation \/ TestMutation
  BY <1>1 DEF Mutate, BuildMutation, TestMutation
<1>2. CASE ApplyMutation
  <2>1. script = "mutate" /\ phase = "next" /\ script' = "mutate" /\ harm' = harm
    BY <1>2 DEF ApplyMutation
  <2>2. \/ phase' \in {"build", "test"} /\ original' = sources
        \/ phase' = "next" /\ sources' = sources
    BY <1>2, <2>1 DEF ApplyMutation
  <2> QED BY <2>1, <2>2
<1>3. CASE RestoreMutation \/ RebuildAtEnd
  BY <1>3 DEF RestoreMutation, RebuildAtEnd
<1>4. CASE Exercise \/ BreakTarget \/ BuildSite
  BY <1>4 DEF Exercise, BreakTarget, BuildSite
<1>5. CASE RunGate \/ RestoreTarget \/ GiveVerdict
  BY <1>5 DEF RunGate, RestoreTarget, GiveVerdict
<1>6. CASE CpuOnly \/ UnlinkBuilt \/ BuildCpuOnly \/ SwapAndTest \/ \E kept \in BOOLEAN : RestoreCpuOnly(kept)
  BY <1>6 DEF CpuOnly, UnlinkBuilt, BuildCpuOnly, SwapAndTest, RestoreCpuOnly
<1>7. CASE Asan \/ BuildAsan \/ RestoreAsan
  BY <1>7 DEF Asan, BuildAsan, RestoreAsan
<1>8. CASE Interrupt
  <2>1. /\ harm' = harm \cup {"interrupted"} /\ UNCHANGED <<sources, original>>
        /\ \/ phase \in InTry /\ phase' = "unwind" /\ script' = script
           \/ phase \in OutsideTry /\ script' = "none"
    BY <1>8 DEF Interrupt
  <2> QED BY <2>1 DEF InTry, OutsideTry
<1>9. CASE Unwind
  BY <1>9 DEF Unwind
<1>10. CASE Kill \/ UNCHANGED btVars
  BY <1>10 DEF Kill, btVars
<1> QED BY <1>1, <1>2, <1>3, <1>4, <1>5, <1>6, <1>7, <1>8, <1>9, <1>10 DEF BtNext
\* What the scripts do not claim to undo is only ever added to.
LEMMA HarmGrows == [BtNext]_btVars => harm \subseteq harm'
BY DEF BtNext, btVars, Mutate, ApplyMutation, BuildMutation, TestMutation, RestoreMutation, RebuildAtEnd,
       Exercise, BreakTarget, BuildSite, RunGate, RestoreTarget, GiveVerdict, CpuOnly, UnlinkBuilt,
       BuildCpuOnly, SwapAndTest, RestoreCpuOnly, Asan, BuildAsan, RestoreAsan, Interrupt, Unwind, Kill, Book

\* What a build makes of undamaged sources, wherever it is copied to, is clean.
LEMMA CleanBuild == BuiltFrom({}) = {} /\ (copy \in {SameFile, {}} => Synced({}) \in {SameFile, {}})
BY DEF BuiltFrom, Synced

\* Every step without harm leaves extensions and site where the scripts can
\* undo what was done to them.
LEMMA UndisturbedStep == SourcesInv /\ Undisturbed /\ [BtNext]_btVars => Undisturbed'
<1> SUFFICES ASSUME SourcesInv, Undisturbed, [BtNext]_btVars, harm' = {}
             PROVE  MutateInv' /\ ExtsInv' /\ SiteInv' /\ phase' # "unwind"
  BY DEF Undisturbed
<1>h. harm = {}
  BY HarmGrows
<1>i. /\ MutateInv /\ ExtsInv /\ SiteInv /\ phase # "unwind"
      /\ IF Damaged THEN original = {} ELSE sources = {}
  BY <1>h DEF Undisturbed, SourcesInv
<1> USE <1>i DEF Begins, At, Ends, GoTo, Book, Own, Saves, Exts
<1>1. CASE Mutate
  <2>1. /\ script = "none" /\ script' = "mutate" /\ phase' = "next"
        /\ UNCHANGED <<binary, copy, siteOf, preasan>>
    BY <1>1 DEF Mutate
  <2> QED BY <2>1 DEF MutateInv, ExtsInv, SiteInv, CleanExts
<1>2. CASE ApplyMutation
  <2>1. /\ script = "mutate" /\ phase = "next" /\ script' = "mutate"
        /\ UNCHANGED <<binary, copy, siteOf, compiledRan, stash, preasan>>
    BY <1>2 DEF ApplyMutation
  <2>2. \/ phase' \in {"build", "test"} /\ todo' = todo /\ (phase' = "build" => Mutation.compiled)
        \/ phase' = "next"
    BY <1>2, <2>1 DEF ApplyMutation
  <2>3. MutateInv'
    BY <2>1, <2>2 DEF MutateInv, CleanExts, Mutation
  <2> QED BY <2>1, <2>2, <2>3 DEF ExtsInv, SiteInv
<1>3. CASE BuildMutation
  <2>1. /\ script = "mutate" /\ phase = "build" /\ script' = "mutate" /\ phase' \in {"test", "finally"}
        /\ UNCHANGED <<siteOf, todo, stash, preasan>>
    BY <1>3 DEF BuildMutation
  <2>2. MutateInv'
    BY <2>1 DEF MutateInv, Mutation
  <2> QED BY <2>1, <2>2 DEF ExtsInv, SiteInv
<1>4. CASE TestMutation
  <2>1. /\ script = "mutate" /\ phase = "test" /\ script' = "mutate" /\ phase' = "finally"
        /\ UNCHANGED <<binary, copy, siteOf, todo, compiledRan, stash, preasan>>
    BY <1>4 DEF TestMutation
  <2>2. MutateInv'
    BY <2>1 DEF MutateInv, Mutation, CleanExts
  <2> QED BY <2>1, <2>2 DEF ExtsInv, SiteInv
<1>5. CASE RestoreMutation
  <2>1. /\ script = "mutate" /\ phase = "finally" /\ script' = "mutate" /\ phase' = "next"
        /\ UNCHANGED <<binary, copy, siteOf, stash, preasan>>
        /\ compiledRan' = (compiledRan \/ Mutation.compiled)
    BY <1>5 DEF RestoreMutation
  <2>2. compiledRan \/ Mutation.compiled => compiledRan'
    BY <2>1, Zenon
  <2>3. MutateInv'
    BY <2>1, <2>2 DEF MutateInv, CleanExts
  <2> QED BY <2>1, <2>3 DEF ExtsInv, SiteInv
<1>6. CASE RebuildAtEnd
  <2>1. /\ script = "mutate" /\ phase = "next" /\ script' = "none" /\ phase' = "out"
        /\ UNCHANGED <<siteOf, stash, preasan>>
    BY <1>6 DEF RebuildAtEnd
  <2>2. PICK ok \in BOOLEAN :
          /\ binary' = Rebuilt(ok)
          /\ copy' = IF ok /\ compiledRan THEN Synced(binary') ELSE copy
          /\ harm' = harm \cup (IF ok \/ ~compiledRan THEN {} ELSE {"build failed"})
    BY <1>6 DEF RebuildAtEnd
  <2>3. sources = {} /\ (CleanExts \/ compiledRan) /\ (ok \/ ~compiledRan)
    BY <2>1, <2>2 DEF MutateInv, Damaged
  <2>4. CleanExts'
    <3>1. CASE ok
      BY <2>2, <2>3, <3>1, CleanBuild DEF Rebuilt, CleanExts, Synced
    <3>2. CASE ~ok
      BY <2>2, <2>3, <3>2 DEF Rebuilt, CleanExts
    <3> QED BY <3>1, <3>2
  <2> QED BY <2>1, <2>4 DEF ExtsInv, SiteInv, MutateInv
<1>7. CASE Exercise \/ BreakTarget
  <2>1. /\ script \notin {"mutate", "cpu", "asan"} /\ script' \notin {"mutate", "cpu", "asan"}
        /\ phase' # "unwind" /\ siteOf = {} /\ UNCHANGED <<binary, copy, siteOf, preasan>>
    BY <1>7 DEF Exercise, BreakTarget, SiteInv
  <2> QED BY <2>1 DEF MutateInv, ExtsInv, SiteInv, CleanExts
<1>8. CASE BuildSite \/ RunGate
  <2>1. /\ script = "gates" /\ script' = "gates" /\ phase' \in {"gate", "finally"}
        /\ UNCHANGED <<binary, copy, preasan>>
    BY <1>8 DEF BuildSite, RunGate
  <2> QED BY <2>1 DEF MutateInv, ExtsInv, SiteInv, CleanExts
<1>9. CASE RestoreTarget
  <2>1. /\ script = "gates" /\ phase = "finally" /\ script' = "gates" /\ phase' = "again"
        /\ sources' = original /\ UNCHANGED <<binary, copy, preasan>>
        /\ harm' = harm \cup (IF siteOf' = sources' THEN {} ELSE {"build failed"})
    BY <1>9 DEF RestoreTarget, Restored
  <2>2. siteOf' = {}
    BY <2>1 DEF Damaged
  <2> QED BY <2>1, <2>2 DEF MutateInv, ExtsInv, SiteInv, CleanExts
<1>10. CASE GiveVerdict
  <2>1. /\ script = "gates" /\ phase = "again" /\ script' = "none" /\ phase' = "out"
        /\ UNCHANGED <<binary, copy, siteOf, preasan>>
    BY <1>10 DEF GiveVerdict
  <2> QED BY <2>1 DEF MutateInv, ExtsInv, SiteInv, CleanExts
<1>11. CASE CpuOnly
  <2>1. /\ script = "none" /\ script' = "cpu" /\ phase' = "unlink" /\ stash' = <<binary, copy>>
        /\ UNCHANGED <<siteOf, preasan>>
    BY <1>11 DEF CpuOnly
  <2> QED BY <2>1 DEF MutateInv, ExtsInv, SiteInv, CleanExts
<1>12. CASE UnlinkBuilt \/ BuildCpuOnly \/ SwapAndTest
  <2>1. /\ script = "cpu" /\ script' = "cpu" /\ phase' # "unwind" /\ UNCHANGED <<siteOf, stash, preasan>>
    BY <1>12 DEF UnlinkBuilt, BuildCpuOnly, SwapAndTest
  <2> QED BY <2>1 DEF MutateInv, ExtsInv, SiteInv
<1>13. ASSUME NEW kept \in BOOLEAN, RestoreCpuOnly(kept)
       PROVE  MutateInv' /\ ExtsInv' /\ SiteInv' /\ phase' # "unwind"
  <2>1. ~kept
    BY <1>13 DEF RestoreCpuOnly
  <2>2. /\ script = "cpu" /\ script' = "none" /\ phase' = "out" /\ UNCHANGED <<siteOf, preasan>>
        /\ binary' = stash[1] /\ copy' = stash[2]
    BY <1>13, <2>1 DEF RestoreCpuOnly
  <2> QED BY <2>2 DEF MutateInv, ExtsInv, SiteInv, CleanExts
<1>14. CASE Asan
  <2>1. /\ script = "none" /\ script' = "asan" /\ phase' = "build" /\ stash' = <<binary>>
        /\ preasan' = (IF binary = Absent THEN preasan ELSE binary) /\ UNCHANGED <<copy, siteOf>>
    BY <1>14 DEF Asan
  <2>2. binary = {} /\ binary # Absent
    BY <2>1 DEF ExtsInv, CleanExts, Absent
  <2> QED BY <2>1, <2>2 DEF MutateInv, ExtsInv, SiteInv, CleanExts
<1>15. CASE BuildAsan
  <2>1. /\ script = "asan" /\ script' = "asan" /\ phase' # "unwind"
        /\ UNCHANGED <<copy, siteOf, stash, preasan>>
    BY <1>15 DEF BuildAsan
  <2> QED BY <2>1 DEF MutateInv, ExtsInv, SiteInv
<1>16. CASE RestoreAsan
  <2>1. stash # <<Absent>>
    BY <1>16 DEF RestoreAsan, ExtsInv, Absent
  <2>2. /\ script = "asan" /\ script' = "none" /\ phase' = "out" /\ UNCHANGED <<copy, siteOf>>
        /\ binary' = preasan /\ preasan' = Absent
    BY <1>16, <2>1 DEF RestoreAsan
  <2> QED BY <2>2 DEF MutateInv, ExtsInv, SiteInv, CleanExts
<1>17. ~Interrupt /\ ~Unwind /\ ~Kill
  BY DEF Interrupt, Unwind, Kill
<1>18. CASE UNCHANGED btVars
  BY <1>18 DEF btVars, MutateInv, ExtsInv, SiteInv, CleanExts, Mutation
<1> QED BY <1>1, <1>2, <1>3, <1>4, <1>5, <1>6, <1>7, <1>8, <1>9, <1>10, <1>11, <1>12, <1>13, <1>14, <1>15,
           <1>16, <1>17, <1>18 DEF BtNext

\* A control that fails for its damage alone sees it; only those are verified.
LEMMA VerdictsStep == GatesInv /\ VerifiedCanFail /\ [BtNext]_btVars => GatesInv' /\ VerifiedCanFail'
<1> SUFFICES ASSUME GatesInv, VerifiedCanFail, [BtNext]_btVars PROVE GatesInv' /\ VerifiedCanFail'
  OBVIOUS
<1> USE DEF Begins, At, Ends, GoTo, Book, Own, Saves, Exts, Judge
<1>j. ASSUME NEW what, NEW given, given # "verified", verdicts' = verdicts \cup {<<what, given>>}
      PROVE  VerifiedCanFail'
  BY <1>j DEF VerifiedCanFail
<1>k. ASSUME UNCHANGED verdicts PROVE VerifiedCanFail'
  BY <1>k DEF VerifiedCanFail
<1>1. CASE \/ Mutate \/ RestoreMutation \/ RebuildAtEnd \/ CpuOnly \/ UnlinkBuilt \/ BuildCpuOnly
           \/ SwapAndTest \/ (\E kept \in BOOLEAN : RestoreCpuOnly(kept)) \/ Asan \/ BuildAsan \/ RestoreAsan \/ Kill
  <2>1. script' # "gates" /\ UNCHANGED verdicts
    BY <1>1 DEF Mutate, RestoreMutation, RebuildAtEnd, CpuOnly, UnlinkBuilt, BuildCpuOnly, SwapAndTest,
                RestoreCpuOnly, Asan, BuildAsan, RestoreAsan, Kill
  <2> QED BY <1>k, <2>1 DEF GatesInv
<1>2. CASE ApplyMutation \/ BuildMutation \/ TestMutation
  <2>1. script' # "gates"
    BY <1>2 DEF ApplyMutation, BuildMutation, TestMutation
  <2>2. UNCHANGED verdicts \/ \E what : \E given \in {"PATTERN-MISSING", "NOT-IN-IMPORTED-BINARY", "BUILD-FAILED",
                                                     "KILLED", "SURVIVED"} :
                               verdicts' = verdicts \cup {<<what, given>>}
    BY <1>2 DEF ApplyMutation, BuildMutation, TestMutation
  <2> QED BY <1>j, <1>k, <2>1, <2>2 DEF GatesInv
<1>3. CASE Exercise
  BY <1>k, <1>3 DEF Exercise, GatesInv
<1>4. CASE BreakTarget
  <2>1. UNCHANGED verdicts \/ verdicts' = verdicts \cup {<<Control.id, "STALE">>}
    BY <1>4 DEF BreakTarget
  <2>2. GatesInv'
    BY <1>4 DEF BreakTarget, GatesInv
  <2> QED BY <1>j, <1>k, <2>1, <2>2
<1>5. CASE BuildSite
  BY <1>k, <1>5 DEF BuildSite, GatesInv
<1>6. CASE RunGate
  <2>1. code' = GateFails /\ UNCHANGED <<verdicts, todo, script>> /\ phase' = "finally"
    BY <1>6 DEF RunGate
  <2>2. GateFails => Control.red \/ Control.sees
    BY DEF GateFails
  <2>3. code' => Control.red \/ Control.sees
    BY <2>1, <2>2, Zenon
  <2>4. GatesInv'
    BY <2>1, <2>3 DEF GatesInv, Control
  <2> QED BY <1>k, <2>1, <2>4
<1>7. CASE RestoreTarget
  <2>1. /\ script = "gates" /\ phase = "finally" /\ script' = "gates" /\ UNCHANGED <<todo, code, verdicts>>
    BY <1>7 DEF RestoreTarget
  <2> QED BY <1>k, <2>1 DEF GatesInv, Control
<1>8. CASE GiveVerdict
  <2>1. /\ script = "gates" /\ phase = "again" /\ script' = "none"
        /\ verdicts' = verdicts \cup {<<Control.id, IF code /\ ~StillRed THEN "verified" ELSE "FAILED">>}
    BY <1>8 DEF GiveVerdict
  <2>2. GatesInv'
    BY <2>1 DEF GatesInv
  <2>3. CASE code /\ ~StillRed
    <3>1. PICK c \in Controls : todo = <<c>>
      BY <2>1 DEF GatesInv
    <3>2. Control = c
      BY <3>1 DEF Control
    <3>3. c.sees /\ ~c.red
      BY <2>1, <2>3, <3>2 DEF GatesInv, StillRed, GateFails
    <3>4. ASSUME NEW d \in Controls, <<d.id, "verified">> \in verdicts' PROVE d.sees /\ ~d.red
      <4>1. <<d.id, "verified">> \in verdicts \/ d.id = c.id
        BY <2>1, <3>2, <3>4
      <4> QED BY <3>3, <4>1, BuildTreeAssumption DEF VerifiedCanFail
    <3> QED BY <2>2, <3>4 DEF VerifiedCanFail
  <2>4. CASE ~(code /\ ~StillRed)
    BY <1>j, <2>1, <2>2, <2>4
  <2> QED BY <2>3, <2>4
<1>9. CASE Interrupt \/ Unwind
  <2>1. /\ script' = "none" \/ (script' = script /\ phase' = "unwind")
        /\ UNCHANGED <<todo, verdicts>>
    BY <1>9 DEF Interrupt, Unwind
  <2> QED BY <1>k, <2>1 DEF GatesInv
<1>10. CASE UNCHANGED btVars
  BY <1>k, <1>10 DEF btVars, GatesInv, Control
<1> QED BY <1>1, <1>2, <1>3, <1>4, <1>5, <1>6, <1>7, <1>8, <1>9, <1>10 DEF BtNext

\* The scripts' invariant: what each has damaged and remembers, at every phase.
THEOREM ScriptsInvariant == BtSpec => []BtInv
<1>1. BtInv /\ [BtNext]_btVars => BtInv'
  BY SourcesStep, UndisturbedStep, VerdictsStep DEF BtInv
<1> QED BY <1>1, BtInitInv, PTL DEF BtSpec

\* mutation_check.py, verify_gates.py, check_cpu_only_build.py, asan_python.py:
\* in any order and number, over any list of mutations and controls, what was not
\* killed leaves the tree as it was, and a verified gate is one that can fail.
THEOREM ScriptsUndo == BtSpec => []ScriptsHonest
<1>1. BtInv => ScriptsHonest
  <2> SUFFICES ASSUME BtInv PROVE TreeRestored /\ VerifiedCanFail
    BY DEF ScriptsHonest
  <2>1. script = "none" /\ "killed" \notin harm => sources = {}
    BY DEF BtInv, SourcesInv, Damaged
  <2>2. script = "none" /\ harm = {} => CleanExts /\ siteOf = {} /\ preasan = Absent
    BY DEF BtInv, Undisturbed, ExtsInv, SiteInv
  <2>3. CleanExts => binary = {} /\ Imported = {}
    BY DEF CleanExts, Imported
  <2> QED BY <2>1, <2>2, <2>3 DEF TreeRestored, BtInv
<1> QED BY <1>1, ScriptsInvariant, PTL
-----------------------------------------------------------------------------
(* The coverage ratchet                                                    *)

Ruled == {o.name : o \in {o \in Operators : o.rule}}

\* What a recording can hold: a view, and only a view, is recorded as one.
Recordable(d) ==
  /\ d.op \in Observable /\ d.backend \in {"view", "cpu", "vulkan"}
  /\ d.backend = "view" <=> Named(d.op).kind = "view"
  /\ d.strided => Named(d.op).sources
RecordingInv == suite \subseteq Tests /\ (\A d \in dispatches : Recordable(d)) /\ fired \subseteq Ruled

\* What was exercised when the baseline was accepted is in none of its gaps, so
\* that its absence would be a new one.
Secure(op, path) ==
  /\ path # "backward" => op \in Observable \ baseline.gaps.never_executed
  /\ path = "backward" => op \in Ruled \ baseline.gaps.backward_never_fired
  /\ path \in {"strided", "large", "both"} => Named(op).kind # "view"
  /\ path = "strided" => Named(op).sources /\ op \notin baseline.gaps.never_strided_input
  /\ path = "large" => op \notin baseline.gaps.never_across_workgroups
  /\ path = "both" => baseline.backends = {"cpu", "vulkan"} /\ op \notin baseline.gaps.single_backend_only

Paths == {"ran", "backward", "strided", "large", "both"}
BaselineInv == \A a \in accepted : \E op, path : a = <<op, path>> /\ path \in Paths /\ Secure(op, path)

OcInv == RecordingInv /\ BaselineInv /\ NothingLost

\* A test's operator is one of the inventory.
LEMMA NamedOperator ==
  ASSUME NEW t \in Tests
  PROVE  /\ Named(t.op) \in Operators /\ Named(t.op).name = t.op
         /\ (t.backward => Named(t.op).rule) /\ (t.strided => Named(t.op).sources)
<1>1. \E o \in Operators : o.name = t.op
  BY OpCoverageAssumption
<1>2. Named(t.op) \in Operators /\ Named(t.op).name = t.op
  BY <1>1 DEF Named
<1> QED BY <1>2, OpCoverageAssumption

\* An executed operator is computed on the device of its dispatches, or a view.
LEMMA ComputedOrView ==
  ASSUME RecordingInv
  PROVE  Computed = {op \in Executed : Named(op).kind # "view"}
<1>1. ASSUME NEW op \in Executed PROVE IsView(op) <=> Named(op).kind = "view"
  <2>1. PICK e \in dispatches : e.op = op
    BY DEF Executed
  <2>2. \A d \in Lines(op) : d \in dispatches /\ d.op = op
    BY DEF Lines
  <2>3. e \in Lines(op) /\ e.backend \in Backends(op)
    BY <2>1 DEF Lines, Backends
  <2>4. CASE Named(op).kind = "view"
    <3>1. \A d \in Lines(op) : d.backend = "view"
      BY <2>2, <2>4 DEF RecordingInv, Recordable
    <3>2. Backends(op) = {"view"}
      BY <2>3, <3>1 DEF Backends
    <3> QED BY <2>4, <3>2 DEF IsView
  <2>5. CASE Named(op).kind # "view"
    <3>1. e.backend # "view"
      BY <2>1, <2>5 DEF RecordingInv, Recordable
    <3> QED BY <2>3, <2>5, <3>1 DEF IsView
  <2> QED BY <2>4, <2>5
<1> QED BY <1>1 DEF Computed

\* A session records what its tests can do.
LEMMA RecordingStep == RecordingInv /\ [OcNext]_ocVars => RecordingInv'
<1> SUFFICES ASSUME RecordingInv, [OcNext]_ocVars PROVE RecordingInv'
  OBVIOUS
<1>1. CASE RunSuite
  <2>1. \A t \in Ran : t \in Tests /\ Of(t).kind # "leaf"
    BY DEF Ran, RecordingInv
  <2>2. ASSUME NEW t \in Ran PROVE t.op \in Observable /\ (t.backward => t.op \in Ruled)
    BY <2>1, NamedOperator DEF Observable, Ruled, Of
  <2>3. ASSUME NEW d \in dispatches'
        PROVE  Recordable(d)
    <3>1. PICK t \in Ran : d = [op |-> t.op, backend |-> BackendOf(t), strided |-> t.strided, large |-> t.large]
      BY <1>1 DEF RunSuite
    <3>2. d.op = t.op /\ d.backend = BackendOf(t) /\ d.strided = t.strided
      BY <3>1
    <3>3. d.op \in Observable /\ (d.strided => Named(d.op).sources)
      BY <2>1, <2>2, <3>2, NamedOperator
    <3>4. d.backend = IF Named(d.op).kind = "view" THEN "view" ELSE IF t.gpu THEN "vulkan" ELSE "cpu"
      BY <3>2 DEF BackendOf, Of
    <3> QED BY <3>3, <3>4 DEF Recordable
  <2>4. fired' \subseteq Ruled
    BY <1>1, <2>2 DEF RunSuite
  <2>5. suite' \subseteq Tests
    BY <1>1 DEF RunSuite, RecordingInv
  <2> QED BY <2>3, <2>4, <2>5 DEF RecordingInv
<1>2. ASSUME NEW t \in Tests, EditSuite(t) PROVE RecordingInv'
  BY <1>2 DEF EditSuite, RecordingInv
<1>3. CASE HideOrShowGpu \/ WriteBaseline \/ Check \/ UNCHANGED ocVars
  BY <1>3 DEF HideOrShowGpu, WriteBaseline, Check, ocVars, RecordingInv
<1> QED BY <1>1, <1>2, <1>3 DEF OcNext
\* A recording's own gaps have nothing of what it shows to have been exercised.
LEMMA AcceptedSecure == RecordingInv /\ WriteBaseline => BaselineInv'
<1> SUFFICES ASSUME RecordingInv, WriteBaseline PROVE BaselineInv'
  OBVIOUS
<1>b. /\ accepted' = Exercised /\ baseline'.backends = BackendsSeen
      /\ baseline'.gaps.never_executed = Observable \ Executed
      /\ baseline'.gaps.backward_never_fired = Ruled \ fired
      /\ baseline'.gaps.single_backend_only = SingleBackendOnly
      /\ baseline'.gaps.never_strided_input = {op \in Computed : Named(op).sources /\ \A d \in Lines(op) : ~d.strided}
      /\ baseline'.gaps.never_across_workgroups = {op \in Computed : \A d \in Lines(op) : ~d.large}
  BY DEF WriteBaseline, Gaps, Ruled
<1>x. \A d \in dispatches : d.op \in Executed /\ d.op \in Observable /\ d \in Lines(d.op)
  BY DEF Executed, RecordingInv, Recordable, Lines
<1>y. \A op \in Executed : op \in Observable
  BY <1>x DEF Executed
<1>s. SUFFICES ASSUME NEW a \in Exercised
               PROVE  \E op, path : a = <<op, path>> /\ path \in Paths /\ Secure(op, path)'
  BY <1>b DEF BaselineInv
<1>1. ASSUME NEW op \in Executed, a = <<op, "ran">>
      PROVE  \E o, path : a = <<o, path>> /\ path \in Paths /\ Secure(o, path)'
  <2>1. Secure(op, "ran")'
    BY <1>b, <1>y, <1>1 DEF Secure
  <2> QED BY <1>1, <2>1 DEF Paths
<1>2. ASSUME NEW op \in fired, a = <<op, "backward">>
      PROVE  \E o, path : a = <<o, path>> /\ path \in Paths /\ Secure(o, path)'
  <2>1. Secure(op, "backward")'
    BY <1>b, <1>2 DEF Secure, RecordingInv
  <2> QED BY <1>2, <2>1 DEF Paths
<1>3. ASSUME NEW d \in dispatches, d.strided, d.backend # "view", a = <<d.op, "strided">>
      PROVE  \E o, path : a = <<o, path>> /\ path \in Paths /\ Secure(o, path)'
  <2>1. Named(d.op).kind # "view" /\ Named(d.op).sources
    BY <1>3 DEF RecordingInv, Recordable
  <2>2. d.op \notin baseline'.gaps.never_strided_input
    BY <1>b, <1>x, <1>3
  <2>3. Secure(d.op, "strided")'
    BY <1>b, <1>x, <2>1, <2>2 DEF Secure
  <2> QED BY <1>3, <2>3 DEF Paths
<1>4. ASSUME NEW d \in dispatches, d.large, d.backend # "view", a = <<d.op, "large">>
      PROVE  \E o, path : a = <<o, path>> /\ path \in Paths /\ Secure(o, path)'
  <2>1. Named(d.op).kind # "view"
    BY <1>4 DEF RecordingInv, Recordable
  <2>2. d.op \notin baseline'.gaps.never_across_workgroups
    BY <1>b, <1>x, <1>4
  <2>3. Secure(d.op, "large")'
    BY <1>b, <1>x, <2>1, <2>2 DEF Secure
  <2> QED BY <1>4, <2>3 DEF Paths
<1>5. ASSUME NEW op \in Computed, {"cpu", "vulkan"} \subseteq Backends(op), a = <<op, "both">>
      PROVE  \E o, path : a = <<o, path>> /\ path \in Paths /\ Secure(o, path)'
  <2>1. op \in Executed /\ Named(op).kind # "view"
    BY ComputedOrView
  <2>2. BackendsSeen = {"cpu", "vulkan"}
    <3>1. BackendsSeen \subseteq {"cpu", "vulkan"}
      BY DEF BackendsSeen, RecordingInv, Recordable
    <3>2. Backends(op) \ {"view"} \subseteq BackendsSeen
      BY DEF Backends, Lines, BackendsSeen
    <3> QED BY <1>5, <3>1, <3>2
  <2>3. op \notin SingleBackendOnly
    BY <1>5, <2>2 DEF SingleBackendOnly
  <2>4. Secure(op, "both")'
    BY <1>b, <1>y, <2>1, <2>2, <2>3 DEF Secure
  <2> QED BY <1>5, <2>4 DEF Paths
<1> QED BY <1>1, <1>2, <1>3, <1>4, <1>5 DEF Exercised

\* A gate that is green although something accepted is missing would have a gap
\* that its baseline does not list.
LEMMA GreenMeansKept == RecordingInv /\ BaselineInv /\ Check /\ gate' = "ok" => accepted \subseteq Exercised
<1> SUFFICES ASSUME RecordingInv, BaselineInv, Check, gate' = "ok", NEW a \in accepted PROVE a \in Exercised
  OBVIOUS
<1>1. PICK op, path : a = <<op, path>> /\ path \in Paths /\ Secure(op, path)
  BY DEF BaselineInv
<1>2. baseline.backends = BackendsSeen /\ \A key \in DOMAIN Gaps : Appeared(key) = {}
  BY DEF Check, Comparable
<1>3. /\ Gaps.never_executed \subseteq baseline.gaps.never_executed
      /\ Gaps.backward_never_fired \subseteq baseline.gaps.backward_never_fired
      /\ Gaps.single_backend_only \subseteq baseline.gaps.single_backend_only
      /\ Gaps.never_strided_input \subseteq baseline.gaps.never_strided_input
      /\ Gaps.never_across_workgroups \subseteq baseline.gaps.never_across_workgroups
  <2>1. DOMAIN Gaps = {"never_executed", "backward_never_fired", "single_backend_only", "never_strided_input",
                       "never_across_workgroups"}
    BY DEF Gaps
  <2>2. \A key \in DOMAIN Gaps : Gaps[key] \subseteq baseline.gaps[key]
    BY <1>2 DEF Appeared
  <2> QED BY <2>1, <2>2
<1>4. path # "backward" => op \in Executed
  BY <1>1, <1>3 DEF Secure, Gaps
<1>5. path \in {"strided", "large", "both"} => op \in Computed
  BY <1>1, <1>4, ComputedOrView DEF Secure
<1>6. \A d \in Lines(op) : op \in Computed => d \in dispatches /\ d.op = op /\ d.backend # "view"
  BY ComputedOrView DEF Lines, RecordingInv, Recordable
<1>7. CASE path = "ran"
  BY <1>1, <1>4, <1>7 DEF Exercised
<1>8. CASE path = "backward"
  <2>1. op \in fired
    BY <1>1, <1>3, <1>8 DEF Secure, Gaps, Ruled
  <2> QED BY <1>1, <1>8, <2>1 DEF Exercised
<1>9. CASE path = "strided"
  <2>1. op \notin Gaps.never_strided_input /\ Named(op).sources
    BY <1>1, <1>3, <1>9 DEF Secure
  <2>2. PICK d \in Lines(op) : d.strided
    BY <1>5, <1>9, <2>1 DEF Gaps
  <2>3. d \in dispatches /\ d.op = op /\ d.backend # "view"
    BY <1>5, <1>6, <1>9
  <2> QED BY <1>1, <1>9, <2>2, <2>3 DEF Exercised
<1>10. CASE path = "large"
  <2>1. op \notin Gaps.never_across_workgroups
    BY <1>1, <1>3, <1>10 DEF Secure
  <2>2. PICK d \in Lines(op) : d.large
    BY <1>5, <1>10, <2>1 DEF Gaps
  <2>3. d \in dispatches /\ d.op = op /\ d.backend # "view"
    BY <1>5, <1>6, <1>10
  <2> QED BY <1>1, <1>10, <2>2, <2>3 DEF Exercised
<1>11. CASE path = "both"
  <2>1. BackendsSeen = {"cpu", "vulkan"} /\ op \notin Gaps.single_backend_only
    BY <1>1, <1>2, <1>3, <1>11 DEF Secure
  <2>2. Cardinality({"cpu", "vulkan"}) = 2
    <3>1. Cardinality({"cpu"}) = 1 /\ IsFiniteSet({"cpu"})
      BY FS_Singleton
    <3>2. Cardinality({"cpu"} \cup {"vulkan"}) = Cardinality({"cpu"}) + 1
      BY <3>1, FS_AddElement
    <3>3. {"cpu", "vulkan"} = {"cpu"} \cup {"vulkan"}
      OBVIOUS
    <3> QED BY <3>1, <3>2, <3>3
  <2>3. {"cpu", "vulkan"} \subseteq Backends(op)
    BY <1>5, <1>11, <2>1, <2>2 DEF Gaps, SingleBackendOnly
  <2> QED BY <1>1, <1>5, <1>11, <2>3 DEF Exercised
<1> QED BY <1>1, <1>7, <1>8, <1>9, <1>10, <1>11 DEF Paths
\* Every step keeps the ratchet's invariant.
LEMMA OcStep == OcInv /\ [OcNext]_ocVars => OcInv'
<1> SUFFICES ASSUME OcInv, [OcNext]_ocVars PROVE BaselineInv' /\ NothingLost'
  BY RecordingStep DEF OcInv
<1> USE DEF OcInv
<1>1. CASE RunSuite
  <2>1. gate' = "none" /\ UNCHANGED <<baseline, accepted>>
    BY <1>1 DEF RunSuite
  <2> QED BY <2>1 DEF BaselineInv, Secure, NothingLost
<1>2. CASE WriteBaseline
  <2>1. gate' = "none"
    BY <1>2 DEF WriteBaseline
  <2> QED BY <1>2, <2>1, AcceptedSecure DEF NothingLost
<1>3. CASE Check
  <2>1. UNCHANGED <<dispatches, fired, baseline, accepted>>
    BY <1>3 DEF Check
  <2>2. BaselineInv' /\ Exercised' = Exercised
    BY <2>1 DEF BaselineInv, Secure, Exercised, Executed, Computed, IsView, Backends, Lines
  <2> QED BY <1>3, <2>1, <2>2, GreenMeansKept DEF NothingLost
<1>4. CASE (\E t \in Tests : EditSuite(t)) \/ HideOrShowGpu \/ UNCHANGED ocVars
  <2>1. UNCHANGED <<dispatches, fired, baseline, accepted, gate>>
    BY <1>4 DEF EditSuite, HideOrShowGpu, ocVars
  <2>2. BaselineInv' /\ Exercised' = Exercised
    BY <2>1 DEF BaselineInv, Secure, Exercised, Executed, Computed, IsView, Backends, Lines
  <2> QED BY <2>1, <2>2 DEF NothingLost
<1> QED BY <1>1, <1>2, <1>3, <1>4 DEF OcNext

\* coverage_matrix.py --check: when it finds no new gap, whatever was exercised
\* when the baseline was accepted was exercised again, for every inventory and
\* every suite, on whichever machines the sessions ran.
THEOREM RatchetHolds == OcSpec => []NothingLost
<1>1. OcInit => OcInv
  BY DEF OcInit, OcInv, RecordingInv, BaselineInv, NothingLost
<1>2. OcInv => NothingLost
  BY DEF OcInv
<1> QED BY <1>1, <1>2, OcStep, PTL DEF OcSpec

-----------------------------------------------------------------------------
(* Devices                                                                 *)

\* A set of naturals that is not empty has a least element.
LEMMA LeastOf ==
  ASSUME NEW S \in SUBSET Nat, S # {}
  PROVE  \E n \in S : \A m \in S : n <= m
<1> DEFINE Below == OpToRel(<, Nat)
<1>1. \E n \in S : \A m \in S : ~ (<<m, n>> \in Below)
  BY NatLessThanWellFounded, WFMin
<1>2. \A n, m \in Nat : <<m, n>> \in Below <=> m < n
  BY DEF OpToRel
<1> HIDE DEF Below
<1>3. PICK n \in S : \A m \in S : ~ (<<m, n>> \in Below)
  BY <1>1
<1>4. \A m \in S : ~ (m < n)
  BY <1>2, <1>3
<1> QED BY <1>4

\* What vulkan_device_reports() lists.
Reports == devices \in UNION {[1..n -> [type : DeviceKinds, missing : BOOLEAN]] : n \in 0..MaxDevices}

\* What the machine reports: at most so many devices, each of a known type.
LEMMA ReportOf ==
  ASSUME Reports
  PROVE  /\ Len(devices) \in 0..MaxDevices
         /\ Qualified \in SUBSET Nat
         /\ \A i \in 0..(Len(devices) - 1) : devices[i + 1].type \in DeviceKinds
<1>1. MaxDevices \in Nat
  BY DevicesAssumption
<1>2. PICK n \in 0..MaxDevices : devices \in [1..n -> [type : DeviceKinds, missing : BOOLEAN]]
  BY DEF Reports
<1>3. n \in Nat /\ Len(devices) = n
  BY <1>1, <1>2
<1>4. \A i \in 0..(n - 1) : devices[i + 1] \in [type : DeviceKinds, missing : BOOLEAN]
  BY <1>2, <1>3
<1>5. Qualified \in SUBSET Nat
  BY <1>3 DEF Qualified
<1> QED BY <1>2, <1>3, <1>4, <1>5

\* min() of best_device(): where a device qualifies there is a best one, and it
\* is discrete unless none that qualifies is.
LEMMA BestIsBest ==
  ASSUME Reports, Qualified # {}
  PROVE  Best \in Qualified /\ \A j \in Qualified : Rank(Best) <= Rank(j)
<1> DEFINE ofRank(r) == {i \in Qualified : Rank(i) = r}
<1>1. Qualified \in SUBSET Nat /\ \A i \in Qualified : Rank(i) \in {0, 1}
  BY ReportOf DEF Rank
<1>2. PICK r \in {0, 1} : ofRank(r) # {} /\ \A j \in Qualified : r <= Rank(j)
  <2>1. CASE ofRank(0) # {}
    BY <1>1, <2>1
  <2>2. CASE ofRank(0) = {}
    <3>1. \A j \in Qualified : Rank(j) = 1
      BY <1>1, <2>2
    <3>2. ofRank(1) # {} /\ \A j \in Qualified : 1 <= Rank(j)
      BY <3>1
    <3> QED BY <3>2
  <2> QED BY <2>1, <2>2
<1>3. PICK i \in ofRank(r) : \A j \in ofRank(r) : i <= j
  BY <1>1, <1>2, LeastOf
<1>4. \E b \in Qualified : \A j \in Qualified : Rank(b) < Rank(j) \/ (Rank(b) = Rank(j) /\ b <= j)
  <2>1. \A j \in Qualified : Rank(i) < Rank(j) \/ (Rank(i) = Rank(j) /\ i <= j)
    BY <1>1, <1>2, <1>3
  <2> QED BY <1>3, <2>1
<1>5. Best \in Qualified /\ \A j \in Qualified : Rank(Best) < Rank(j) \/ (Rank(Best) = Rank(j) /\ Best <= j)
  <2> DEFINE isBest(b) == \A j \in Qualified : Rank(b) < Rank(j) \/ (Rank(b) = Rank(j) /\ b <= j)
  <2> DEFINE chosen == CHOOSE b \in Qualified : isBest(b)
  <2>1. \E b \in Qualified : isBest(b)
    BY <1>4
  <2> HIDE DEF isBest
  <2>2. chosen \in Qualified /\ isBest(chosen)
    BY <2>1
  <2>3. Best = chosen
    BY DEF Best, isBest
  <2> HIDE DEF chosen
  <2> QED BY <2>2, <2>3 DEF isBest
<1>6. Rank(Best) \in {0, 1} /\ \A j \in Qualified : Rank(j) \in {0, 1}
  BY <1>1, <1>5
<1> HIDE DEF ofRank
<1> QED BY <1>5, <1>6

DvInv == Reports /\ NeverDowngraded

\* auto: best_device() asked for the device it prefers, and nothing else.
LEMMA AutoHonest ==
  ASSUME Reports, BestDevice, question' = Name("auto"), UNCHANGED <<compiled, devices, broken>>
  PROVE  NeverDowngraded'
<1>0. Qualified' = Qualified /\ \A i : Rank(i)' = Rank(i)
  BY DEF Qualified, Rank
<1>1. CASE ~compiled \/ devices = <<>> \/ Qualified = {}
  <2>1. answer' = Cpu
    BY <1>1 DEF BestDevice
  <2>2. compiled' => Qualified' = {}
    <3>1. CASE devices = <<>>
      BY <1>0, <3>1 DEF Qualified
    <3> QED BY <1>0, <1>1, <3>1
  <2> QED BY <2>1, <2>2 DEF NeverDowngraded, Cpu, Name, Refusals
<1>2. CASE ~(~compiled \/ devices = <<>> \/ Qualified = {})
  <2>1. Best \in Qualified /\ \A j \in Qualified : Rank(Best) <= Rank(j)
    BY <1>2, BestIsBest
  <2>2. registered' = RegisteredWith(Best) /\ answer' = IF InitFails(Best) THEN Cpu ELSE Vulkan(Best)
    BY <1>2 DEF BestDevice
  <2>3. CASE InitFails(Best)
    <3>1. Best \in broken'
      BY <2>1, <2>3, ReportOf DEF InitFails, Qualified
    <3>2. \A i \in Qualified' \ broken' : \E j \in Qualified' \cap broken' : Rank(j)' <= Rank(i)'
      BY <1>0, <2>1, <3>1
    <3>3. answer' = Cpu
      BY <2>2, <2>3
    <3> QED BY <3>2, <3>3 DEF NeverDowngraded, Cpu, Name, Refusals
  <2>4. CASE ~InitFails(Best)
    <3>1. answer' = Vulkan(Best) /\ Best \in registered'
      BY <2>2, <2>4 DEF RegisteredWith
    <3>2. answer'.at = Best /\ answer' \notin Refusals \cup {Cpu}
      BY <3>1 DEF Vulkan, Cpu, Name, Refusals
    <3>3. ASSUME NEW i \in 0..(Len(devices) - 1), devices[i + 1].type = "discrete", ~devices[i + 1].missing
          PROVE  devices[Best + 1].type = "discrete"
      BY <2>1, <3>3 DEF Qualified, Rank
    <3> QED BY <3>1, <3>2, <3>3 DEF NeverDowngraded, Name
  <2> QED BY <2>3, <2>4
<1> QED BY <1>1, <1>2

\* A device with a name: that one, with its backend, or an exception.
LEMMA NamedHonest ==
  ASSUME NEW name \in DeviceArguments, name.is \notin {"cpu", "auto", "vulkan"},
         NamedDevice(name), question' = name
  PROVE  NeverDowngraded'
<1>1. CASE ~compiled
  <2>1. answer' = Name("AttributeError")
    BY <1>1 DEF NamedDevice
  <2> QED BY <2>1 DEF NeverDowngraded, Refusals
<1>2. CASE compiled
  <2>1. /\ registered' = RegisteredWith(name.at)
        /\ answer' = IF InitFails(name.at) THEN Name("DeviceError") ELSE Parsed(name)
    BY <1>2 DEF NamedDevice, Initialised, IndexOf
  <2>2. CASE InitFails(name.at)
    BY <2>1, <2>2 DEF NeverDowngraded, Refusals
  <2>3. CASE ~InitFails(name.at)
    <3>1. answer' = Parsed(name) /\ name.at \in registered'
      BY <2>1, <2>3 DEF RegisteredWith
    <3>2. answer' \in Refusals \cup {Cpu, name}
      BY <3>1 DEF Parsed, Refusals
    <3>3. name.is \notin {"cpu:0"} => answer' \in Refusals \cup {name}
      BY <3>1 DEF Parsed, Refusals
    <3> QED BY <3>1, <3>2, <3>3 DEF NeverDowngraded
  <2> QED BY <2>2, <2>3
<1> QED BY <1>1, <1>2

\* Every choice of a device is one the invariant describes.
LEMMA DvStep == DvInv /\ [DvNext]_dvVars => DvInv'
<1> SUFFICES ASSUME DvInv, [DvNext]_dvVars PROVE DvInv'
  OBVIOUS
<1>1. CASE UNCHANGED dvVars
  BY <1>1 DEF DvInv, dvVars, Reports, NeverDowngraded, Qualified, Rank
<1>2. ASSUME NEW name \in DeviceArguments, ResolveDevice(name) PROVE DvInv'
  <2>1. question' = name /\ UNCHANGED <<compiled, devices, broken>>
    BY <1>2 DEF ResolveDevice
  <2>2. Reports'
    BY <2>1 DEF DvInv, Reports
  <2>3. CASE name.is = "cpu"
    <3>1. answer' = Cpu
      BY <1>2, <2>3 DEF ResolveDevice
    <3> QED BY <2>1, <2>2, <2>3, <3>1 DEF DvInv, NeverDowngraded
  <2>4. CASE name.is = "auto"
    <3>1. BestDevice
      BY <1>2, <2>4 DEF ResolveDevice
    <3>2. name = Name("auto")
      BY <2>4 DEF DeviceArguments, Name, Vulkan
    <3> QED BY <2>1, <2>2, <3>1, <3>2, AutoHonest DEF DvInv
  <2>5. CASE name.is = "vulkan"
    <3>1. answer' = Name("SystemExit")
      BY <1>2, <2>5 DEF ResolveDevice
    <3> QED BY <2>1, <2>2, <2>5, <3>1 DEF DvInv, NeverDowngraded, Refusals
  <2>6. CASE name.is \notin {"cpu", "auto", "vulkan"}
    <3>1. NamedDevice(name)
      BY <1>2, <2>6 DEF ResolveDevice
    <3> QED BY <2>1, <2>2, <2>6, <3>1, NamedHonest DEF DvInv
  <2> QED BY <2>3, <2>4, <2>5, <2>6
<1> QED BY <1>1, <1>2 DEF DvNext

\* resolve_device(): for every machine, whatever is broken on it and whatever was
\* asked before, a device that is named is the device that is used or an
\* exception, and only auto falls back - to the CPU, when its choice fails.
THEOREM DevicesHonest == DvSpec => []NeverDowngraded
<1>1. DvInit => DvInv
  BY DEF DvInit, DvInv, Reports, NeverDowngraded, Cpu, Name
<1>2. DvInv => NeverDowngraded
  BY DEF DvInv
<1> QED BY <1>1, <1>2, DvStep, PTL DEF DvSpec
-----------------------------------------------------------------------------
(* Benchmarks                                                              *)

Tools == {"gpu_bench", "latency_bench"}
Submission == [kernel : KernelNames \cup {Warm}, of : Nat, timed : BOOLEAN]
Waits(c) == Suite[c].waits \/ tool = "latency_bench"
OwnOf(c, i) == i \in 1..Len(queue) /\ IsOwn(c, i)

BeType ==
  /\ kernels \in Revisions /\ tool \in Tools /\ queue \in Seq(Submission) /\ turn \in Nat
  /\ bpc \in {"idle", "submit", "wait", "read", "report"}
  /\ times = <<>> \/ DOMAIN times = DOMAIN Suite
  /\ bpc # "idle" => DOMAIN times = DOMAIN Suite
  /\ bpc \in {"submit", "wait", "read"} => case \in DOMAIN Suite

(* While a case waits, its last submission is its own and is timed; when it     *)
(* reads, that one is what is read.                                             *)
ReadsItsOwn ==
  /\ bpc = "wait" => Len(queue) # 0 /\ queue[Len(queue)].timed /\ IsOwn(case, Len(queue))
  /\ bpc = "read" /\ Waits(case) => lastRead = Len(queue) /\ OwnOf(case, lastRead)
TimesOwn == \A c \in DOMAIN times : Waits(c) => \A i \in times[c] : OwnOf(c, i)

(* The baseline holds, for a case that waits, the time of its kernel then.      *)
BaselineOf(p) ==
  /\ p.kernels \in Revisions
  /\ \A k \in KernelNames : p.registers[k] = p.kernels[k].registers
  /\ \A c \in DOMAIN Suites["gpu_bench"] : Suites["gpu_bench"][c].waits =>
       p.times[c] \in {0, p.kernels[Suites["gpu_bench"][c].kernel].time}
Alarm(w) ==
  \/ \E k \in KernelNames : /\ w = <<"registers", k>>
                        /\ kernels[k].registers # prior.kernels[k].registers
  \/ \E c \in DOMAIN Suite : /\ w = <<"kernel", c>>
                             /\ Suite[c].waits => kernels[Suite[c].kernel].time > prior.kernels[Suite[c].kernel].time
AlarmsMean ==
  warnings # {} => /\ bpc = "idle" /\ prior.machine = machine
                   /\ \A w \in warnings : Alarm(w)

BeInv == BeType /\ ReadsItsOwn /\ TimesOwn /\ (prior = NoPrior \/ BaselineOf(prior)) /\ AlarmsMean

(* What the cases of a tool are. *)
LEMMA Cases ==
  /\ \A t \in Tools : Suites[t] \in Seq(Benchmark) /\ Suites[t] # <<>> /\ 1 \in DOMAIN Suites[t]
                      /\ \A c \in DOMAIN Suites[t] : /\ c \in Nat /\ Suites[t][c].kernel \in KernelNames
                                                     /\ Suites[t][c].kernel # Warm
                                                     /\ Suites[t][c].waits \in BOOLEAN
                      /\ DOMAIN Suites[t] = 1..Len(Suites[t]) /\ Len(Suites[t]) \in Nat
  /\ DOMAIN Suites = Tools
  /\ \A k \in Revisions : /\ DOMAIN k = KernelNames
                          /\ \A n \in KernelNames : k[n].time \in Nat /\ k[n].registers \in Nat
<1>1. ASSUME NEW t \in Tools
      PROVE  /\ Suites[t] \in Seq(Benchmark) /\ Suites[t] # <<>> /\ 1 \in DOMAIN Suites[t]
             /\ \A c \in DOMAIN Suites[t] : /\ c \in Nat /\ Suites[t][c].kernel \in KernelNames
                                            /\ Suites[t][c].kernel # Warm
                                            /\ Suites[t][c].waits \in BOOLEAN
             /\ DOMAIN Suites[t] = 1..Len(Suites[t]) /\ Len(Suites[t]) \in Nat
  <2>1. Suites[t] \in Seq(Benchmark) /\ Suites[t] # <<>>
    BY <1>1, BenchAssumption DEF Tools
  <2>2. DOMAIN Suites[t] = 1..Len(Suites[t]) /\ Len(Suites[t]) \in Nat /\ 1 \in DOMAIN Suites[t]
    BY <2>1
  <2>3. ASSUME NEW c \in DOMAIN Suites[t]
        PROVE  /\ c \in Nat /\ Suites[t][c].kernel \in KernelNames /\ Suites[t][c].kernel # Warm
               /\ Suites[t][c].waits \in BOOLEAN
    <3>1. Suites[t][c] \in Benchmark /\ c \in Nat
      BY <2>1, <2>2
    <3> QED BY <3>1, BenchAssumption DEF Benchmark
  <2> QED BY <2>1, <2>2, <2>3
<1>2. DOMAIN Suites = Tools
  BY BenchAssumption DEF Tools
<1>3. ASSUME NEW k \in Revisions
      PROVE  DOMAIN k = KernelNames /\ \A n \in KernelNames : k[n].time \in Nat /\ k[n].registers \in Nat
  BY BenchAssumption
<1> QED BY <1>1, <1>2, <1>3

(* At start no time has been taken, nothing is warned of and there is no baseline. *)
LEMMA BenchInit == BeInit => BeInv
<1> SUFFICES ASSUME BeInit PROVE BeInv
  OBVIOUS
<1>1. BeType
  BY BenchAssumption DEF BeInit, BeType, Tools
<1>2. TimesOwn
  BY DEF BeInit, TimesOwn
<1>3. ReadsItsOwn /\ AlarmsMean /\ prior = NoPrior
  BY DEF BeInit, ReadsItsOwn, AlarmsMean
<1> QED BY <1>1, <1>2, <1>3 DEF BeInv

(* The code or the machine changes between runs: what the old one measured is   *)
(* forgotten, and the baseline stays as it was recorded.                        *)
LEMMA ChangesKeep ==
  ASSUME BeInv, (\E k \in Revisions : Rewrite(k)) \/ (\E m \in Machines : MoveToMachine(m))
  PROVE  BeInv'
<1>1. /\ bpc = "idle" /\ kernels' \in Revisions /\ warnings' = {} /\ times' = <<>>
      /\ UNCHANGED <<tool, bpc, case, turn, queue, prior>>
  BY DEF BeInv, BeType, Rewrite, MoveToMachine
<1>2. BeType'
  BY <1>1 DEF BeInv, BeType, Suite
<1>3. ReadsItsOwn' /\ AlarmsMean'
  BY <1>1 DEF ReadsItsOwn, AlarmsMean
<1>4. TimesOwn'
  BY <1>1 DEF TimesOwn
<1>5. (prior = NoPrior \/ BaselineOf(prior))'
  BY <1>1 DEF BeInv, BaselineOf
<1> QED BY <1>2, <1>3, <1>4, <1>5 DEF BeInv

\* A suite starts with an empty queue and no times.
LEMMA StartBenchKeeps == ASSUME BeInv, NEW t \in DOMAIN Suites, StartBench(t) PROVE BeInv'
<1>1. /\ tool' = t /\ bpc' = "submit" /\ case' = 1 /\ turn' = 1 /\ queue' = <<>> /\ warnings' = {}
      /\ times' = [c \in DOMAIN Suites[t] |-> {}] /\ UNCHANGED <<kernels, machine, prior>>
  BY DEF StartBench
<1>2. t \in Tools /\ 1 \in DOMAIN Suites[t]
  BY Cases
<1>3. BeType'
  BY <1>1, <1>2 DEF BeInv, BeType, Suite
<1>4. ReadsItsOwn' /\ AlarmsMean' /\ TimesOwn'
  BY <1>1 DEF ReadsItsOwn, AlarmsMean, TimesOwn
<1>5. (prior = NoPrior \/ BaselineOf(prior))'
  BY <1>1 DEF BeInv, BaselineOf
<1> QED BY <1>3, <1>4, <1>5 DEF BeInv

(* While a run is on nothing has been warned of. *)
LEMMA Running == ASSUME BeInv, bpc # "idle" PROVE warnings = {}
BY DEF BeInv, AlarmsMean

\* A submission joins the queue, with a query of its own when it is timed.
LEMMA SubmitKeeps == ASSUME BeInv, Submit PROVE BeInv'
<1> DEFINE new == [kernel |-> IF Warming THEN Warm ELSE Suite[case].kernel, of |-> case,
                   timed |-> tool = "gpu_bench" \/ ~Warming]
<1>1. /\ queue' = Append(queue, new)
      /\ UNCHANGED <<kernels, machine, tool, case, times, prior, warnings>> /\ bpc = "submit"
  BY DEF Submit
<1>2. /\ bpc' \in {"submit", "wait", "read"}
      /\ bpc' = "wait" => ~Warming
      /\ bpc' = "read" => ~Waits(case)
  <2>1. turn \in Nat /\ WarmUps \in Nat /\ (Warming <=> turn <= WarmUps)
    BY BenchAssumption DEF BeInv, BeType, Warming
  <2>2. bpc' = IF ~Warming /\ Waits(case) THEN "wait" ELSE IF turn > WarmUps + 1 THEN "read" ELSE "submit"
    BY DEF Submit, Waits, SynchronizesEach
  <2>3. turn > WarmUps + 1 => ~Warming
    BY <2>1
  <2> HIDE DEF Warming
  <2> QED BY <2>2, <2>3
<1>3. turn' \in Nat
  BY DEF BeInv, BeType, Submit
<1>4. case \in DOMAIN Suite /\ case \in Nat /\ Suite[case].kernel \in KernelNames /\ tool \in Tools
  BY <1>1, Cases DEF BeInv, BeType, Suite
<1>5. new \in Submission
  BY <1>4 DEF Submission
<1>6. new.of = case /\ (~Warming => new.timed /\ new.kernel = Suite[case].kernel)
  OBVIOUS
<1> HIDE DEF new
<1>7. /\ queue' \in Seq(Submission) /\ Len(queue') = Len(queue) + 1 /\ Len(queue) \in Nat
      /\ queue'[Len(queue) + 1] = new /\ \A i \in 1..Len(queue) : queue'[i] = queue[i]
  BY <1>1, <1>5 DEF BeInv, BeType
<1>8. BeType'
  BY <1>1, <1>2, <1>3, <1>4, <1>7 DEF BeInv, BeType, Suite
<1>9. ReadsItsOwn'
  <2>1. bpc' = "wait" => queue'[Len(queue')].timed /\ IsOwn(case, Len(queue))'
    BY <1>1, <1>2, <1>6, <1>7 DEF IsOwn, Suite
  <2>2. (bpc = "read" => ~Waits(case))'
    BY <1>1, <1>2 DEF Waits, Suite
  <2> QED BY <1>7, <2>1, <2>2 DEF ReadsItsOwn
<1>10. TimesOwn'
  <2>1. \A c : Waits(c)' <=> Waits(c)
    BY <1>1 DEF Waits, Suite
  <2>2. \A c, i : OwnOf(c, i) => OwnOf(c, i)'
    BY <1>1, <1>7 DEF OwnOf, IsOwn, Suite
  <2> QED BY <1>1, <2>1, <2>2 DEF BeInv, TimesOwn
<1>11. AlarmsMean' /\ (prior = NoPrior \/ BaselineOf(prior))'
  BY <1>1, Running DEF BeInv, AlarmsMean, BaselineOf
<1> QED BY <1>8, <1>9, <1>10, <1>11 DEF BeInv

(* What a step that leaves the process, the times and the code alone keeps. *)
LEMMA FinishKeeps == ASSUME BeInv, GpuFinishes PROVE BeInv'
<1>1. UNCHANGED <<kernels, machine, tool, bpc, case, turn, queue, lastRead, times, prior, warnings>>
  BY DEF GpuFinishes
<1>2. BeType' /\ (prior = NoPrior \/ BaselineOf(prior))'
  BY <1>1 DEF BeInv, BeType, Suite, BaselineOf
<1>3. ReadsItsOwn' /\ TimesOwn'
  BY <1>1 DEF BeInv, ReadsItsOwn, TimesOwn, OwnOf, IsOwn, Waits, Suite
<1>4. AlarmsMean'
  BY <1>1 DEF BeInv, AlarmsMean, Alarm, Suite
<1> QED BY <1>2, <1>3, <1>4 DEF BeInv

(* Once everything is done, the newest timed submission is the last one. *)
LEMMA NewestIsLast ==
  ASSUME BeInv, bpc = "wait", finished = Len(queue)
  PROVE  NewestTimed(finished) = Len(queue)
<1> DEFINE S == {0} \cup {i \in 1..Len(queue) : queue[i].timed}
<1>1. Len(queue) \in S /\ Len(queue) \in Nat /\ \A i \in S : i \in Nat /\ Len(queue) >= i
  BY DEF BeInv, BeType, ReadsItsOwn
<1> HIDE DEF S
<1>2. Max(S) = Len(queue)
  BY <1>1 DEF Max
<1> QED BY <1>2 DEF NewestTimed, S

\* A wait returns once the queue is finished; the newest query read is then the last one submitted.
LEMMA WaitedKeeps == ASSUME BeInv, Waited PROVE BeInv'
<1>1. /\ bpc = "wait" /\ finished = Len(queue) /\ lastRead' = NewestTimed(finished)
      /\ bpc' \in {"read", "submit"} /\ turn' \in Nat
      /\ UNCHANGED <<kernels, machine, tool, case, queue, times, prior, warnings>>
  BY DEF BeInv, BeType, Waited
<1>2. lastRead' = Len(queue)
  BY <1>1, NewestIsLast
<1>3. BeType' /\ (prior = NoPrior \/ BaselineOf(prior))'
  BY <1>1 DEF BeInv, BeType, Suite, BaselineOf
<1>4. Len(queue) \in 1..Len(queue) /\ IsOwn(case, Len(queue))
  BY <1>1 DEF BeInv, BeType, ReadsItsOwn
<1>5. ReadsItsOwn'
  BY <1>1, <1>2, <1>4 DEF ReadsItsOwn, OwnOf, IsOwn, Suite
<1>6. TimesOwn'
  BY <1>1 DEF BeInv, TimesOwn, OwnOf, IsOwn, Waits, Suite
<1>7. AlarmsMean'
  BY <1>1, Running DEF AlarmsMean
<1> QED BY <1>3, <1>5, <1>6, <1>7 DEF BeInv

\* The time that is read is of the case that is being measured.
LEMMA ReadKeeps == ASSUME BeInv, Read PROVE BeInv'
<1>1. /\ bpc = "read" /\ times' = [times EXCEPT ![case] = @ \cup ({lastRead} \ {0})]
      /\ UNCHANGED <<kernels, machine, tool, queue, lastRead, prior, warnings>>
  BY DEF Read
<1>2. /\ DOMAIN times = DOMAIN Suite /\ case \in DOMAIN Suite /\ tool \in Tools
      /\ DOMAIN Suite = 1..Len(Suite) /\ Len(Suite) \in Nat
  BY <1>1, Cases DEF BeInv, BeType, Suite
<1>3. bpc' \in {"submit", "report"} /\ turn' \in Nat /\ (bpc' = "submit" => case' \in DOMAIN Suite)
  BY <1>2, BenchAssumption DEF BeInv, BeType, Read
<1>4. DOMAIN times' = DOMAIN Suite
  BY <1>1, <1>2
<1>5. BeType'
  BY <1>1, <1>3, <1>4 DEF BeInv, BeType, Suite
<1>6. ReadsItsOwn' /\ AlarmsMean' /\ (prior = NoPrior \/ BaselineOf(prior))'
  BY <1>1, <1>3, Running DEF BeInv, ReadsItsOwn, AlarmsMean, BaselineOf
<1>7. TimesOwn'
  <2>1. ASSUME NEW c \in DOMAIN Suite, Waits(c), NEW i \in times'[c] PROVE OwnOf(c, i)
    <3>1. CASE i \in times[c]
      BY <1>2, <2>1, <3>1 DEF BeInv, TimesOwn
    <3>2. CASE i \notin times[c]
      <4>1. c = case /\ i = lastRead
        BY <1>1, <1>2, <2>1, <3>2
      <4> QED BY <1>1, <2>1, <4>1 DEF BeInv, ReadsItsOwn
    <3> QED BY <3>1, <3>2
  <2>2. \A c, i : (OwnOf(c, i) => OwnOf(c, i)') /\ (Waits(c)' => Waits(c))
    BY <1>1 DEF OwnOf, IsOwn, Waits, Suite
  <2> QED BY <1>4, <2>1, <2>2 DEF TimesOwn
<1> QED BY <1>5, <1>6, <1>7 DEF BeInv

(* The time of a case that waits is the time of its kernel. *)
LEMMA FastestIsKernels ==
  ASSUME BeInv, NEW c \in DOMAIN times, c \in DOMAIN Suite, Waits(c)
  PROVE  Fastest[c] \in {0, kernels[Suite[c].kernel].time}
<1> DEFINE v == kernels[Suite[c].kernel].time
<1>1. Suite[c].kernel # Warm /\ Suite[c].kernel \in KernelNames /\ v \in Nat
  BY Cases DEF BeInv, BeType, Suite
<1>2. \A i \in times[c] : TimeOf(i) = v
  BY <1>1 DEF BeInv, TimesOwn, OwnOf, IsOwn, TimeOf
<1> HIDE DEF v
<1>3. times[c] # {} => {TimeOf(i) : i \in times[c]} = {v}
  BY <1>2
<1>4. Min({v}) = v
  BY <1>1 DEF Min
<1>5. Fastest[c] = IF times[c] = {} THEN 0 ELSE Min({TimeOf(i) : i \in times[c]})
  BY DEF Fastest
<1> QED BY <1>3, <1>4, <1>5 DEF v

\* A baseline records the fastest time of each case of the suite that ran.
LEMMA RecordKeeps == ASSUME BeInv, NEW f \in Floors, RecordBaseline(f) PROVE BeInv'
<1>1. /\ bpc = "report" /\ tool = "gpu_bench" /\ bpc' = "idle"
      /\ prior' = [machine |-> machine, times |-> Fastest, floor |-> f, registers |-> Registers,
                   kernels |-> kernels]
      /\ UNCHANGED <<kernels, machine, tool, case, turn, queue, lastRead, times, warnings>>
  BY DEF RecordBaseline, Process
<1>2. BeType'
  BY <1>1 DEF BeInv, BeType, Suite
<1>3. ReadsItsOwn' /\ AlarmsMean'
  BY <1>1, Running DEF ReadsItsOwn, AlarmsMean
<1>4. TimesOwn'
  BY <1>1 DEF BeInv, TimesOwn, OwnOf, IsOwn, Waits, Suite
<1>5. BaselineOf(prior')
  <2>1. prior'.kernels = kernels /\ prior'.registers = Registers /\ prior'.times = Fastest
    BY <1>1
  <2>2. kernels \in Revisions /\ DOMAIN kernels = KernelNames
    BY Cases DEF BeInv, BeType
  <2>3. DOMAIN times = DOMAIN Suite /\ Suite = Suites["gpu_bench"]
    BY <1>1 DEF BeInv, BeType, Suite
  <2>4. \A c \in DOMAIN Suite : Suite[c].waits => Fastest[c] \in {0, kernels[Suite[c].kernel].time}
    BY <2>3, FastestIsKernels DEF Waits
  <2> QED BY <2>1, <2>2, <2>3, <2>4 DEF BaselineOf, Registers
<1> QED BY <1>2, <1>3, <1>4, <1>5 DEF BeInv

(* What exceeds a threshold over a baseline is larger than it. *)
LEMMA Exceeds ==
  ASSUME NEW t2 \in Nat, NEW t1 \in Nat, t1 > 0, (t2 - t1) * 100 > Threshold * t1
  PROVE  t2 > t1
BY DEF Threshold

\* A comparison warns of cases slower than the noise floor allows, or with more registers.
LEMMA CompareKeeps == ASSUME BeInv, CompareBaseline PROVE BeInv'
<1>1. /\ bpc = "report" /\ tool = "gpu_bench" /\ bpc' = "idle" /\ prior # NoPrior
      /\ UNCHANGED <<kernels, machine, tool, case, turn, queue, lastRead, times, prior>>
  BY DEF CompareBaseline, Process
<1>2. BeType'
  BY <1>1 DEF BeInv, BeType, Suite
<1>3. ReadsItsOwn' /\ (prior = NoPrior \/ BaselineOf(prior))'
  BY <1>1 DEF BeInv, ReadsItsOwn, BaselineOf
<1>4. TimesOwn'
  BY <1>1 DEF BeInv, TimesOwn, OwnOf, IsOwn, Waits, Suite
<1>5. BaselineOf(prior) /\ kernels \in Revisions /\ DOMAIN kernels = KernelNames
  BY <1>1, Cases DEF BeInv, BeType
<1>6. Suite = Suites["gpu_bench"] /\ DOMAIN times = DOMAIN Suite /\ DOMAIN Fastest = DOMAIN Suite
  BY <1>1 DEF BeInv, BeType, Suite, Fastest
<1>7. ASSUME NEW w \in warnings' PROVE prior.machine = machine /\ Alarm(w)
  <2>1. prior.machine = machine /\
        (\/ w \in {<<"kernel", c>> : c \in {c \in DOMAIN Fastest : Slower(Fastest[c], prior.times[c])}}
         \/ w \in {<<"registers", k>> : k \in {k \in DOMAIN kernels : Registers[k] # prior.registers[k]}})
    BY <1>7 DEF CompareBaseline
  <2>2. CASE w \in {<<"registers", k>> : k \in {k \in DOMAIN kernels : Registers[k] # prior.registers[k]}}
    <3>1. PICK k \in KernelNames : w = <<"registers", k>> /\ Registers[k] # prior.registers[k]
      BY <1>5, <2>2
    <3>2. Registers[k] = kernels[k].registers /\ prior.registers[k] = prior.kernels[k].registers
      BY <1>5, <3>1 DEF Registers, BaselineOf
    <3> QED BY <2>1, <3>1, <3>2 DEF Alarm
  <2>3. CASE w \in {<<"kernel", c>> : c \in {c \in DOMAIN Fastest : Slower(Fastest[c], prior.times[c])}}
    <3>1. PICK c \in DOMAIN Suite : w = <<"kernel", c>> /\ Slower(Fastest[c], prior.times[c])
      BY <1>6, <2>3
    <3>2. ASSUME Suite[c].waits
          PROVE  kernels[Suite[c].kernel].time > prior.kernels[Suite[c].kernel].time
      <4>1. /\ prior.times[c] \in {0, prior.kernels[Suite[c].kernel].time}
            /\ Fastest[c] \in {0, kernels[Suite[c].kernel].time}
        BY <1>5, <1>6, <3>2, FastestIsKernels DEF BaselineOf, Waits
      <4>2. kernels[Suite[c].kernel].time \in Nat /\ prior.kernels[Suite[c].kernel].time \in Nat
        BY <1>1, <1>5, Cases DEF BaselineOf, Suite, Tools
      <4>3. prior.times[c] > 0 /\ Fastest[c] > 0 /\ (Fastest[c] - prior.times[c]) * 100 > Threshold * prior.times[c]
        BY <3>1 DEF Slower
      <4> DEFINE t2 == Fastest[c]
                 t1 == prior.times[c]
      <4>4. t2 \in Nat /\ t1 \in Nat
        BY <4>1, <4>2
      <4>5. t2 > t1
        <5> HIDE DEF t2, t1
        <5>1. t1 > 0 /\ (t2 - t1) * 100 > Threshold * t1
          BY <4>3 DEF t2, t1
        <5> QED BY <4>4, <5>1, Exceeds
      <4> QED BY <4>1, <4>3, <4>5
    <3> QED BY <2>1, <3>1, <3>2 DEF Alarm
  <2> QED BY <2>1, <2>2, <2>3
<1>8. AlarmsMean'
  <2>1. \A w : Alarm(w) => Alarm(w)'
    BY <1>1 DEF Alarm, Suite
  <2>2. \A w \in warnings' : (prior.machine = machine)' /\ Alarm(w)'
    BY <1>1, <1>7, <2>1
  <2> QED BY <1>1, <2>2 DEF AlarmsMean
<1> QED BY <1>2, <1>3, <1>4, <1>8 DEF BeInv

\* A run that neither records nor compares changes nothing that was measured.
LEMMA ReportKeeps == ASSUME BeInv, ReportBench PROVE BeInv'
<1>1. /\ bpc = "report" /\ bpc' = "idle"
      /\ UNCHANGED <<kernels, machine, tool, case, turn, queue, lastRead, times, prior, warnings>>
  BY DEF ReportBench, Process
<1>2. BeType' /\ (prior = NoPrior \/ BaselineOf(prior))'
  BY <1>1 DEF BeInv, BeType, Suite, BaselineOf
<1>3. ReadsItsOwn' /\ AlarmsMean'
  BY <1>1, Running DEF ReadsItsOwn, AlarmsMean
<1>4. TimesOwn'
  BY <1>1 DEF BeInv, TimesOwn, OwnOf, IsOwn, Waits, Suite
<1> QED BY <1>2, <1>3, <1>4 DEF BeInv

\* Every step of the benchmarks preserves the invariant.
LEMMA BeInvNext == BeInv /\ [BeNext]_beVars => BeInv'
<1> SUFFICES ASSUME BeInv, [BeNext]_beVars PROVE BeInv'
  OBVIOUS
<1>1. CASE UNCHANGED beVars
  <2>1. UNCHANGED <<kernels, machine, tool, bpc, case, turn, queue, lastRead, times, prior, warnings>>
    BY <1>1 DEF beVars
  <2>2. BeType' /\ (prior = NoPrior \/ BaselineOf(prior))'
    BY <2>1 DEF BeInv, BeType, Suite, BaselineOf
  <2>3. ReadsItsOwn' /\ TimesOwn'
    BY <2>1 DEF BeInv, ReadsItsOwn, TimesOwn, OwnOf, IsOwn, Waits, Suite
  <2>4. AlarmsMean'
    BY <2>1 DEF BeInv, AlarmsMean, Alarm, Suite
  <2> QED BY <2>2, <2>3, <2>4 DEF BeInv
<1>2. CASE (\E k \in Revisions : Rewrite(k)) \/ (\E m \in Machines : MoveToMachine(m))
  BY <1>2, ChangesKeep
<1>3. CASE \E t \in DOMAIN Suites : StartBench(t)
  BY <1>3, StartBenchKeeps
<1>4. CASE Submit \/ GpuFinishes \/ Waited \/ Read
  BY <1>4, SubmitKeeps, FinishKeeps, WaitedKeeps, ReadKeeps
<1>5. CASE (\E f \in Floors : RecordBaseline(f)) \/ CompareBaseline \/ ReportBench
  BY <1>5, RecordKeeps, CompareKeeps, ReportKeeps
<1> QED BY <1>1, <1>2, <1>3, <1>4, <1>5 DEF BeNext

(* A benchmark's time is of its own case wherever the case waits, and an alarm  *)
(* about such a case is a kernel that has become slower on this machine.        *)
THEOREM BenchHonest == BeSpec => []AlarmMeansChange
<1>1. BeInv => AlarmMeansChange
  <2> SUFFICES ASSUME BeInv PROVE AlarmMeansChange
    OBVIOUS
  <2>1. \A c \in DOMAIN times : Suite[c].waits \/ tool = "latency_bench" => \A i \in times[c] : IsOwn(c, i)
    BY DEF BeInv, TimesOwn, Waits, OwnOf
  <2>2. ASSUME NEW w \in warnings
        PROVE  /\ prior.machine = machine
               /\ w[1] = "registers" => kernels[w[2]].registers # prior.kernels[w[2]].registers
               /\ w[1] = "kernel" => (Suite[w[2]].waits =>
                    kernels[Suite[w[2]].kernel].time > prior.kernels[Suite[w[2]].kernel].time)
               /\ w[1] \in {"registers", "kernel"}
    BY <2>2 DEF BeInv, AlarmsMean, Alarm
  <2> QED BY <2>1, <2>2 DEF AlarmMeansChange
<1> QED BY <1>1, BenchInit, BeInvNext, PTL DEF BeSpec

-----------------------------------------------------------------------------
(* Extraction from the source.  A scanner is a fold: its recursion has a   *)
(* solution (ScanExists), so that it goes through a state per line (Scans) *)
(* and what each line keeps holds at the end (ScanHolds).                  *)

\* A set of natural numbers that is not empty has a least element.
LEMMA LeastExists ==
  ASSUME NEW S \in SUBSET Nat, S # {}
  PROVE  \E x \in S : \A y \in S : x <= y
<1> DEFINE Below == OpToRel(<, Nat)
<1>1. \E x \in S : \A y \in S : ~ (<<y, x>> \in Below)
  BY NatLessThanWellFounded, WFMin
<1>2. \A x, y \in Nat : <<y, x>> \in Below <=> y < x
  BY DEF OpToRel
<1> HIDE DEF Below
<1>3. PICK x \in S : \A y \in S : ~ (<<y, x>> \in Below)
  BY <1>1
<1>4. \A y \in S : ~ (y < x)
  BY <1>2, <1>3
<1> QED BY <1>4

-----------------------------------------------------------------------------
(* Scanning.                                                               *)

\* The lines there are: of the kind of the file, or the end of a declaration,
\* which comes right after its opening line and nowhere else.
EndsOpened ==
  /\ \A i \in 1 .. Len(file) : file[i].is = "ends" => i # 1 /\ file[i - 1].is = "opens"
  /\ \A i \in 1 .. Len(file) : i # 1 /\ file[i - 1].is = "opens" => file[i].is = "ends"
OfKind ==
  /\ kind \in DOMAIN Alphabet
  /\ \A i \in 1 .. Len(file) : file[i] \in Alphabet[kind] \/ file[i].is = "ends"
ExInv ==
  /\ Len(file) \in Nat /\ file = [i \in 1 .. Len(file) |-> file[i]]
  /\ EndsOpened /\ OfKind

\* The scanners' steps, and where each starts.
ScanStep(what, x, i) ==
  CASE what = "header" -> HeaderLine(x, i)
    [] what = "class" -> ClassLine(x, i)
    [] what = "kernel" -> FunctionLine(x, i)
    [] what = "switch" -> SwitchLine(x, i)
    [] what = "test" -> TestLine(x, i)
Start(what) ==
  CASE what = "header" -> NothingYet
    [] what = "class" -> [doc |-> {}, out |-> <<>>, access |-> "private", opened |-> "", all |-> {}]
    [] what = "kernel" -> NothingYet
    [] what = "switch" -> [active |-> {}, map |-> {}]
    [] what = "test" -> [current |-> 0, index |-> {}]
ScanRule(what, it) ==
  [s \in SUBSET DOMAIN Numbered |->
     IF s = {} THEN Start(what) ELSE ScanStep(what, it[s \ {Max(s)}], Max(s))]

\* The states a scan goes through.
Scans(what, g) ==
  /\ g[0] = Start(what)
  /\ \A k \in 1 .. Len(file) : g[k] = ScanStep(what, g[k - 1], k)

\* Each line is numbered with its place.
LEMMA NumberedIs == ASSUME ExInv PROVE DOMAIN Numbered = 1 .. Len(file) /\ \A i \in 1 .. Len(file) : Numbered[i] = i
BY DEF ExInv, Numbered

\* The last of the first numbers.
LEMMA MaxOfTop ==
  ASSUME NEW m \in Nat, NEW s \in SUBSET (1 .. m + 1), m + 1 \in s
  PROVE  Max(s) = m + 1
<1>1. \A x \in s : x \in Nat /\ x <= m + 1
  OBVIOUS
<1>2. \A x \in s : (\A y \in s : x >= y) <=> x = m + 1
  BY <1>1
<1> QED BY <1>2 DEF Max

\* A set of the first numbers that is not empty has a last one.
LEMMA MaxIn ==
  ASSUME NEW m \in Nat, NEW s \in SUBSET (1 .. m), s # {}
  PROVE  Max(s) \in s
<1>1. s \in SUBSET Nat /\ \A y \in s : y <= m
  OBVIOUS
<1>2. \E x \in s : \A y \in s : x >= y
  <2> DEFINE Above == {u \in Nat : \A y \in s : y <= u}
  <2>1. m \in Above /\ Above \in SUBSET Nat
    BY <1>1
  <2>2. PICK u \in Above : \A v \in Above : u <= v
    BY <2>1, LeastExists
  <2>3. u \in s
    <3>1. CASE u = 0
      <4>1. PICK y \in s : TRUE
        OBVIOUS
      <4>2. y <= 0 /\ y \in 1 .. m
        BY <2>2, <3>1, <4>1
      <4> QED BY <4>2
    <3>2. CASE u # 0
      <4>1. u - 1 \in Nat /\ u - 1 \notin Above
        BY <2>2, <3>2
      <4>2. PICK y \in s : ~(y <= u - 1)
        BY <4>1
      <4>3. y <= u /\ y \in Nat /\ u \in Nat
        BY <1>1, <2>2
      <4> QED BY <4>2, <4>3
    <3> QED BY <3>1, <3>2
  <2> QED BY <1>1, <2>2, <2>3
<1> QED BY <1>2 DEF Max

\* The recursion of a fold has a solution.
LEMMA ScanExists ==
  ASSUME NEW what, ExInv
  PROVE  \E it : it = ScanRule(what, it)
<1> DEFINE Rule(m, it) == [s \in SUBSET (1 .. m) |->
                 IF s = {} THEN Start(what) ELSE ScanStep(what, it[s \ {Max(s)}], Max(s))]
           Bad == {m \in 0 .. Len(file) : ~ \E it : it = Rule(m, it)}
<1>1. \E it : it = Rule(0, it)
  <2> DEFINE it == [s \in SUBSET (1 .. 0) |-> Start(what)]
  <2>1. it = Rule(0, it)
    OBVIOUS
  <2> QED BY <2>1
<1>2. ASSUME NEW m \in Nat, NEW f, f = Rule(m, f) PROVE \E it : it = Rule(m + 1, it)
  <2> DEFINE it == [s \in SUBSET (1 .. m + 1) |->
                      IF m + 1 \in s THEN ScanStep(what, f[s \ {m + 1}], m + 1) ELSE f[s]]
  <2>1. ASSUME NEW s \in SUBSET (1 .. m + 1) PROVE it[s] = Rule(m + 1, it)[s]
    <3>1. CASE m + 1 \in s
      <4>1. Max(s) = m + 1 /\ s # {}
        BY <3>1, MaxOfTop
      <4>2. s \ {m + 1} \in SUBSET (1 .. m) /\ s \ {m + 1} \in SUBSET (1 .. m + 1)
        OBVIOUS
      <4>3. it[s \ {m + 1}] = f[s \ {m + 1}]
        BY <4>2
      <4>4. it[s] = ScanStep(what, f[s \ {m + 1}], m + 1)
        BY <3>1
      <4>5. Rule(m + 1, it)[s] = ScanStep(what, it[s \ {Max(s)}], Max(s))
        BY <4>1
      <4> HIDE DEF it, Rule
      <4> QED BY <4>1, <4>3, <4>4, <4>5
    <3>2. CASE m + 1 \notin s
      <4>1. s \in SUBSET (1 .. m)
        BY <3>2
      <4>2. it[s] = f[s] /\ f[s] = Rule(m, f)[s]
        BY <1>2, <3>2
      <4>3. CASE s = {}
        BY <4>1, <4>2, <4>3
      <4>4. CASE s # {}
        <5>1. Max(s) \in s
          BY <4>1, <4>4, MaxIn
        <5>2. s \ {Max(s)} \in SUBSET (1 .. m) /\ m + 1 \notin s \ {Max(s)}
          BY <3>2, <4>1
        <5>3. s \ {Max(s)} \in SUBSET (1 .. m + 1)
          OBVIOUS
        <5>4. it[s \ {Max(s)}] = f[s \ {Max(s)}]
          BY <5>2, <5>3
        <5>5. Rule(m, f)[s] = ScanStep(what, f[s \ {Max(s)}], Max(s))
          BY <4>1, <4>4
        <5>6. Rule(m + 1, it)[s] = ScanStep(what, it[s \ {Max(s)}], Max(s))
          BY <4>4
        <5> HIDE DEF it, Rule
        <5> QED BY <4>2, <5>4, <5>5, <5>6
      <4> QED BY <4>3, <4>4
    <3> QED BY <3>1, <3>2
  <2>2. it = Rule(m + 1, it)
    <3>1. it = [s \in SUBSET (1 .. m + 1) |-> it[s]]
          /\ Rule(m + 1, it) = [s \in SUBSET (1 .. m + 1) |-> Rule(m + 1, it)[s]]
      OBVIOUS
    <3> HIDE DEF it, Rule
    <3> QED BY <2>1, <3>1
  <2> QED BY <2>2
<1>3. Bad = {}
  <2> HIDE DEF Rule
  <2> SUFFICES ASSUME Bad # {} PROVE FALSE
    OBVIOUS
  <2>1. Bad \in SUBSET Nat
    OBVIOUS
  <2>2. PICK m \in Bad : \A k \in Bad : m <= k
    BY <2>1, LeastExists
  <2>3. m # 0 /\ m \in Nat /\ m - 1 \in 0 .. Len(file) /\ m - 1 \in Nat /\ m - 1 + 1 = m
    BY <1>1, <2>2
  <2>4. m - 1 \notin Bad
    BY <2>2, <2>3
  <2>5. PICK f : f = Rule(m - 1, f)
    BY <2>3, <2>4
  <2>6. \E it : it = Rule(m - 1 + 1, it)
    BY <1>2, <2>3, <2>5
  <2> QED BY <2>2, <2>3, <2>6
<1>4. PICK it : it = Rule(Len(file), it)
  <2> HIDE DEF Rule
  <2>1. Len(file) \in 0 .. Len(file)
    OBVIOUS
  <2> QED BY <1>3, <2>1
<1>5. DOMAIN Numbered = 1 .. Len(file)
  BY NumberedIs
<1> QED BY <1>4, <1>5 DEF ScanRule

\* A solution of it gives the states the fold goes through.
LEMMA ScanSteps ==
  ASSUME NEW what, ExInv,
         NEW it, it = ScanRule(what, it)
  PROVE  \E g : Scans(what, g) /\ g[Len(file)] = it[DOMAIN Numbered]
<1> DEFINE g == [k \in 0 .. Len(file) |-> it[1 .. k]]
<1>1. \A s \in SUBSET DOMAIN Numbered :
        it[s] = IF s = {} THEN Start(what) ELSE ScanStep(what, it[s \ {Max(s)}], Max(s))
  BY DEF ScanRule
<1>2. g[0] = Start(what)
  <2>1. 1 .. 0 = {} /\ {} \in SUBSET DOMAIN Numbered /\ g[0] = it[1 .. 0]
    OBVIOUS
  <2>2. it[{}] = Start(what)
    BY <1>1, <2>1
  <2> HIDE DEF g
  <2> QED BY <2>1, <2>2
<1>3. ASSUME NEW k \in 1 .. Len(file) PROVE g[k] = ScanStep(what, g[k - 1], k)
  <2>1. k - 1 \in Nat /\ 1 .. k \in SUBSET (1 .. k - 1 + 1) /\ k - 1 + 1 \in 1 .. k /\ k - 1 + 1 = k
    OBVIOUS
  <2>2. Max(1 .. k) = k
    BY <2>1, MaxOfTop
  <2>3. (1 .. k) \ {k} = 1 .. k - 1 /\ 1 .. k # {} /\ 1 .. k \in SUBSET DOMAIN Numbered
    BY NumberedIs DEF ExInv
  <2>4. it[1 .. k] = ScanStep(what, it[1 .. k - 1], k)
    BY <1>1, <2>2, <2>3
  <2>5. g[k] = it[1 .. k] /\ g[k - 1] = it[1 .. k - 1]
    OBVIOUS
  <2> HIDE DEF g
  <2> QED BY <2>4, <2>5
<1>4. g[Len(file)] = it[DOMAIN Numbered]
  OBVIOUS
<1> HIDE DEF g
<1> QED BY <1>2, <1>3, <1>4 DEF Scans

\* The scan of a header.
HeaderRule(iter) ==
  [s \in SUBSET DOMAIN Numbered |->
    IF s = {} THEN NothingYet ELSE LET x == Max(s) IN HeaderLine(iter[s \ {x}], Numbered[x])]
HeaderIter == CHOOSE iter : iter = HeaderRule(iter)

\* It goes through the lines of the file.
LEMMA HeaderScanned ==
  ASSUME ExInv
  PROVE  \E g : Scans("header", g) /\ ParseHeader = g[Len(file)].out
<1> DEFINE it == HeaderIter
<1>1. ParseHeader = it[DOMAIN Numbered].out
  BY DEF ParseHeader, FoldLeft, MapThenFoldSet, HeaderIter, HeaderRule
<1>2. ASSUME NEW f PROVE ScanRule("header", f) = HeaderRule(f)
  <2>1. \A s \in SUBSET DOMAIN Numbered : s # {} => Numbered[Max(s)] = Max(s)
    <3> SUFFICES ASSUME NEW s \in SUBSET DOMAIN Numbered, s # {} PROVE Numbered[Max(s)] = Max(s)
      OBVIOUS
    <3>1. Len(file) \in Nat /\ s \in SUBSET (1 .. Len(file))
      BY NumberedIs DEF ExInv
    <3>2. Max(s) \in s
      BY <3>1, MaxIn
    <3> QED BY <3>1, <3>2, NumberedIs
  <2>2. \A x, i : ScanStep("header", x, i) = HeaderLine(x, i)
    BY DEF ScanStep
  <2>3. Start("header") = NothingYet
    BY DEF Start
  <2> QED BY <2>1, <2>2, <2>3 DEF ScanRule, HeaderRule
<1>3. it = CHOOSE f : f = ScanRule("header", f)
  BY <1>2, ZenonT(60) DEF HeaderIter
<1>4. it = ScanRule("header", it)
  BY <1>3, ScanExists
<1> HIDE DEF it
<1>5. PICK g : Scans("header", g) /\ g[Len(file)] = it[DOMAIN Numbered]
  BY <1>4, ScanSteps
<1> QED BY <1>1, <1>5

\* The scan of a class.
ClassRule(iter) ==
  [s \in SUBSET DOMAIN Numbered |->
    IF s = {} THEN [doc |-> {}, out |-> <<>>, access |-> "private", opened |-> "", all |-> {}] ELSE LET x == Max(s) IN ClassLine(iter[s \ {x}], Numbered[x])]
ClassIter == CHOOSE iter : iter = ClassRule(iter)

\* It goes through the lines of the file.
LEMMA ClassScanned ==
  ASSUME ExInv
  PROVE  \E g : Scans("class", g) /\ ParseClass = g[Len(file)]
<1> DEFINE it == ClassIter
<1>1. ParseClass = it[DOMAIN Numbered]
  BY DEF ParseClass, FoldLeft, MapThenFoldSet, ClassIter, ClassRule
<1>2. ASSUME NEW f PROVE ScanRule("class", f) = ClassRule(f)
  <2>1. \A s \in SUBSET DOMAIN Numbered : s # {} => Numbered[Max(s)] = Max(s)
    <3> SUFFICES ASSUME NEW s \in SUBSET DOMAIN Numbered, s # {} PROVE Numbered[Max(s)] = Max(s)
      OBVIOUS
    <3>1. Len(file) \in Nat /\ s \in SUBSET (1 .. Len(file))
      BY NumberedIs DEF ExInv
    <3>2. Max(s) \in s
      BY <3>1, MaxIn
    <3> QED BY <3>1, <3>2, NumberedIs
  <2>2. \A x, i : ScanStep("class", x, i) = ClassLine(x, i)
    BY DEF ScanStep
  <2>3. Start("class") = [doc |-> {}, out |-> <<>>, access |-> "private", opened |-> "", all |-> {}]
    BY DEF Start
  <2> QED BY <2>1, <2>2, <2>3 DEF ScanRule, ClassRule
<1>3. it = CHOOSE f : f = ScanRule("class", f)
  BY <1>2, ZenonT(60) DEF ClassIter
<1>4. it = ScanRule("class", it)
  BY <1>3, ScanExists
<1> HIDE DEF it
<1>5. PICK g : Scans("class", g) /\ g[Len(file)] = it[DOMAIN Numbered]
  BY <1>4, ScanSteps
<1> QED BY <1>1, <1>5

\* The scan for functions.
KernelRule(iter) ==
  [s \in SUBSET DOMAIN Numbered |->
    IF s = {} THEN NothingYet ELSE LET x == Max(s) IN FunctionLine(iter[s \ {x}], Numbered[x])]
KernelIter == CHOOSE iter : iter = KernelRule(iter)

\* It goes through the lines of the file.
LEMMA KernelScanned ==
  ASSUME ExInv
  PROVE  \E g : Scans("kernel", g) /\ ShaderFunctions = g[Len(file)].out
<1> DEFINE it == KernelIter
<1>1. ShaderFunctions = it[DOMAIN Numbered].out
  BY DEF ShaderFunctions, FoldLeft, MapThenFoldSet, KernelIter, KernelRule
<1>2. ASSUME NEW f PROVE ScanRule("kernel", f) = KernelRule(f)
  <2>1. \A s \in SUBSET DOMAIN Numbered : s # {} => Numbered[Max(s)] = Max(s)
    <3> SUFFICES ASSUME NEW s \in SUBSET DOMAIN Numbered, s # {} PROVE Numbered[Max(s)] = Max(s)
      OBVIOUS
    <3>1. Len(file) \in Nat /\ s \in SUBSET (1 .. Len(file))
      BY NumberedIs DEF ExInv
    <3>2. Max(s) \in s
      BY <3>1, MaxIn
    <3> QED BY <3>1, <3>2, NumberedIs
  <2>2. \A x, i : ScanStep("kernel", x, i) = FunctionLine(x, i)
    BY DEF ScanStep
  <2>3. Start("kernel") = NothingYet
    BY DEF Start
  <2> QED BY <2>1, <2>2, <2>3 DEF ScanRule, KernelRule
<1>3. it = CHOOSE f : f = ScanRule("kernel", f)
  BY <1>2, ZenonT(60) DEF KernelIter
<1>4. it = ScanRule("kernel", it)
  BY <1>3, ScanExists
<1> HIDE DEF it
<1>5. PICK g : Scans("kernel", g) /\ g[Len(file)] = it[DOMAIN Numbered]
  BY <1>4, ScanSteps
<1> QED BY <1>1, <1>5

\* The scan of a switch.
SwitchRule(iter) ==
  [s \in SUBSET DOMAIN Numbered |->
    IF s = {} THEN [active |-> {}, map |-> {}] ELSE LET x == Max(s) IN SwitchLine(iter[s \ {x}], Numbered[x])]
SwitchIter == CHOOSE iter : iter = SwitchRule(iter)

\* It goes through the lines of the file.
LEMMA SwitchScanned ==
  ASSUME ExInv
  PROVE  \E g : Scans("switch", g) /\ PipelineMap = g[Len(file)].map
<1> DEFINE it == SwitchIter
<1>1. PipelineMap = it[DOMAIN Numbered].map
  BY DEF PipelineMap, FoldLeft, MapThenFoldSet, SwitchIter, SwitchRule
<1>2. ASSUME NEW f PROVE ScanRule("switch", f) = SwitchRule(f)
  <2>1. \A s \in SUBSET DOMAIN Numbered : s # {} => Numbered[Max(s)] = Max(s)
    <3> SUFFICES ASSUME NEW s \in SUBSET DOMAIN Numbered, s # {} PROVE Numbered[Max(s)] = Max(s)
      OBVIOUS
    <3>1. Len(file) \in Nat /\ s \in SUBSET (1 .. Len(file))
      BY NumberedIs DEF ExInv
    <3>2. Max(s) \in s
      BY <3>1, MaxIn
    <3> QED BY <3>1, <3>2, NumberedIs
  <2>2. \A x, i : ScanStep("switch", x, i) = SwitchLine(x, i)
    BY DEF ScanStep
  <2>3. Start("switch") = [active |-> {}, map |-> {}]
    BY DEF Start
  <2> QED BY <2>1, <2>2, <2>3 DEF ScanRule, SwitchRule
<1>3. it = CHOOSE f : f = ScanRule("switch", f)
  BY <1>2, ZenonT(60) DEF SwitchIter
<1>4. it = ScanRule("switch", it)
  BY <1>3, ScanExists
<1> HIDE DEF it
<1>5. PICK g : Scans("switch", g) /\ g[Len(file)] = it[DOMAIN Numbered]
  BY <1>4, ScanSteps
<1> QED BY <1>1, <1>5

\* The scan of a test file.
TestRule(iter) ==
  [s \in SUBSET DOMAIN Numbered |->
    IF s = {} THEN [current |-> 0, index |-> {}] ELSE LET x == Max(s) IN TestLine(iter[s \ {x}], Numbered[x])]
TestIter == CHOOSE iter : iter = TestRule(iter)

\* It goes through the lines of the file.
LEMMA TestScanned ==
  ASSUME ExInv
  PROVE  \E g : Scans("test", g) /\ TestIndex = g[Len(file)].index
<1> DEFINE it == TestIter
<1>1. TestIndex = it[DOMAIN Numbered].index
  BY DEF TestIndex, FoldLeft, MapThenFoldSet, TestIter, TestRule
<1>2. ASSUME NEW f PROVE ScanRule("test", f) = TestRule(f)
  <2>1. \A s \in SUBSET DOMAIN Numbered : s # {} => Numbered[Max(s)] = Max(s)
    <3> SUFFICES ASSUME NEW s \in SUBSET DOMAIN Numbered, s # {} PROVE Numbered[Max(s)] = Max(s)
      OBVIOUS
    <3>1. Len(file) \in Nat /\ s \in SUBSET (1 .. Len(file))
      BY NumberedIs DEF ExInv
    <3>2. Max(s) \in s
      BY <3>1, MaxIn
    <3> QED BY <3>1, <3>2, NumberedIs
  <2>2. \A x, i : ScanStep("test", x, i) = TestLine(x, i)
    BY DEF ScanStep
  <2>3. Start("test") = [current |-> 0, index |-> {}]
    BY DEF Start
  <2> QED BY <2>1, <2>2, <2>3 DEF ScanRule, TestRule
<1>3. it = CHOOSE f : f = ScanRule("test", f)
  BY <1>2, ZenonT(60) DEF TestIter
<1>4. it = ScanRule("test", it)
  BY <1>3, ScanExists
<1> HIDE DEF it
<1>5. PICK g : Scans("test", g) /\ g[Len(file)] = it[DOMAIN Numbered]
  BY <1>4, ScanSteps
<1> QED BY <1>1, <1>5

\* What holds at first and is kept by each step of a scan holds at its end.
LEMMA ScanHolds ==
  ASSUME ExInv, NEW good, 0 \in good, \A k \in 1 .. Len(file) : k - 1 \in good => k \in good
  PROVE  Len(file) \in good
<1> DEFINE Bad == {k \in 0 .. Len(file) : k \notin good}
<1>1. Len(file) \in Nat
  BY DEF ExInv
<1>2. SUFFICES ASSUME Bad # {} PROVE FALSE
  BY <1>1
<1>3. Bad \in SUBSET Nat
  BY <1>1
<1>4. PICK k \in Bad : \A j \in Bad : k <= j
  BY <1>2, <1>3, LeastExists
<1>5. k # 0 /\ k \in 0 .. Len(file) /\ k \notin good
  OBVIOUS
<1>6. k \in 1 .. Len(file) /\ k - 1 \in 0 .. Len(file) /\ k \in Nat
  BY <1>1, <1>5
<1>7. k - 1 \in good
  BY <1>4, <1>6
<1> QED BY <1>5, <1>6, <1>7

\* The lines of some kinds among the first k.
Among(k, K) == {i \in 1 .. k : file[i].is \in K}

\* One line more.
LEMMA AmongStep ==
  ASSUME ExInv, NEW k \in 1 .. Len(file), NEW K
  PROVE  Among(k, K) = IF file[k].is \in K THEN Among(k - 1, K) \cup {k} ELSE Among(k - 1, K)
<1>1. Len(file) \in Nat
  BY DEF ExInv
<1>2. 1 .. k = (1 .. k - 1) \cup {k}
  BY <1>1
<1> QED BY <1>2 DEF Among

\* What lies between two lines, with one line more.
LEMMA BetweenStep ==
  ASSUME ExInv, NEW k \in 1 .. Len(file), NEW i \in 1 .. k
  PROVE  KindsBetween(i, k + 1) = IF i = k THEN {} ELSE KindsBetween(i, k) \cup {file[k].is}
<1>1. Len(file) \in Nat
  BY DEF ExInv
<1>2. CASE i = k
  <2>1. (i + 1) .. (k + 1 - 1) = {}
    BY <1>1, <1>2
  <2> QED BY <1>2, <2>1 DEF KindsBetween
<1>3. CASE i # k
  <2>1. (i + 1) .. (k + 1 - 1) = ((i + 1) .. (k - 1)) \cup {k}
    BY <1>1, <1>3
  <2> QED BY <1>3, <2>1 DEF KindsBetween
<1> QED BY <1>2, <1>3

\* The block above the next line.
LEMMA BlockStep ==
  ASSUME ExInv, NEW k \in 1 .. Len(file)
  PROVE  BlockAbove(k + 1) = IF file[k].is = "doc" THEN BlockAbove(k) \cup {k}
                             ELSE IF file[k].is \in {"note", "closes"} THEN BlockAbove(k) ELSE {}
<1>1. Len(file) \in Nat
  BY DEF ExInv
<1>2. 1 .. (k + 1 - 1) = (1 .. (k - 1)) \cup {k} /\ k \notin 1 .. (k - 1)
  BY <1>1
<1>3. \A i \in 1 .. (k - 1) : KindsBetween(i, k + 1) = KindsBetween(i, k) \cup {file[k].is}
  <2> SUFFICES ASSUME NEW i \in 1 .. (k - 1) PROVE KindsBetween(i, k + 1) = KindsBetween(i, k) \cup {file[k].is}
    OBVIOUS
  <2>1. i \in 1 .. k /\ i # k
    BY <1>1
  <2> QED BY <2>1, BetweenStep
<1>4. KindsBetween(k, k + 1) = {}
  <2>1. k \in 1 .. k
    BY <1>1
  <2> QED BY <2>1, BetweenStep
<1>5. \A i : i \in BlockAbove(k + 1) <=>
        \/ i \in 1 .. (k - 1) /\ file[i].is = "doc" /\ KindsBetween(i, k) \cup {file[k].is} \subseteq {"doc", "note", "closes"}
        \/ i = k /\ file[k].is = "doc"
  BY <1>2, <1>3, <1>4 DEF BlockAbove
<1>6. \A i : i \in BlockAbove(k) <=> i \in 1 .. (k - 1) /\ file[i].is = "doc" /\ KindsBetween(i, k) \subseteq {"doc", "note", "closes"}
  BY DEF BlockAbove
<1>7. CASE file[k].is = "doc"
  BY <1>5, <1>6, <1>7
<1>8. CASE file[k].is \in {"note", "closes"}
  BY <1>5, <1>6, <1>8
<1>9. CASE file[k].is \notin {"doc", "note", "closes"}
  BY <1>5, <1>6, <1>9
<1> QED BY <1>7, <1>8, <1>9

\* What the lines are.
LEMMA LineKinds ==
  ASSUME NEW e
  PROVE  /\ \A is : (e \in Naming(is) \/ e \in Opening(is) \/ e = Line(is)) => e.is = is
         /\ e \in Prose => e.is \in {"doc", "note", "blank"}
         /\ e \in BodyLines => e.is \in {"states", "control", "closes"}
<1>1. ASSUME NEW is, e \in Naming(is) \/ e \in Opening(is) \/ e = Line(is) PROVE e.is = is
  <2>1. CASE e \in Naming(is)
    BY <2>1 DEF Naming
  <2>2. CASE e \in Opening(is)
    BY <2>2 DEF Opening
  <2>3. CASE e = Line(is)
    BY <2>3 DEF Line
  <2> QED BY <1>1, <2>1, <2>2, <2>3
<1>2. e \in Prose => e.is \in {"doc", "note", "blank"}
  BY <1>1 DEF Prose
<1>3. e \in BodyLines => e.is \in {"states", "control", "closes"}
  BY <1>1 DEF BodyLines
<1> QED BY <1>1, <1>2, <1>3

\* No line of a kind is the end of a declaration, and only a class has bodies.
LEMMA KindsOf ==
  ASSUME NEW j \in DOMAIN Alphabet, NEW e \in Alphabet[j]
  PROVE  e.is # "ends" /\ (e.is = "closes" => j = "class")
<1>1. CASE j = "header"
  <2>1. e \in Prose \/ e \in Naming("decl") \/ e \in Naming("opens") \/ e = Line("control")
    BY <1>1 DEF Alphabet
  <2> QED BY <2>1, LineKinds
<1>2. CASE j = "class"
  <2>1. \/ e \in Prose \/ e \in Naming("decl") \/ e \in Opening("decl") \/ e \in Naming("opens")
        \/ e = Line("public") \/ e = Line("private") \/ e \in BodyLines
    BY <1>2 DEF Alphabet
  <2>2. e.is \in {"doc", "note", "blank", "decl", "opens", "public", "private", "states", "control", "closes"}
    BY <2>1, LineKinds
  <2> QED BY <1>2, <2>2
<1>3. CASE j = "kernel"
  <2>1. e \in Prose \/ e \in Naming("decl") \/ e = Line("control")
    BY <1>3 DEF Alphabet
  <2> QED BY <2>1, LineKinds
<1>4. CASE j = "switch"
  <2>1. e \in Naming("case") \/ e \in Naming("pipe") \/ e = Line("break") \/ e = Line("control")
    BY <1>4 DEF Alphabet
  <2> QED BY <2>1, LineKinds
<1>5. CASE j = "test"
  <2>1. e \in Naming("def") \/ e \in Naming("call")
    BY <1>5 DEF Alphabet
  <2> QED BY <2>1, LineKinds
<1>6. j \in {"header", "class", "kernel", "switch", "test"}
  BY DEF Alphabet
<1> QED BY <1>1, <1>2, <1>3, <1>4, <1>5, <1>6

\* Nothing closes in the files that have no bodies.
LEMMA NoCloses ==
  ASSUME ExInv, kind # "class", NEW k \in 1 .. Len(file)
  PROVE  file[k].is # "closes"
<1>1. kind \in DOMAIN Alphabet /\ (file[k] \in Alphabet[kind] \/ file[k].is = "ends")
  BY DEF ExInv, OfKind
<1> QED BY <1>1, KindsOf

\* Nothing is above the first line.
LEMMA BlockStart == BlockAbove(1) = {}
<1>1. 1 .. (1 - 1) = {}
  OBVIOUS
<1> QED BY <1>1 DEF BlockAbove

\* What a declaration should be listed as.
Entry(j) == [name |-> file[j].name, doc |-> BlockAbove(j), line |-> j]
Entries == {Entry(j) : j \in 1 .. Len(file)}
Lists(out, T) == out \in Seq(Entries) /\ ToSet(out) = {Entry(j) : j \in T}

\* Nothing is listed at first.
LEMMA ListsNothing == Lists(<<>>, {})
<1>1. <<>> \in Seq(Entries) /\ DOMAIN <<>> = {}
  BY EmptySeq
<1>2. ToSet(<<>>) = {}
  BY <1>1 DEF ToSet
<1> QED BY <1>1, <1>2 DEF Lists

\* What appending adds to the elements of a sequence.
LEMMA AppendAdds ==
  ASSUME NEW S, NEW out \in Seq(S), NEW e \in S
  PROVE  Append(out, e) \in Seq(S) /\ ToSet(Append(out, e)) = ToSet(out) \cup {e}
<1> DEFINE q == Append(out, e)
           n == Len(out)
<1>1. q \in Seq(S) /\ Len(q) = n + 1 /\ n \in Nat /\ DOMAIN out = 1 .. n
  BY AppendProperties, LenProperties
<1>2. DOMAIN q = 1 .. n + 1
  BY <1>1, LenProperties
<1>3. (\A i \in 1 .. n : q[i] = out[i]) /\ q[n + 1] = e
  BY <1>1, AppendProperties
<1> HIDE DEF q, n
<1>4. (\A i \in 1 .. n + 1 : i \in 1 .. n \/ i = n + 1) /\ n + 1 \in 1 .. n + 1 /\ \A i \in 1 .. n : i \in 1 .. n + 1
  BY <1>1
<1>5. ToSet(q) = ToSet(out) \cup {e}
  BY <1>1, <1>2, <1>3, <1>4 DEF ToSet
<1> QED BY <1>1, <1>5 DEF q

\* One declaration more.
LEMMA ListsOneMore ==
  ASSUME NEW out, NEW T, Lists(out, T), NEW k \in 1 .. Len(file)
  PROVE  Lists(Append(out, Entry(k)), T \cup {k})
<1> DEFINE e == Entry(k)
<1>1. out \in Seq(Entries) /\ ToSet(out) = {Entry(j) : j \in T} /\ e \in Entries
  BY DEF Lists, Entries
<1> HIDE DEF e
<1>2. Append(out, e) \in Seq(Entries) /\ ToSet(Append(out, e)) = ToSet(out) \cup {e}
  BY <1>1, AppendAdds
<1>3. ToSet(Append(out, e)) = {Entry(j) : j \in T \cup {k}}
  BY <1>1, <1>2 DEF e
<1> QED BY <1>2, <1>3 DEF Lists, e

-----------------------------------------------------------------------------
(* Headers, classes and functions.                                         *)

\* parse_header() after k lines.
Declared == {"decl", "opens", "ends"}
HeaderAt(x, k) ==
  x = [doc |-> BlockAbove(k + 1), out |-> x.out] /\ Lists(x.out, Among(k, Declared))

\* Enough to know what it holds.
LEMMA HeaderAtIs ==
  ASSUME NEW x, NEW k, NEW out, NEW doc, x = [doc |-> doc, out |-> out], doc = BlockAbove(k + 1),
         Lists(out, Among(k, Declared))
  PROVE  HeaderAt(x, k)
<1> DEFINE b == BlockAbove(k + 1)
<1>1. x.out = out /\ x.doc = doc
  OBVIOUS
<1>2. doc = b
  OBVIOUS
<1> HIDE DEF b
<1>3. x = [doc |-> b, out |-> x.out]
  BY <1>1, <1>2
<1> QED BY <1>1, <1>3 DEF HeaderAt, b

\* A declaration found.
LEMMA FoundIs ==
  ASSUME NEW x, NEW k \in 1 .. Len(file), x.doc = BlockAbove(k), x = [doc |-> x.doc, out |-> x.out]
  PROVE  Found(x, k, file[k].name) = [doc |-> {}, out |-> Append(x.out, Entry(k))]
<1> DEFINE e == Entry(k)
<1>1. e = [name |-> file[k].name, doc |-> x.doc, line |-> k]
  BY DEF Entry
<1>2. Found(x, k, file[k].name) = [x EXCEPT !.out = Append(@, e), !.doc = {}]
  BY <1>1 DEF Found
<1> HIDE DEF e
<1> QED BY <1>2 DEF e

\* One line of a header.
LEMMA HeaderStep ==
  ASSUME ExInv, kind = "header", NEW k \in 1 .. Len(file), NEW x, HeaderAt(x, k - 1)
  PROVE  HeaderAt(HeaderLine(x, k), k)
<1> DEFINE l == file[k].is
           y == HeaderLine(x, k)
<1>1. x = [doc |-> BlockAbove(k), out |-> x.out] /\ Lists(x.out, Among(k - 1, Declared))
  <2>1. k - 1 + 1 = k
    BY DEF ExInv
  <2> QED BY <2>1 DEF HeaderAt
<1>2. x.doc = BlockAbove(k)
  <2> DEFINE b == BlockAbove(k)
  <2>1. x = [doc |-> b, out |-> x.out]
    BY <1>1
  <2> HIDE DEF b
  <2>2. x.doc = b
    BY <2>1
  <2> QED BY <2>2 DEF b
<1>3. Among(k, Declared) = IF l \in Declared THEN Among(k - 1, Declared) \cup {k} ELSE Among(k - 1, Declared)
  BY AmongStep
<1>4. BlockAbove(k + 1) = IF l = "doc" THEN x.doc \cup {k} ELSE IF l = "note" THEN x.doc ELSE {}
  <2>1. l # "closes"
    BY NoCloses
  <2> QED BY <1>2, <2>1, BlockStep
<1>5. x = [doc |-> x.doc, out |-> x.out]
  BY <1>1, <1>2
<1> HIDE DEF l
<1>6. CASE l = "doc"
  <2>1. y = [doc |-> x.doc \cup {k}, out |-> x.out]
    BY <1>5, <1>6 DEF HeaderLine, Held, l
  <2>2. l \notin Declared
    BY <1>6 DEF Declared
  <2>3. x.doc \cup {k} = BlockAbove(k + 1) /\ Lists(x.out, Among(k, Declared))
    BY <1>1, <1>3, <1>4, <1>6, <2>2
  <2> HIDE DEF y
  <2> QED BY <2>1, <2>3, HeaderAtIs DEF y
<1>7. CASE l = "note"
  <2>1. y = x
    BY <1>7 DEF HeaderLine, l
  <2>2. l \notin Declared
    BY <1>7 DEF Declared
  <2>3. x.doc = BlockAbove(k + 1) /\ Lists(x.out, Among(k, Declared))
    BY <1>1, <1>3, <1>4, <1>7, <2>2
  <2>4. y = [doc |-> x.doc, out |-> x.out]
    BY <1>5, <2>1
  <2> HIDE DEF y
  <2> QED BY <2>3, <2>4, HeaderAtIs DEF y
<1>8. CASE l \in Declared
  <2>1. y = [doc |-> {}, out |-> Append(x.out, Entry(k))]
    <3>1. y = Found(x, k, file[k].name)
      BY <1>8 DEF HeaderLine, Declared, l
    <3> QED BY <1>2, <1>5, <3>1, FoundIs
  <2>2. Lists(Append(x.out, Entry(k)), Among(k - 1, Declared) \cup {k})
    BY <1>1, ListsOneMore
  <2>3. BlockAbove(k + 1) = {} /\ Lists(Append(x.out, Entry(k)), Among(k, Declared))
    BY <1>3, <1>4, <1>8, <2>2 DEF Declared
  <2> HIDE DEF y
  <2> QED BY <2>1, <2>3, HeaderAtIs DEF y
<1>9. CASE l \notin Declared \cup {"doc", "note"}
  <2>1. y = [doc |-> {}, out |-> x.out]
    BY <1>5, <1>9 DEF HeaderLine, Dropped, AtBlank, Declared, l
  <2>2. BlockAbove(k + 1) = {} /\ Lists(x.out, Among(k, Declared))
    BY <1>1, <1>3, <1>4, <1>9
  <2> HIDE DEF y
  <2> QED BY <2>1, <2>2, HeaderAtIs DEF y
<1> QED BY <1>6, <1>7, <1>8, <1>9

\* A header's declarations are listed, each with its block.
LEMMA HeaderExact ==
  ASSUME ExInv, kind = "header"
  PROVE  {d \in ToSet(ParseHeader) : file[d.line].is # "ends"}
           = {Entry(j) : j \in LinesThat("decl") \cup LinesThat("opens")}
<1>1. PICK g : Scans("header", g) /\ ParseHeader = g[Len(file)].out
  BY HeaderScanned
<1> DEFINE good == {k \in 0 .. Len(file) : HeaderAt(g[k], k)}
<1>2. Len(file) \in Nat /\ DOMAIN file = 1 .. Len(file)
  BY DEF ExInv
<1>3. 0 \in good
  <2>1. g[0] = [doc |-> {}, out |-> <<>>]
    BY <1>1 DEF Scans, Start, NothingYet
  <2>2. Among(0, Declared) = {} /\ BlockAbove(0 + 1) = {}
    BY BlockStart DEF Among
  <2>3. HeaderAt(g[0], 0)
    BY <2>1, <2>2, ListsNothing, HeaderAtIs
  <2> QED BY <1>2, <2>3
<1>4. ASSUME NEW k \in 1 .. Len(file), k - 1 \in good PROVE k \in good
  <2>1. g[k] = HeaderLine(g[k - 1], k)
    BY <1>1 DEF Scans, ScanStep
  <2>2. HeaderAt(g[k], k)
    BY <1>4, <2>1, HeaderStep
  <2> QED BY <1>2, <2>2
<1> HIDE DEF good
<1>5. Len(file) \in good
  BY <1>3, <1>4, ScanHolds
<1>6. ToSet(ParseHeader) = {Entry(j) : j \in Among(Len(file), Declared)}
  BY <1>1, <1>5 DEF good, HeaderAt, Lists
<1>7. \A j : j \in Among(Len(file), Declared) /\ file[j].is # "ends" <=> j \in LinesThat("decl") \cup LinesThat("opens")
  BY <1>2 DEF Among, Declared, LinesThat
<1>8. \A j : Entry(j).line = j
  BY DEF Entry
<1> QED BY <1>6, <1>7, <1>8

-----------------------------------------------------------------------------
(* What is in scope: opened above, and not ended in between.               *)

\* The lines `is` above line p with no line `stop` in between.
Open(is, stop, p) == {c \in LinesThat(is) : c < p /\ stop \notin KindsBetween(c, p)}

\* Nothing is in scope at first.
LEMMA OpenStart == ASSUME ExInv, NEW is, NEW stop PROVE Open(is, stop, 1) = {}
<1>1. \A c \in LinesThat(is) : c \in Nat /\ c >= 1
  BY DEF LinesThat, ExInv
<1> QED BY <1>1 DEF Open

\* One line more.
LEMMA OpenStep ==
  ASSUME ExInv, NEW is, NEW stop, NEW k \in 1 .. Len(file)
  PROVE  Open(is, stop, k + 1) = (IF file[k].is = stop THEN {} ELSE Open(is, stop, k))
                                   \cup (IF file[k].is = is THEN {k} ELSE {})
<1>1. Len(file) \in Nat /\ DOMAIN file = 1 .. Len(file)
  BY DEF ExInv
<1>2. \A c : c \in LinesThat(is) <=> c \in 1 .. Len(file) /\ file[c].is = is
  BY <1>1 DEF LinesThat
<1>3. \A c \in LinesThat(is) : c < k => KindsBetween(c, k + 1) = KindsBetween(c, k) \cup {file[k].is}
  <2> SUFFICES ASSUME NEW c \in LinesThat(is), c < k
               PROVE  KindsBetween(c, k + 1) = KindsBetween(c, k) \cup {file[k].is}
    OBVIOUS
  <2>1. c \in 1 .. k /\ c # k
    BY <1>1, <1>2
  <2> QED BY <2>1, BetweenStep
<1>4. KindsBetween(k, k + 1) = {}
  <2>1. k \in 1 .. k
    BY <1>1
  <2> QED BY <2>1, BetweenStep
<1>5. \A c \in LinesThat(is) : c < k + 1 <=> c < k \/ c = k
  BY <1>1, <1>2
<1>6. \A c : c \in Open(is, stop, k + 1) <=>
        c \in LinesThat(is) /\ (c < k \/ c = k) /\ stop \notin KindsBetween(c, k + 1)
  BY <1>5 DEF Open
<1>7. \A c : c \in Open(is, stop, k) <=> c \in LinesThat(is) /\ c < k /\ stop \notin KindsBetween(c, k)
  BY DEF Open
<1>8. ~(k < k)
  BY <1>1
<1>9. ASSUME NEW c PROVE c \in Open(is, stop, k + 1) <=>
        \/ file[k].is # stop /\ c \in Open(is, stop, k)
        \/ file[k].is = is /\ c = k
  <2>1. CASE c = k
    <3>1. c \notin Open(is, stop, k)
      BY <1>7, <1>8, <2>1
    <3>2. c \in LinesThat(is) <=> file[k].is = is
      BY <1>2, <2>1
    <3>3. stop \notin KindsBetween(c, k + 1)
      BY <1>4, <2>1
    <3> QED BY <1>6, <2>1, <3>1, <3>2, <3>3
  <2>2. CASE c # k
    <3>1. CASE c \in LinesThat(is) /\ c < k
      BY <1>3, <1>6, <1>7, <2>2, <3>1
    <3>2. CASE ~(c \in LinesThat(is) /\ c < k)
      BY <1>6, <1>7, <2>2, <3>2
    <3> QED BY <3>1, <3>2
  <2> QED BY <2>1, <2>2
<1> QED BY <1>9

\* The pairs of a line `is` and a line `at` in its scope, in the first k lines.
Paired(is, stop, at, k) ==
  {cp \in LinesThat(is) \X LinesThat(at) :
     cp[2] <= k /\ cp[1] < cp[2] /\ stop \notin KindsBetween(cp[1], cp[2])}

\* There are none at first.
LEMMA PairedStart == ASSUME ExInv, NEW is, NEW stop, NEW at PROVE Paired(is, stop, at, 0) = {}
<1>1. \A cp \in LinesThat(is) \X LinesThat(at) : cp[2] \in Nat /\ cp[2] >= 1
  BY DEF LinesThat, ExInv
<1> QED BY <1>1 DEF Paired

\* One line more.
LEMMA PairedStep ==
  ASSUME ExInv, NEW is, NEW stop, NEW at, NEW k \in 1 .. Len(file)
  PROVE  \A c, p : <<c, p>> \in Paired(is, stop, at, k) <=>
           \/ <<c, p>> \in Paired(is, stop, at, k - 1)
           \/ file[k].is = at /\ p = k /\ c \in Open(is, stop, k)
<1> SUFFICES ASSUME NEW c, NEW p
             PROVE  <<c, p>> \in Paired(is, stop, at, k) <=>
                      \/ <<c, p>> \in Paired(is, stop, at, k - 1)
                      \/ file[k].is = at /\ p = k /\ c \in Open(is, stop, k)
  OBVIOUS
<1> DEFINE In(q) == /\ c \in LinesThat(is) /\ p \in LinesThat(at)
                    /\ p <= q /\ c < p /\ stop \notin KindsBetween(c, p)
<1>1. Len(file) \in Nat /\ DOMAIN file = 1 .. Len(file)
  BY DEF ExInv
<1>2. \A q : <<c, p>> \in Paired(is, stop, at, q) <=> In(q)
  BY DEF Paired
<1>3. p \in LinesThat(at) <=> p \in 1 .. Len(file) /\ file[p].is = at
  BY <1>1 DEF LinesThat
<1>4. p \in LinesThat(at) => (p <= k <=> p <= k - 1 \/ p = k)
  BY <1>1, <1>3
<1>5. c \in Open(is, stop, k) <=> c \in LinesThat(is) /\ c < k /\ stop \notin KindsBetween(c, k)
  BY DEF Open
<1>6. In(k) <=> In(k - 1) \/ (file[k].is = at /\ p = k /\ c \in Open(is, stop, k))
  <2>1. CASE p = k
    <3>1. k \in LinesThat(at) <=> file[k].is = at
      BY <1>3, <2>1
    <3>2. ~(k <= k - 1) /\ k <= k
      BY <1>1
    <3> QED BY <1>5, <2>1, <3>1, <3>2
  <2>2. CASE p # k
    BY <1>4, <2>2
  <2> QED BY <2>1, <2>2
<1> HIDE DEF In
<1> QED BY <1>2, <1>6

\* The pairs that a line adds.
LEMMA PairedMore ==
  ASSUME ExInv, NEW is, NEW stop, NEW at, NEW k \in 1 .. Len(file)
  PROVE  Paired(is, stop, at, k) = Paired(is, stop, at, k - 1)
           \cup (IF file[k].is = at THEN {<<c, k>> : c \in Open(is, stop, k)} ELSE {})
<1> DEFINE New == {<<c, k>> : c \in Open(is, stop, k)}
<1>1. \A q : \A e \in Paired(is, stop, at, q) : e = <<e[1], e[2]>>
  BY DEF Paired
<1>2. \A c, p : <<c, p>> \in New <=> p = k /\ c \in Open(is, stop, k)
  OBVIOUS
<1>3. \A e \in New : e = <<e[1], e[2]>>
  OBVIOUS
<1> HIDE DEF New
<1>4. ASSUME NEW c, NEW p
      PROVE  <<c, p>> \in Paired(is, stop, at, k) <=>
               <<c, p>> \in Paired(is, stop, at, k - 1) \/ (file[k].is = at /\ <<c, p>> \in New)
  <2>1. <<c, p>> \in Paired(is, stop, at, k) <=>
           \/ <<c, p>> \in Paired(is, stop, at, k - 1)
           \/ file[k].is = at /\ p = k /\ c \in Open(is, stop, k)
    BY PairedStep
  <2>2. <<c, p>> \in New <=> p = k /\ c \in Open(is, stop, k)
    BY <1>2
  <2> QED BY <2>1, <2>2
<1>5. \A e : e \in Paired(is, stop, at, k) <=>
        e \in Paired(is, stop, at, k - 1) \/ (file[k].is = at /\ e \in New)
  BY <1>1, <1>3, <1>4
<1> QED BY <1>5 DEF New

-----------------------------------------------------------------------------
(* The test files.                                                         *)

\* The calls of some pairs.
Calls(P) == {<<file[dc[2]].name, dc[1]>> : dc \in P}

\* test_index() after k lines: the test it is in, and the calls it has counted.
TestAt(x, k) ==
  /\ x = [current |-> x.current, index |-> x.index]
  /\ x.current \in Nat
  /\ Open("def", "def", k + 1) = IF x.current = 0 THEN {} ELSE {x.current}
  /\ x.index = Calls(Paired("def", "def", "call", k))

\* The lines of a test file.
LEMMA TestLines ==
  ASSUME ExInv, kind = "test", NEW k \in 1 .. Len(file)
  PROVE  file[k].is \in {"def", "call"}
<1>1. Alphabet[kind] = Naming("def") \cup Naming("call") /\ kind \in DOMAIN Alphabet
  BY DEF Alphabet
<1>2. \A l \in Alphabet[kind] : l.is \in {"def", "call"}
  BY <1>1 DEF Naming
<1>3. file[k] \in Alphabet[kind] \/ file[k].is = "ends"
  BY <1>1 DEF ExInv, OfKind
<1>4. file[k].is # "ends"
  <2> SUFFICES ASSUME file[k].is = "ends" PROVE FALSE
    OBVIOUS
  <2>1. k # 1 /\ file[k - 1].is = "opens"
    BY DEF ExInv, EndsOpened
  <2>2. k - 1 \in 1 .. Len(file)
    BY <2>1 DEF ExInv
  <2>3. file[k - 1] \in Alphabet[kind] \/ file[k - 1].is = "ends"
    BY <1>1, <2>2 DEF ExInv, OfKind
  <2> QED BY <1>2, <2>1, <2>3
<1> QED BY <1>2, <1>3, <1>4

\* The calls of a line in a test.
LEMMA CallsMore ==
  ASSUME NEW P, NEW k, NEW d
  PROVE  Calls(P \cup {<<c, k>> : c \in {d}}) = Calls(P) \cup {<<file[k].name, d>>}
<1>1. {<<c, k>> : c \in {d}} = {<<d, k>>}
  OBVIOUS
<1>2. <<d, k>>[1] = d /\ <<d, k>>[2] = k
  OBVIOUS
<1> DEFINE e == <<d, k>>
<1> HIDE DEF e
<1>3. Calls(P \cup {e}) = Calls(P) \cup {<<file[e[2]].name, e[1]>>}
  BY DEF Calls
<1> QED BY <1>1, <1>2, <1>3 DEF e

\* One line of a test file.
LEMMA TestStep ==
  ASSUME ExInv, kind = "test", NEW k \in 1 .. Len(file), NEW x, TestAt(x, k - 1)
  PROVE  TestAt(TestLine(x, k), k)
<1> DEFINE l == file[k].is
           y == TestLine(x, k)
           o == Open("def", "def", k)
           P == Paired("def", "def", "call", k - 1)
<1>1. k \in Nat /\ k # 0 /\ k - 1 + 1 = k
  BY DEF ExInv
<1>2. /\ x = [current |-> x.current, index |-> x.index] /\ x.current \in Nat
      /\ o = IF x.current = 0 THEN {} ELSE {x.current}
      /\ x.index = Calls(P)
  BY <1>1 DEF TestAt
<1>3. Open("def", "def", k + 1) = (IF l = "def" THEN {} ELSE o) \cup (IF l = "def" THEN {k} ELSE {})
  BY OpenStep
<1>4. Paired("def", "def", "call", k) = P \cup (IF l = "call" THEN {<<c, k>> : c \in o} ELSE {})
  BY PairedMore
<1>5. CASE l = "def"
  <2>1. y = [current |-> k, index |-> x.index]
    BY <1>2, <1>5 DEF TestLine
  <2>2. y.current = k /\ y.index = x.index /\ y = [current |-> y.current, index |-> y.index]
    BY <2>1
  <2>3. Paired("def", "def", "call", k) = P
    BY <1>4, <1>5
  <2>4. Open("def", "def", k + 1) = {k}
    BY <1>3, <1>5
  <2> HIDE DEF y, P, o
  <2>5. y.index = Calls(Paired("def", "def", "call", k))
    BY <1>2, <2>2, <2>3
  <2>6. Open("def", "def", k + 1) = IF y.current = 0 THEN {} ELSE {y.current}
    BY <1>1, <2>2, <2>4
  <2>7. y.current \in Nat
    BY <1>1, <2>2
  <2>8. TestAt(y, k)
    BY <2>2, <2>5, <2>6, <2>7 DEF TestAt
  <2> QED BY <2>8 DEF y
<1>6. CASE l = "call" /\ x.current = 0
  <2>1. y = x
    BY <1>6 DEF TestLine
  <2>2. Paired("def", "def", "call", k) = P /\ Open("def", "def", k + 1) = o
    <3>1. o = {}
      BY <1>2, <1>6
    <3> HIDE DEF o
    <3> QED BY <1>3, <1>4, <1>6, <3>1
  <2> HIDE DEF y, P, o
  <2>3. TestAt(y, k)
    BY <1>2, <2>1, <2>2 DEF TestAt
  <2> QED BY <2>3 DEF y
<1>7. CASE l = "call" /\ x.current # 0
  <2>1. y = [current |-> x.current, index |-> x.index \cup {<<file[k].name, x.current>>}]
    BY <1>2, <1>7 DEF TestLine
  <2>2. /\ y.current = x.current /\ y.index = x.index \cup {<<file[k].name, x.current>>}
        /\ y = [current |-> y.current, index |-> y.index]
    BY <2>1
  <2>3. o = {x.current}
    BY <1>2, <1>7
  <2> HIDE DEF o
  <2>4. Paired("def", "def", "call", k) = P \cup {<<c, k>> : c \in {x.current}} /\ Open("def", "def", k + 1) = {x.current}
    BY <1>3, <1>4, <1>7, <2>3
  <2> HIDE DEF y, P
  <2>5. y.index = Calls(Paired("def", "def", "call", k))
    <3>1. Calls(P \cup {<<c, k>> : c \in {x.current}}) = Calls(P) \cup {<<file[k].name, x.current>>}
      BY CallsMore
    <3>2. x.index = Calls(P) /\ y.index = x.index \cup {<<file[k].name, x.current>>}
      BY <1>2, <2>2
    <3> QED BY <2>4, <3>1, <3>2
  <2>6. TestAt(y, k)
    BY <1>2, <1>7, <2>2, <2>4, <2>5 DEF TestAt
  <2> QED BY <2>6 DEF y
<1>8. l \in {"def", "call"}
  BY TestLines
<1> QED BY <1>5, <1>6, <1>7, <1>8

\* Each call is counted for the test it is in.
LEMMA TestExact ==
  ASSUME ExInv, kind = "test"
  PROVE  TestIndex = Calls({dc \in LinesThat("def") \X LinesThat("call") :
                              dc[1] < dc[2] /\ "def" \notin KindsBetween(dc[1], dc[2])})
<1>1. PICK g : Scans("test", g) /\ TestIndex = g[Len(file)].index
  BY TestScanned
<1> DEFINE good == {k \in 0 .. Len(file) : TestAt(g[k], k)}
<1>2. Len(file) \in Nat /\ DOMAIN file = 1 .. Len(file)
  BY DEF ExInv
<1>3. 0 \in good
  <2> DEFINE y == g[0]
  <2>1. y = [current |-> 0, index |-> {}]
    BY <1>1 DEF Scans, Start
  <2>2. Open("def", "def", 0 + 1) = {} /\ Paired("def", "def", "call", 0) = {}
    BY OpenStart, PairedStart
  <2> HIDE DEF y
  <2>3. Calls({}) = {}
    BY DEF Calls
  <2>4. y.current = 0 /\ y.index = {} /\ y = [current |-> y.current, index |-> y.index]
    BY <2>1
  <2>5. TestAt(y, 0)
    BY <2>2, <2>3, <2>4 DEF TestAt
  <2> QED BY <1>2, <2>5 DEF y
<1>4. ASSUME NEW k \in 1 .. Len(file), k - 1 \in good PROVE k \in good
  <2>1. g[k] = TestLine(g[k - 1], k)
    BY <1>1 DEF Scans, ScanStep
  <2>2. TestAt(g[k], k)
    BY <1>4, <2>1, TestStep
  <2> QED BY <1>2, <2>2
<1> HIDE DEF good
<1>5. Len(file) \in good
  BY <1>3, <1>4, ScanHolds
<1>6. TestIndex = Calls(Paired("def", "def", "call", Len(file)))
  BY <1>1, <1>5 DEF good, TestAt
<1>7. \A dc \in LinesThat("def") \X LinesThat("call") : dc[2] <= Len(file)
  BY <1>2 DEF LinesThat
<1>8. Paired("def", "def", "call", Len(file)) = {dc \in LinesThat("def") \X LinesThat("call") :
                              dc[1] < dc[2] /\ "def" \notin KindsBetween(dc[1], dc[2])}
  BY <1>7 DEF Paired
<1> QED BY <1>6, <1>8

-----------------------------------------------------------------------------
(* The switch.                                                             *)

\* The names of some lines, and of pairs of them.
NamesOf(C) == {file[c].name : c \in C}
NamePairs(P) == {<<file[cp[1]].name, file[cp[2]].name>> : cp \in P}

\* pipeline_map() after k lines: the labels in scope, and what it has mapped.
SwitchAt(x, k) ==
  /\ x = [active |-> x.active, map |-> x.map]
  /\ x.active = NamesOf(Open("case", "break", k + 1))
  /\ x.map = NamePairs(Paired("case", "break", "pipe", k))

\* A pipeline with some labels, as lines and as names.
Under(C, k) == {<<c, k>> : c \in C}
Mapped(N, k) == {<<n, file[k].name>> : n \in N}

\* The pairs of a pipeline in the scope of some labels.
LEMMA PipesMore ==
  ASSUME NEW P, NEW k, NEW C
  PROVE  NamePairs(P \cup Under(C, k)) = NamePairs(P) \cup Mapped(NamesOf(C), k)
<1> DEFINE Q == {<<c, k>> : c \in C}
<1>1. NamePairs(P \cup Q) = NamePairs(P) \cup NamePairs(Q)
  <2> HIDE DEF Q
  <2> QED BY DEF NamePairs
<1>2. NamePairs(Q) = {<<file[c].name, file[k].name>> : c \in C}
  <2>1. ASSUME NEW e \in NamePairs(Q) PROVE e \in {<<file[c].name, file[k].name>> : c \in C}
    <3>1. PICK cp \in Q : e = <<file[cp[1]].name, file[cp[2]].name>>
      BY DEF NamePairs
    <3>2. PICK c \in C : cp = <<c, k>>
      OBVIOUS
    <3>3. cp[1] = c /\ cp[2] = k
      BY <3>2
    <3> QED BY <3>1, <3>3
  <2>2. ASSUME NEW c \in C PROVE <<file[c].name, file[k].name>> \in NamePairs(Q)
    <3> DEFINE cp == <<c, k>>
    <3>1. cp \in Q /\ cp[1] = c /\ cp[2] = k
      OBVIOUS
    <3> HIDE DEF cp, Q
    <3>2. <<file[cp[1]].name, file[cp[2]].name>> \in NamePairs(Q)
      BY <3>1 DEF NamePairs
    <3> QED BY <3>1, <3>2
  <2> HIDE DEF Q
  <2> QED BY <2>1, <2>2
<1>3. {<<n, file[k].name>> : n \in NamesOf(C)} = {<<file[c].name, file[k].name>> : c \in C}
  BY DEF NamesOf
<1> QED BY <1>1, <1>2, <1>3 DEF Under, Mapped

\* One line of the switch.
LEMMA SwitchStep ==
  ASSUME ExInv, NEW k \in 1 .. Len(file), NEW x, SwitchAt(x, k - 1)
  PROVE  SwitchAt(SwitchLine(x, k), k)
<1> DEFINE l == file[k].is
           y == SwitchLine(x, k)
           o == Open("case", "break", k)
           P == Paired("case", "break", "pipe", k - 1)
<1>1. k \in Nat /\ k - 1 + 1 = k
  BY DEF ExInv
<1>2. x = [active |-> x.active, map |-> x.map] /\ x.active = NamesOf(o) /\ x.map = NamePairs(P)
  BY <1>1 DEF SwitchAt
<1>3. Open("case", "break", k + 1) = (IF l = "break" THEN {} ELSE o) \cup (IF l = "case" THEN {k} ELSE {})
  BY OpenStep
<1>4. Paired("case", "break", "pipe", k) = P \cup (IF l = "pipe" THEN {<<c, k>> : c \in o} ELSE {})
  BY PairedMore
<1>5. SUFFICES /\ y = [active |-> y.active, map |-> y.map]
               /\ y.active = NamesOf(Open("case", "break", k + 1))
               /\ y.map = NamePairs(Paired("case", "break", "pipe", k))
  BY DEF SwitchAt
<1>6. CASE l = "case"
  <2>1. y = [active |-> x.active \cup {file[k].name}, map |-> x.map]
    BY <1>2, <1>6 DEF SwitchLine
  <2>2. y = [active |-> y.active, map |-> y.map] /\ y.active = x.active \cup {file[k].name} /\ y.map = x.map
    BY <2>1
  <2> HIDE DEF y, o, P
  <2>3. Open("case", "break", k + 1) = o \cup {k} /\ Paired("case", "break", "pipe", k) = P
    BY <1>3, <1>4, <1>6
  <2>4. NamesOf(o \cup {k}) = NamesOf(o) \cup {file[k].name}
    BY DEF NamesOf
  <2> QED BY <1>2, <2>2, <2>3, <2>4
<1>7. CASE l = "break"
  <2>1. y = [active |-> {}, map |-> x.map]
    BY <1>2, <1>7 DEF SwitchLine
  <2>2. y = [active |-> y.active, map |-> y.map] /\ y.active = {} /\ y.map = x.map
    BY <2>1
  <2> HIDE DEF y, o, P
  <2>3. Open("case", "break", k + 1) = {} /\ Paired("case", "break", "pipe", k) = P
    BY <1>3, <1>4, <1>7
  <2>4. NamesOf({}) = {}
    BY DEF NamesOf
  <2> QED BY <1>2, <2>2, <2>3, <2>4
<1>8. CASE l = "pipe"
  <2> DEFINE R == Mapped(x.active, k)
  <2>1. y = [active |-> x.active, map |-> x.map \cup R]
    BY <1>2, <1>8 DEF SwitchLine, Mapped
  <2>2. y = [active |-> y.active, map |-> y.map] /\ y.active = x.active /\ y.map = x.map \cup R
    BY <2>1
  <2> HIDE DEF y, o, P
  <2>3. NamePairs(P \cup Under(o, k)) = NamePairs(P) \cup R
    BY <1>2, PipesMore
  <2> HIDE DEF R
  <2>4. Open("case", "break", k + 1) = o /\ Paired("case", "break", "pipe", k) = P \cup Under(o, k)
    BY <1>3, <1>4, <1>8 DEF Under
  <2> QED BY <1>2, <2>2, <2>3, <2>4
<1>9. CASE l \notin {"case", "break", "pipe"}
  <2>1. y = x
    BY <1>9 DEF SwitchLine
  <2> HIDE DEF y, o, P
  <2>2. Open("case", "break", k + 1) = o /\ Paired("case", "break", "pipe", k) = P
    BY <1>3, <1>4, <1>9
  <2> QED BY <1>2, <2>1, <2>2
<1> QED BY <1>6, <1>7, <1>8, <1>9

\* A set of natural numbers that is not empty has its least element in it.
LEMMA MinIn ==
  ASSUME NEW S \in SUBSET Nat, S # {}
  PROVE  Min(S) \in S
BY LeastExists DEF Min

\* Each pipeline is listed under the labels that reach it, and each rule at a
\* label of its own.
LEMMA SwitchExact ==
  ASSUME ExInv, kind = "switch"
  PROVE  /\ PipelineMap = NamePairs({cp \in LinesThat("case") \X LinesThat("pipe") :
                            cp[1] < cp[2] /\ "break" \notin KindsBetween(cp[1], cp[2])})
         /\ \A r \in AutogradRules : file[r.line].is = "case" /\ file[r.line].name = r.name
<1>1. PICK g : Scans("switch", g) /\ PipelineMap = g[Len(file)].map
  BY SwitchScanned
<1> DEFINE good == {k \in 0 .. Len(file) : SwitchAt(g[k], k)}
<1>2. Len(file) \in Nat /\ DOMAIN file = 1 .. Len(file)
  BY DEF ExInv
<1>3. 0 \in good
  <2> DEFINE y == g[0]
  <2>1. y = [active |-> {}, map |-> {}]
    BY <1>1 DEF Scans, Start
  <2>2. Open("case", "break", 0 + 1) = {} /\ Paired("case", "break", "pipe", 0) = {}
    BY OpenStart, PairedStart
  <2> HIDE DEF y
  <2>3. NamesOf({}) = {} /\ NamePairs({}) = {}
    BY DEF NamesOf, NamePairs
  <2>4. y.active = {} /\ y.map = {} /\ y = [active |-> y.active, map |-> y.map]
    BY <2>1
  <2>5. SwitchAt(y, 0)
    BY <2>2, <2>3, <2>4 DEF SwitchAt
  <2> QED BY <1>2, <2>5 DEF y
<1>4. ASSUME NEW k \in 1 .. Len(file), k - 1 \in good PROVE k \in good
  <2>1. g[k] = SwitchLine(g[k - 1], k)
    BY <1>1 DEF Scans, ScanStep
  <2>2. SwitchAt(g[k], k)
    BY <1>4, <2>1, SwitchStep
  <2> QED BY <1>2, <2>2
<1> HIDE DEF good
<1>5. Len(file) \in good
  BY <1>3, <1>4, ScanHolds
<1>6. PipelineMap = NamePairs(Paired("case", "break", "pipe", Len(file)))
  BY <1>1, <1>5 DEF good, SwitchAt
<1>7. \A cp \in LinesThat("case") \X LinesThat("pipe") : cp[2] <= Len(file)
  BY <1>2 DEF LinesThat
<1>8. Paired("case", "break", "pipe", Len(file)) = {cp \in LinesThat("case") \X LinesThat("pipe") :
                              cp[1] < cp[2] /\ "break" \notin KindsBetween(cp[1], cp[2])}
  BY <1>7 DEF Paired
<1>9. ASSUME NEW r \in AutogradRules PROVE file[r.line].is = "case" /\ file[r.line].name = r.name
  <2>1. PICK n \in {file[i].name : i \in LinesThat("case")} :
          r = [name |-> n, line |-> Min({i \in LinesThat("case") : file[i].name = n})]
    BY DEF AutogradRules
  <2> DEFINE S == {i \in LinesThat("case") : file[i].name = n}
             j == Min(S)
  <2>2. S \in SUBSET Nat /\ S # {}
    BY <1>2 DEF LinesThat
  <2>3. j \in S
    BY <2>2, MinIn
  <2>4. r.line = j /\ r.name = n
    BY <2>1
  <2> HIDE DEF j
  <2>5. j \in 1 .. Len(file) /\ file[j].is = "case" /\ file[j].name = n
    BY <1>2, <2>3 DEF LinesThat
  <2> QED BY <2>4, <2>5
<1> QED BY <1>6, <1>8, <1>9

-----------------------------------------------------------------------------
(* Functions with a block.                                                 *)

\* The functions above that have one.
Blocked(k) == {i \in Among(k, {"decl"}) : BlockAbove(i) # {}}

\* shader_functions() after k lines.
KernelAt(x, k) ==
  x = [doc |-> BlockAbove(k + 1), out |-> x.out] /\ Lists(x.out, Blocked(k))

\* Enough to know what it holds.
LEMMA KernelAtIs ==
  ASSUME NEW x, NEW k, NEW out, NEW doc, x = [doc |-> doc, out |-> out], doc = BlockAbove(k + 1),
         Lists(out, Blocked(k))
  PROVE  KernelAt(x, k)
<1> DEFINE b == BlockAbove(k + 1)
<1>1. x.out = out /\ x.doc = doc
  OBVIOUS
<1>2. doc = b
  OBVIOUS
<1> HIDE DEF b
<1>3. x = [doc |-> b, out |-> x.out]
  BY <1>1, <1>2
<1> QED BY <1>1, <1>3 DEF KernelAt, b

\* One line.
LEMMA KernelStep ==
  ASSUME ExInv, kind = "kernel", NEW k \in 1 .. Len(file), NEW x, KernelAt(x, k - 1)
  PROVE  KernelAt(FunctionLine(x, k), k)
<1> DEFINE l == file[k].is
           y == FunctionLine(x, k)
<1>1. x = [doc |-> BlockAbove(k), out |-> x.out] /\ Lists(x.out, Blocked(k - 1))
  <2>1. k - 1 + 1 = k
    BY DEF ExInv
  <2> QED BY <2>1 DEF KernelAt
<1>2. x.doc = BlockAbove(k)
  <2> DEFINE b == BlockAbove(k)
  <2>1. x = [doc |-> b, out |-> x.out]
    BY <1>1
  <2> HIDE DEF b
  <2>2. x.doc = b
    BY <2>1
  <2> QED BY <2>2 DEF b
<1>3. Blocked(k) = IF l = "decl" /\ x.doc # {} THEN Blocked(k - 1) \cup {k} ELSE Blocked(k - 1)
  <2>1. Among(k, {"decl"}) = IF l \in {"decl"} THEN Among(k - 1, {"decl"}) \cup {k} ELSE Among(k - 1, {"decl"})
    BY AmongStep
  <2> QED BY <1>2, <2>1 DEF Blocked
<1>4. BlockAbove(k + 1) = IF l = "doc" THEN x.doc \cup {k} ELSE IF l = "note" THEN x.doc ELSE {}
  <2>1. l # "closes"
    BY NoCloses
  <2> QED BY <1>2, <2>1, BlockStep
<1>5. x = [doc |-> x.doc, out |-> x.out]
  BY <1>1, <1>2
<1> HIDE DEF l
<1>6. CASE l = "doc"
  <2>1. y = [doc |-> x.doc \cup {k}, out |-> x.out]
    BY <1>5, <1>6 DEF FunctionLine, Held, l
  <2>2. x.doc \cup {k} = BlockAbove(k + 1) /\ Lists(x.out, Blocked(k))
    BY <1>1, <1>3, <1>4, <1>6
  <2> HIDE DEF y
  <2> QED BY <2>1, <2>2, KernelAtIs DEF y
<1>7. CASE l = "note"
  <2>1. y = x
    BY <1>7 DEF FunctionLine, l
  <2>2. x.doc = BlockAbove(k + 1) /\ Lists(x.out, Blocked(k))
    BY <1>1, <1>3, <1>4, <1>7
  <2>3. y = [doc |-> x.doc, out |-> x.out]
    BY <1>5, <2>1
  <2> HIDE DEF y
  <2> QED BY <2>2, <2>3, KernelAtIs DEF y
<1>8. CASE l = "decl" /\ x.doc # {}
  <2>1. y = [doc |-> {}, out |-> Append(x.out, Entry(k))]
    <3>1. y = Found(x, k, file[k].name)
      BY <1>8 DEF FunctionLine, l
    <3> QED BY <1>2, <1>5, <3>1, FoundIs
  <2>2. Lists(Append(x.out, Entry(k)), Blocked(k - 1) \cup {k})
    BY <1>1, ListsOneMore
  <2>3. BlockAbove(k + 1) = {} /\ Lists(Append(x.out, Entry(k)), Blocked(k))
    BY <1>3, <1>4, <1>8, <2>2
  <2> HIDE DEF y
  <2> QED BY <2>1, <2>3, KernelAtIs DEF y
<1>9. CASE l \notin {"doc", "note"} /\ ~(l = "decl" /\ x.doc # {})
  <2>1. y = [doc |-> {}, out |-> x.out]
    BY <1>5, <1>9 DEF FunctionLine, Dropped, l
  <2>2. BlockAbove(k + 1) = {} /\ Lists(x.out, Blocked(k))
    BY <1>1, <1>3, <1>4, <1>9
  <2> HIDE DEF y
  <2> QED BY <2>1, <2>2, KernelAtIs DEF y
<1> QED BY <1>6, <1>7, <1>8, <1>9

\* The functions that have a block are listed with it, and no other.
LEMMA KernelExact ==
  ASSUME ExInv, kind = "kernel"
  PROVE  /\ ToSet(ShaderFunctions) = {Entry(j) : j \in Blocked(Len(file))}
         /\ ShaderFunctions \in Seq(Entries)
<1>1. PICK g : Scans("kernel", g) /\ ShaderFunctions = g[Len(file)].out
  BY KernelScanned
<1> DEFINE good == {k \in 0 .. Len(file) : KernelAt(g[k], k)}
<1>2. Len(file) \in Nat
  BY DEF ExInv
<1>3. 0 \in good
  <2>1. g[0] = [doc |-> {}, out |-> <<>>]
    BY <1>1 DEF Scans, Start, NothingYet
  <2>2. Blocked(0) = {} /\ BlockAbove(0 + 1) = {}
    BY BlockStart DEF Among, Blocked
  <2>3. KernelAt(g[0], 0)
    BY <2>1, <2>2, ListsNothing, KernelAtIs
  <2> QED BY <1>2, <2>3
<1>4. ASSUME NEW k \in 1 .. Len(file), k - 1 \in good PROVE k \in good
  <2>1. g[k] = FunctionLine(g[k - 1], k)
    BY <1>1 DEF Scans, ScanStep
  <2>2. KernelAt(g[k], k)
    BY <1>4, <2>1, KernelStep
  <2> QED BY <1>2, <2>2
<1> HIDE DEF good
<1>5. Len(file) \in good
  BY <1>3, <1>4, ScanHolds
<1> QED BY <1>1, <1>5 DEF good, KernelAt, Lists

\* The block of a CPU kernel is that of a function of its name.
LEMMA CpuDocExact ==
  ASSUME ExInv, kind = "kernel", NEW n
  PROVE  CpuKernelDoc(n) = {} \/ \E j \in LinesThat("decl") : file[j].name = n /\ CpuKernelDoc(n) = BlockAbove(j)
<1> DEFINE F == ShaderFunctions
           ofName == {i \in DOMAIN F : F[i].name = n}
           m == Min(ofName)
<1>1. CpuKernelDoc(n) = IF ofName = {} THEN {} ELSE F[m].doc
  BY DEF CpuKernelDoc
<1>2. CASE ofName = {}
  BY <1>1, <1>2
<1>3. CASE ofName # {}
  <2>1. F \in Seq(Entries) /\ ToSet(F) = {Entry(j) : j \in Blocked(Len(file))}
    BY KernelExact
  <2> HIDE DEF F
  <2>2. ofName \in SUBSET Nat
    BY <2>1, LenProperties
  <2>3. m \in ofName
    BY <1>3, <2>2, MinIn
  <2> HIDE DEF m
  <2>4. m \in DOMAIN F /\ F[m].name = n /\ F[m] \in ToSet(F)
    BY <2>3 DEF ToSet
  <2>5. PICK j \in Blocked(Len(file)) : F[m] = Entry(j)
    BY <2>1, <2>4
  <2>6. j \in LinesThat("decl")
    BY DEF Blocked, Among, LinesThat, ExInv
  <2>7. F[m].name = file[j].name /\ F[m].doc = BlockAbove(j)
    <3> DEFINE b == BlockAbove(j)
    <3>1. F[m] = [name |-> file[j].name, doc |-> b, line |-> j]
      BY <2>5 DEF Entry
    <3> HIDE DEF b
    <3>2. F[m].name = file[j].name /\ F[m].doc = b
      BY <3>1
    <3> QED BY <3>2 DEF b
  <2>8. CpuKernelDoc(n) = F[m].doc
    BY <1>1, <1>3
  <2> QED BY <2>4, <2>6, <2>7, <2>8
<1> QED BY <1>2, <1>3

-----------------------------------------------------------------------------
(* Classes.                                                                *)

\* The access of the lines from line p on.
Access(p) == IF Open("public", "private", p) # {} THEN "public" ELSE "private"

\* A member is listed at its last line, under the name and block of its first.
MemberEnds == {"decl", "states", "ends"}
First(e) == IF file[e].is = "ends" THEN e - 1 ELSE e
Member(j) == [name |-> file[j].name, doc |-> BlockAbove(j), line |-> LastLine(j)]
MemberAt(e) == [name |-> file[First(e)].name, doc |-> BlockAbove(First(e)), line |-> e]
MembersHere == {MemberAt(e) : e \in 1 .. Len(file)}
ListsMembers(out, T) == out \in Seq(MembersHere) /\ ToSet(out) = {MemberAt(e) : e \in T}

\* parse_classes() after k lines: the block, which an opening line leaves to the
\* end of its declaration, with its name; the members found, and the access.
Pending(k) == IF k # 0 /\ file[k].is = "opens" THEN BlockAbove(k) ELSE BlockAbove(k + 1)
Accesses(T) == {<<j, Access(j)>> : j \in T}
ClassAt(x, k) ==
  /\ x = [doc |-> x.doc, out |-> x.out, access |-> x.access, opened |-> x.opened, all |-> x.all]
  /\ x.doc = Pending(k)
  /\ ListsMembers(x.out, Among(k, MemberEnds))
  /\ x.access = Access(k + 1)
  /\ k # 0 /\ file[k].is = "opens" => x.opened = file[k].name
  /\ x.all = Accesses(Among(k, MemberEnds))

\* One member more.
LEMMA MembersOneMore ==
  ASSUME NEW out, NEW T, ListsMembers(out, T), NEW k \in 1 .. Len(file)
  PROVE  ListsMembers(Append(out, MemberAt(k)), T \cup {k})
<1> DEFINE e == MemberAt(k)
<1>1. out \in Seq(MembersHere) /\ ToSet(out) = {MemberAt(j) : j \in T} /\ e \in MembersHere
  BY DEF ListsMembers, MembersHere
<1> HIDE DEF e
<1>2. Append(out, e) \in Seq(MembersHere) /\ ToSet(Append(out, e)) = ToSet(out) \cup {e}
  BY <1>1, AppendAdds
<1>3. ToSet(Append(out, e)) = {MemberAt(j) : j \in T \cup {k}}
  BY <1>1, <1>2 DEF e
<1> QED BY <1>2, <1>3 DEF ListsMembers, e

\* The access after one line more.
LEMMA AccessStep ==
  ASSUME ExInv, NEW k \in 1 .. Len(file)
  PROVE  Access(k + 1) = IF file[k].is \in {"public", "private"} THEN file[k].is ELSE Access(k)
<1> DEFINE l == file[k].is
           o == Open("public", "private", k)
           p == Open("public", "private", k + 1)
<1>1. p = (IF l = "private" THEN {} ELSE o) \cup (IF l = "public" THEN {k} ELSE {})
  BY OpenStep
<1>2. Access(k + 1) = (IF p # {} THEN "public" ELSE "private") /\ Access(k) = (IF o # {} THEN "public" ELSE "private")
  BY DEF Access
<1> HIDE DEF o, p
<1> QED BY <1>1, <1>2

\* The lines of a class.
LEMMA ClassLines ==
  ASSUME ExInv, kind = "class", NEW k \in 1 .. Len(file)
  PROVE  file[k].is \in {"doc", "note", "blank", "decl", "opens", "public", "private", "ends",
                         "states", "control", "closes"}
<1>1. file[k] \in Alphabet["class"] \/ file[k].is = "ends"
  BY DEF ExInv, OfKind
<1>2. ASSUME NEW e \in Alphabet["class"]
      PROVE  \/ e \in Prose \/ e \in Naming("decl") \/ e \in Opening("decl") \/ e \in Naming("opens")
             \/ e = Line("public") \/ e = Line("private") \/ e \in BodyLines
  BY DEF Alphabet
<1>3. \A e \in Alphabet["class"] :
        e.is \in {"doc", "note", "blank", "decl", "opens", "public", "private", "states", "control", "closes"}
  BY <1>2, LineKinds
<1> QED BY <1>1, <1>3

\* One line more: what it finds is under the block above its first line.
LEMMA PendingStep ==
  ASSUME ExInv, NEW k \in 1 .. Len(file)
  PROVE  /\ Pending(k - 1) = BlockAbove(First(k))
         /\ Pending(k) = IF file[k].is = "doc" THEN Pending(k - 1) \cup {k}
                         ELSE IF file[k].is \in {"note", "closes", "opens"} THEN Pending(k - 1) ELSE {}
<1>1. k \in Nat /\ k # 0 /\ k - 1 + 1 = k /\ (k # 1 <=> k - 1 # 0)
  BY DEF ExInv
<1>2. file[k].is = "ends" <=> k # 1 /\ file[k - 1].is = "opens"
  BY DEF ExInv, EndsOpened
<1>3. BlockAbove(k + 1) = IF file[k].is = "doc" THEN BlockAbove(k) \cup {k}
                          ELSE IF file[k].is \in {"note", "closes"} THEN BlockAbove(k) ELSE {}
  BY BlockStep
<1>4. CASE file[k].is = "ends"
  <2>1. Pending(k - 1) = BlockAbove(k - 1) /\ First(k) = k - 1
    BY <1>1, <1>2, <1>4 DEF Pending, First
  <2>2. Pending(k) = {}
    BY <1>3, <1>4 DEF Pending
  <2> QED BY <1>4, <2>1, <2>2
<1>5. CASE file[k].is # "ends"
  <2>1. Pending(k - 1) = BlockAbove(k) /\ First(k) = k
    BY <1>1, <1>2, <1>5 DEF Pending, First
  <2>2. Pending(k) = IF file[k].is = "opens" THEN BlockAbove(k) ELSE BlockAbove(k + 1)
    BY <1>1 DEF Pending
  <2> QED BY <1>3, <2>1, <2>2
<1> QED BY <1>4, <1>5

\* A member listed.
LEMMA ListedIs ==
  ASSUME NEW x, NEW k, NEW n, n = file[First(k)].name, x.doc = BlockAbove(First(k)),
         x = [doc |-> x.doc, out |-> x.out, access |-> x.access, opened |-> x.opened, all |-> x.all]
  PROVE  Listed(x, k, n) = [doc |-> {}, out |-> Append(x.out, MemberAt(k)), access |-> x.access,
                            opened |-> x.opened, all |-> x.all \cup {<<k, x.access>>}]
<1> DEFINE e == MemberAt(k)
           w == <<k, x.access>>
           f == Found(x, k, n)
<1>1. e = [name |-> n, doc |-> x.doc, line |-> k]
  BY DEF MemberAt
<1>2. f = [x EXCEPT !.out = Append(@, e), !.doc = {}]
  BY <1>1 DEF Found
<1>3. Listed(x, k, n) = [f EXCEPT !.all = @ \cup {w}]
  BY DEF Listed
<1> HIDE DEF e, w, f
<1>4. f = [doc |-> {}, out |-> Append(x.out, e), access |-> x.access, opened |-> x.opened, all |-> x.all]
  BY <1>2
<1>5. Listed(x, k, n) = [doc |-> {}, out |-> Append(x.out, e), access |-> x.access,
                         opened |-> x.opened, all |-> x.all \cup {w}]
  <2> DEFINE q == Append(x.out, e)
  <2> HIDE DEF q
  <2>1. f = [doc |-> {}, out |-> q, access |-> x.access, opened |-> x.opened, all |-> x.all]
    BY <1>4 DEF q
  <2>2. Listed(x, k, n) = [doc |-> {}, out |-> q, access |-> x.access, opened |-> x.opened, all |-> x.all \cup {w}]
    BY <1>3, <2>1
  <2> QED BY <2>2 DEF q
<1> QED BY <1>5 DEF e, w

\* One line of a class.
LEMMA ClassStep ==
  ASSUME ExInv, kind = "class", NEW k \in 1 .. Len(file), NEW x, ClassAt(x, k - 1)
  PROVE  ClassAt(ClassLine(x, k), k)
<1> DEFINE l == file[k].is
           y == ClassLine(x, k)
           b == Pending(k)
           A == Among(k - 1, MemberEnds)
<1>1. /\ x = [doc |-> x.doc, out |-> x.out, access |-> x.access, opened |-> x.opened, all |-> x.all]
      /\ x.doc = Pending(k - 1) /\ ListsMembers(x.out, A) /\ x.access = Access(k) /\ x.all = Accesses(A)
  <2>1. k - 1 + 1 = k
    BY DEF ExInv
  <2> QED BY <2>1 DEF ClassAt
<1>2. Among(k, MemberEnds) = IF l \in MemberEnds THEN A \cup {k} ELSE A
  BY AmongStep
<1>3. b = IF l = "doc" THEN x.doc \cup {k} ELSE IF l \in {"note", "closes", "opens"} THEN x.doc ELSE {}
  BY <1>1, PendingStep
<1>4. Access(k + 1) = IF l \in {"public", "private"} THEN l ELSE Access(k)
  BY AccessStep
<1>5. SUFFICES /\ y = [doc |-> y.doc, out |-> y.out, access |-> y.access, opened |-> y.opened, all |-> y.all]
               /\ y.doc = b /\ ListsMembers(y.out, Among(k, MemberEnds)) /\ y.access = Access(k + 1)
               /\ l = "opens" => y.opened = file[k].name
               /\ y.all = Accesses(Among(k, MemberEnds))
  BY DEF ClassAt
<1>6. CASE l \in MemberEnds
  <2> DEFINE n == IF l = "ends" THEN x.opened ELSE file[k].name
             w == <<k, x.access>>
  <2>1. n = file[First(k)].name
    <3>1. CASE l = "ends"
      <4>1. k - 1 # 0 /\ file[k - 1].is = "opens"
        BY <3>1 DEF ExInv, EndsOpened
      <4>2. x.opened = file[k - 1].name
        BY <4>1 DEF ClassAt
      <4> QED BY <3>1, <4>2 DEF First
    <3>2. CASE l # "ends"
      BY <3>2 DEF First
    <3> QED BY <3>1, <3>2
  <2>2. x.doc = BlockAbove(First(k))
    BY <1>1, PendingStep
  <2>3. y = Listed(x, k, n)
    BY <1>6 DEF ClassLine, MemberEnds
  <2> HIDE DEF n, y
  <2>4. y = [doc |-> {}, out |-> Append(x.out, MemberAt(k)), access |-> x.access,
             opened |-> x.opened, all |-> x.all \cup {w}]
    BY <1>1, <2>1, <2>2, <2>3, ListedIs
  <2> HIDE DEF w
  <2>5. /\ y = [doc |-> y.doc, out |-> y.out, access |-> y.access, opened |-> y.opened, all |-> y.all]
        /\ y.doc = {} /\ y.out = Append(x.out, MemberAt(k)) /\ y.access = x.access /\ y.all = x.all \cup {w}
    BY <2>4
  <2> HIDE DEF b, A
  <2>6. Among(k, MemberEnds) = A \cup {k} /\ b = {} /\ Access(k + 1) = Access(k) /\ l # "opens"
    BY <1>2, <1>3, <1>4, <1>6 DEF MemberEnds
  <2>7. Accesses(A \cup {k}) = Accesses(A) \cup {<<k, Access(k)>>}
    BY DEF Accesses
  <2>8. ListsMembers(Append(x.out, MemberAt(k)), A \cup {k})
    BY <1>1, MembersOneMore
  <2>9. w = <<k, Access(k)>>
    BY <1>1 DEF w
  <2> QED BY <1>1, <2>5, <2>6, <2>7, <2>8, <2>9
<1> HIDE DEF b, A
<1>7. CASE l = "doc"
  <2>1. y = [doc |-> x.doc \cup {k}, out |-> x.out, access |-> x.access, opened |-> x.opened, all |-> x.all]
    BY <1>1, <1>7 DEF ClassLine, Held
  <2>2. /\ y = [doc |-> y.doc, out |-> y.out, access |-> y.access, opened |-> y.opened, all |-> y.all]
        /\ y.doc = x.doc \cup {k} /\ y.out = x.out /\ y.access = x.access /\ y.all = x.all
    BY <2>1
  <2> HIDE DEF y
  <2>3. Among(k, MemberEnds) = A /\ b = x.doc \cup {k} /\ Access(k + 1) = Access(k) /\ l # "opens"
    BY <1>2, <1>3, <1>4, <1>7 DEF MemberEnds
  <2> QED BY <1>1, <2>2, <2>3
<1>8. CASE l \in {"public", "private"}
  <2>1. y = [doc |-> {}, out |-> x.out, access |-> l, opened |-> x.opened, all |-> x.all]
    BY <1>1, <1>8 DEF ClassLine, Dropped
  <2>2. /\ y = [doc |-> y.doc, out |-> y.out, access |-> y.access, opened |-> y.opened, all |-> y.all]
        /\ y.doc = {} /\ y.out = x.out /\ y.access = l /\ y.all = x.all
    BY <2>1
  <2> HIDE DEF y
  <2>3. Among(k, MemberEnds) = A /\ b = {} /\ Access(k + 1) = l /\ l # "opens"
    BY <1>2, <1>3, <1>4, <1>8 DEF MemberEnds
  <2> QED BY <1>1, <2>2, <2>3
<1>9. CASE l \in {"blank", "control"}
  <2>1. y = [doc |-> {}, out |-> x.out, access |-> x.access, opened |-> x.opened, all |-> x.all]
    BY <1>1, <1>9 DEF ClassLine, AtBlank, Dropped
  <2>2. /\ y = [doc |-> y.doc, out |-> y.out, access |-> y.access, opened |-> y.opened, all |-> y.all]
        /\ y.doc = {} /\ y.out = x.out /\ y.access = x.access /\ y.all = x.all
    BY <2>1
  <2> HIDE DEF y
  <2>3. Among(k, MemberEnds) = A /\ b = {} /\ Access(k + 1) = Access(k) /\ l # "opens"
    BY <1>2, <1>3, <1>4, <1>9 DEF MemberEnds
  <2> QED BY <1>1, <2>2, <2>3
<1>10. CASE l \in {"note", "closes"}
  <2>1. y = x
    BY <1>10 DEF ClassLine
  <2> HIDE DEF y
  <2>2. Among(k, MemberEnds) = A /\ b = x.doc /\ Access(k + 1) = Access(k) /\ l # "opens"
    BY <1>2, <1>3, <1>4, <1>10 DEF MemberEnds
  <2> QED BY <1>1, <2>1, <2>2
<1>11. CASE l = "opens"
  <2> DEFINE n == file[k].name
  <2> HIDE DEF n
  <2>1. y = [doc |-> x.doc, out |-> x.out, access |-> x.access, opened |-> n, all |-> x.all]
    BY <1>1, <1>11 DEF ClassLine, Joined, n
  <2>2. /\ y = [doc |-> y.doc, out |-> y.out, access |-> y.access, opened |-> y.opened, all |-> y.all]
        /\ y.doc = x.doc /\ y.out = x.out /\ y.access = x.access /\ y.opened = n /\ y.all = x.all
    BY <2>1
  <2> HIDE DEF y
  <2>3. Among(k, MemberEnds) = A /\ b = x.doc /\ Access(k + 1) = Access(k)
    BY <1>2, <1>3, <1>4, <1>11 DEF MemberEnds
  <2> QED BY <1>1, <2>2, <2>3 DEF n
<1>12. l \in {"doc", "note", "blank", "decl", "opens", "public", "private", "ends", "states", "control", "closes"}
  BY ClassLines
<1> QED BY <1>6, <1>7, <1>8, <1>9, <1>10, <1>11, <1>12 DEF MemberEnds

\* The first line of a member and its last, each found from the other.
LEMMA FirstAndLast ==
  ASSUME ExInv
  PROVE  /\ \A e \in Among(Len(file), MemberEnds) :
              /\ First(e) \in LinesThat("decl") \cup LinesThat("opens") \cup LinesThat("states")
              /\ LastLine(First(e)) = e /\ e \in DOMAIN file /\ Access(First(e)) = Access(e)
         /\ \A j \in LinesThat("decl") \cup LinesThat("opens") \cup LinesThat("states") :
              LastLine(j) \in DOMAIN file =>
                LastLine(j) \in Among(Len(file), MemberEnds) /\ First(LastLine(j)) = j
<1>1. Len(file) \in Nat /\ DOMAIN file = 1 .. Len(file)
  BY DEF ExInv
<1>2. \A i \in 1 .. Len(file) : file[i].is = "ends" <=> i # 1 /\ file[i - 1].is = "opens"
  BY DEF ExInv, EndsOpened
<1>3. ASSUME NEW e \in Among(Len(file), MemberEnds)
      PROVE  /\ First(e) \in LinesThat("decl") \cup LinesThat("opens") \cup LinesThat("states")
             /\ LastLine(First(e)) = e /\ e \in DOMAIN file /\ Access(First(e)) = Access(e)
  <2>1. e \in 1 .. Len(file) /\ file[e].is \in {"decl", "states", "ends"}
    BY DEF Among, MemberEnds
  <2>2. CASE file[e].is = "ends"
    <3>1. e # 1 /\ file[e - 1].is = "opens" /\ First(e) = e - 1
      BY <1>2, <2>1, <2>2 DEF First
    <3>2. e - 1 \in 1 .. Len(file) /\ e - 1 + 1 = e
      BY <1>1, <2>1, <3>1
    <3>3. LastLine(e - 1) = e /\ e - 1 \in LinesThat("opens")
      BY <1>1, <3>1, <3>2 DEF LastLine, LinesThat
    <3>4. Access(e - 1 + 1) = Access(e - 1)
      BY <3>1, <3>2, AccessStep
    <3> QED BY <1>1, <2>1, <3>1, <3>2, <3>3, <3>4
  <2>3. CASE file[e].is # "ends"
    BY <1>1, <2>1, <2>3 DEF First, LastLine, LinesThat
  <2> QED BY <2>2, <2>3
<1>4. ASSUME NEW j \in LinesThat("decl") \cup LinesThat("opens") \cup LinesThat("states"),
             LastLine(j) \in DOMAIN file
      PROVE  LastLine(j) \in Among(Len(file), MemberEnds) /\ First(LastLine(j)) = j
  <2>1. j \in 1 .. Len(file) /\ file[j].is \in {"decl", "opens", "states"}
    BY <1>1 DEF LinesThat
  <2>2. CASE file[j].is = "opens"
    <3>1. LastLine(j) = j + 1 /\ j + 1 \in 1 .. Len(file)
      BY <1>1, <1>4, <2>2 DEF LastLine
    <3> DEFINE e == j + 1
    <3>2. e \in 1 .. Len(file) /\ e # 1 /\ e - 1 = j /\ LastLine(j) = e
      BY <2>1, <3>1
    <3> HIDE DEF e
    <3>3. file[e - 1].is = "opens"
      BY <2>2, <3>2
    <3>4. file[e].is = "ends"
      BY <1>2, <3>2, <3>3
    <3>5. e \in Among(Len(file), MemberEnds)
      BY <3>2, <3>4 DEF Among, MemberEnds
    <3>6. First(e) = j
      BY <3>2, <3>4 DEF First
    <3> QED BY <3>2, <3>5, <3>6
  <2>3. CASE file[j].is # "opens"
    BY <2>1, <2>3 DEF LastLine, Among, MemberEnds, First
  <2> QED BY <2>2, <2>3
<1> QED BY <1>3, <1>4

\* The public members are listed at their last lines, each with its block.
LEMMA ClassExact ==
  ASSUME ExInv, kind = "class"
  PROVE  Public = {Member(j) : j \in {j \in LinesThat("decl") \cup LinesThat("opens") \cup LinesThat("states") :
                                        LastLine(j) \in DOMAIN file /\ UnderPublic(j)}}
<1>1. PICK g : Scans("class", g) /\ ParseClass = g[Len(file)]
  BY ClassScanned
<1> DEFINE good == {k \in 0 .. Len(file) : ClassAt(g[k], k)}
<1>2. Len(file) \in Nat
  BY DEF ExInv
<1>3. 0 \in good
  <2> DEFINE y == g[0]
  <2>1. y = [doc |-> {}, out |-> <<>>, access |-> "private", opened |-> "", all |-> {}]
    BY <1>1 DEF Scans, Start
  <2>2. Among(0, MemberEnds) = {} /\ Pending(0) = {} /\ Access(0 + 1) = "private"
    BY BlockStart, OpenStart DEF Among, Access, Pending
  <2>3. Accesses({}) = {}
    BY DEF Accesses
  <2>4. ListsMembers(<<>>, {})
    BY ListsNothing, EmptySeq DEF Lists, ListsMembers
  <2> HIDE DEF y
  <2>5. /\ y = [doc |-> y.doc, out |-> y.out, access |-> y.access, opened |-> y.opened, all |-> y.all]
        /\ y.doc = {} /\ y.out = <<>> /\ y.access = "private" /\ y.all = {}
    BY <2>1
  <2>6. ClassAt(y, 0)
    BY <2>2, <2>3, <2>4, <2>5 DEF ClassAt
  <2> QED BY <1>2, <2>6 DEF y
<1>4. ASSUME NEW k \in 1 .. Len(file), k - 1 \in good PROVE k \in good
  <2>1. g[k] = ClassLine(g[k - 1], k)
    BY <1>1 DEF Scans, ScanStep
  <2>2. ClassAt(g[k], k)
    BY <1>4, <2>1, ClassStep
  <2> QED BY <1>2, <2>2
<1> HIDE DEF good
<1>5. Len(file) \in good
  BY <1>3, <1>4, ScanHolds
<1> DEFINE T == Among(Len(file), MemberEnds)
           D == LinesThat("decl") \cup LinesThat("opens") \cup LinesThat("states")
           Whole(j) == LastLine(j) \in DOMAIN file
<1>6. ToSet(ParseClass.out) = {MemberAt(e) : e \in T} /\ ParseClass.all = Accesses(T)
  BY <1>1, <1>5 DEF good, ClassAt, ListsMembers
<1>7. /\ \A e \in T : First(e) \in D /\ LastLine(First(e)) = e /\ Whole(First(e)) /\ Access(First(e)) = Access(e)
      /\ \A j \in D : Whole(j) => LastLine(j) \in T /\ First(LastLine(j)) = j
  BY FirstAndLast
<1>8. \A e : MemberAt(e).line = e
  BY DEF MemberAt
<1> HIDE DEF T, D, Whole
<1>9. \A e \in T : MemberAt(e) = Member(First(e))
  BY <1>7 DEF MemberAt, Member
<1>10. \A e \in T : <<e, "public">> \in Accesses(T) <=> Access(e) = "public"
  BY DEF Accesses
<1>11. \A j : Access(j) = "public" <=> UnderPublic(j)
  <2> SUFFICES ASSUME NEW j PROVE Access(j) = "public" <=> UnderPublic(j)
    OBVIOUS
  <2>1. Access(j) = "public" <=> Open("public", "private", j) # {}
    BY DEF Access
  <2>2. Open("public", "private", j) # {} <=> UnderPublic(j)
    BY DEF Open, UnderPublic
  <2> QED BY <2>1, <2>2
<1>12. \A m : m \in Public <=> \E e \in T : m = MemberAt(e) /\ Access(e) = "public"
  BY <1>6, <1>8, <1>10 DEF Public
<1>13. ASSUME NEW m PROVE m \in Public <=> \E j \in D : m = Member(j) /\ Whole(j) /\ UnderPublic(j)
  <2>1. ASSUME NEW e \in T, m = MemberAt(e), Access(e) = "public"
        PROVE  First(e) \in D /\ m = Member(First(e)) /\ Whole(First(e)) /\ UnderPublic(First(e))
    BY <1>7, <1>9, <1>11, <2>1
  <2>2. ASSUME NEW j \in D, m = Member(j), Whole(j), UnderPublic(j)
        PROVE  LastLine(j) \in T /\ m = MemberAt(LastLine(j)) /\ Access(LastLine(j)) = "public"
    <3>1. LastLine(j) \in T /\ First(LastLine(j)) = j
      BY <1>7, <2>2
    <3>2. Access(j) = "public" /\ Access(j) = Access(LastLine(j)) /\ MemberAt(LastLine(j)) = Member(j)
      BY <1>7, <1>9, <1>11, <2>2, <3>1
    <3> QED BY <2>2, <3>1, <3>2
  <2> QED BY <1>12, <2>1, <2>2
<1>14. Public = {Member(j) : j \in {j \in D : Whole(j) /\ UnderPublic(j)}}
  BY <1>13
<1> QED BY <1>14 DEF D, Whole

-----------------------------------------------------------------------------
(* Whatever is written.                                                    *)

\* The scanners are exact on every file there can be.
LEMMA AllExact == ASSUME ExInv PROVE ScannersExact
<1>1. ASSUME kind = "header"
      PROVE  {d \in ToSet(ParseHeader) : file[d.line].is # "ends"} =
         {[name |-> file[j].name, doc |-> BlockAbove(j), line |-> j] : j \in LinesThat("decl") \cup LinesThat("opens")}
  BY <1>1, HeaderExact DEF Entry
<1>2. ASSUME kind = "class"
      PROVE  Public = {[name |-> file[j].name, doc |-> BlockAbove(j), line |-> LastLine(j)] :
                   j \in {j \in LinesThat("decl") \cup LinesThat("opens") \cup LinesThat("states") :
                            LastLine(j) \in DOMAIN file /\ UnderPublic(j)}}
  BY <1>2, ClassExact DEF Member
<1>3. ASSUME kind = "kernel"
      PROVE
      /\ \A f \in ToSet(ShaderFunctions) : f.doc = BlockAbove(f.line) /\ f.doc # {}
      /\ \A j \in LinesThat("decl") : BlockAbove(j) # {} => \E f \in ToSet(ShaderFunctions) : f.line = j
  <2>1. ToSet(ShaderFunctions) = {Entry(j) : j \in Blocked(Len(file))}
    BY <1>3, KernelExact
  <2>2. \A j : Entry(j).doc = BlockAbove(j) /\ Entry(j).line = j
    <3> SUFFICES ASSUME NEW j PROVE Entry(j).doc = BlockAbove(j) /\ Entry(j).line = j
      OBVIOUS
    <3> DEFINE b == BlockAbove(j)
    <3>1. Entry(j) = [name |-> file[j].name, doc |-> b, line |-> j]
      BY DEF Entry
    <3> HIDE DEF b
    <3>2. Entry(j).doc = b /\ Entry(j).line = j
      BY <3>1
    <3> QED BY <3>2 DEF b
  <2>3. \A j \in Blocked(Len(file)) : BlockAbove(j) # {}
    BY DEF Blocked
  <2>4. \A j \in LinesThat("decl") : BlockAbove(j) # {} => j \in Blocked(Len(file))
    BY DEF Blocked, Among, LinesThat, ExInv
  <2> QED BY <2>1, <2>2, <2>3, <2>4
<1>4. ASSUME kind = "kernel"
      PROVE  \A n \in Names : CpuKernelDoc(n) = {} \/ \E j \in LinesThat("decl") :
                file[j].name = n /\ CpuKernelDoc(n) = BlockAbove(j)
  BY <1>4, CpuDocExact
<1>5. ASSUME kind = "switch"
      PROVE  /\ PipelineMap = {<<file[cp[1]].name, file[cp[2]].name>> :
                  cp \in {cp \in LinesThat("case") \X LinesThat("pipe") :
                            cp[1] < cp[2] /\ "break" \notin KindsBetween(cp[1], cp[2])}}
             /\ \A r \in AutogradRules : file[r.line].is = "case" /\ file[r.line].name = r.name
  BY <1>5, SwitchExact DEF NamePairs
<1>6. ASSUME kind = "test"
      PROVE  TestIndex = {<<file[dc[2]].name, dc[1]>> :
         dc \in {dc \in LinesThat("def") \X LinesThat("call") :
                         dc[1] < dc[2] /\ "def" \notin KindsBetween(dc[1], dc[2])}}
  BY <1>6, TestExact DEF Calls
<1> QED BY <1>1, <1>2, <1>3, <1>4, <1>5, <1>6 DEF ScannersExact

\* A file grows by lines of its kind, a wrapped declaration by its end.
LEMMA FileGrows ==
  ASSUME ExInv, NEW l, file' = Append(file, l), UNCHANGED kind,
         l.is = "ends" <=> Wrapped,
         l \in Alphabet[kind] \/ l.is = "ends"
  PROVE  ExInv'
<1> DEFINE m == Len(file)
<1>1. file \in Seq({file[i] : i \in 1 .. m} \cup {l}) /\ m \in Nat
  <2>1. Len(file) \in Nat /\ file = [i \in 1 .. Len(file) |-> file[i]]
    BY DEF ExInv
  <2> DEFINE S == {file[i] : i \in 1 .. m} \cup {l}
  <2>2. file \in [1 .. m -> S]
    BY <2>1
  <2> HIDE DEF S
  <2>3. file \in Seq(S)
    BY <2>1, <2>2, SeqDef
  <2> QED BY <2>1, <2>3 DEF S
<1> DEFINE S == {file[i] : i \in 1 .. m} \cup {l}
<1>2. l \in S /\ file \in Seq(S)
  BY <1>1
<1> HIDE DEF S
<1>3. /\ file' \in Seq(S) /\ Len(file') = m + 1 /\ file'[m + 1] = l
      /\ \A i \in 1 .. m : file'[i] = file[i]
  BY <1>2, AppendProperties
<1>4. Len(file') \in Nat /\ file' = [i \in 1 .. Len(file') |-> file'[i]]
  BY <1>3, LenProperties
<1>5. \A i \in 1 .. Len(file') : i \in 1 .. m \/ i = m + 1
  BY <1>1, <1>3
<1>6. OfKind'
  <2> DEFINE A == Alphabet[kind]
             D == DOMAIN Alphabet
  <2>1. kind \in D /\ \A j \in 1 .. m : file[j] \in A \/ file[j].is = "ends"
    BY DEF ExInv, OfKind
  <2>2. A' = A /\ D' = D
    BY DEF Alphabet, Prose, Naming, Opening, BodyLines
  <2> HIDE DEF A, D
  <2>3. \A i \in 1 .. Len(file') : file'[i] \in A \/ file'[i].is = "ends"
    BY <1>3, <1>5, <2>1 DEF A
  <2>4. kind' \in D' /\ \A i \in 1 .. Len(file') : file'[i] \in A' \/ file'[i].is = "ends"
    BY <2>1, <2>2, <2>3
  <2> QED BY <2>4 DEF A, D, OfKind
<1>7. Wrapped <=> m # 0 /\ file[m].is = "opens"
  <2>1. file = <<>> <=> m = 0
    BY <1>2, EmptySeq
  <2>2. Last(file) = file[m]
    BY DEF Last
  <2> QED BY <2>1, <2>2 DEF Wrapped
<1>8. ASSUME NEW i \in 1 .. Len(file')
      PROVE  file'[i].is = "ends" <=> i # 1 /\ file'[i - 1].is = "opens"
  <2>1. CASE i \in 1 .. m
    <3>1. file[i].is = "ends" <=> i # 1 /\ file[i - 1].is = "opens"
      BY <2>1 DEF ExInv, EndsOpened
    <3>2. i # 1 => i - 1 \in 1 .. m
      BY <1>1, <2>1
    <3> QED BY <1>3, <2>1, <3>1, <3>2
  <2>2. CASE i = m + 1
    <3>1. i - 1 = m /\ (i # 1 <=> m # 0) /\ (m # 0 => m \in 1 .. m)
      BY <1>1, <2>2
    <3> QED BY <1>3, <1>7, <2>2, <3>1
  <2> QED BY <1>5, <2>1, <2>2
<1>9. EndsOpened'
  BY <1>8 DEF EndsOpened
<1> QED BY <1>4, <1>6, <1>9 DEF ExInv

\* The invariant.
LEMMA FilesKept == ExSpec => []ExInv
<1>1. ExInit => ExInv
  <2> SUFFICES ASSUME ExInit PROVE ExInv
    OBVIOUS
  <2>1. file = <<>> /\ Len(file) = 0 /\ 1 .. 0 = {}
    BY DEF ExInit
  <2>2. file = [i \in 1 .. Len(file) |-> file[i]]
    BY <2>1
  <2>3. kind \in DOMAIN Alphabet
    BY FilesAssumption DEF ExInit
  <2> QED BY <2>1, <2>2, <2>3 DEF ExInv, EndsOpened, OfKind
<1>2. ExInv /\ [ExNext]_exVars => ExInv'
  <2> SUFFICES ASSUME ExInv, [ExNext]_exVars PROVE ExInv'
    OBVIOUS
  <2>1. CASE UNCHANGED exVars
    BY <2>1 DEF exVars, ExInv, EndsOpened, OfKind, Alphabet, Prose, Naming, Opening, BodyLines
  <2>2. ASSUME NEW l, AddLine(l) PROVE ExInv'
    <3>1. file' = Append(file, l) /\ UNCHANGED kind /\ l \in Alphabet[kind] /\ ~Wrapped
      BY <2>2 DEF AddLine
    <3>2. l.is # "ends"
      <4>2. kind \in DOMAIN Alphabet
        BY DEF ExInv, OfKind
      <4> QED BY <3>1, <4>2, KindsOf
    <3> QED BY <3>1, <3>2, FileGrows
  <2>3. ASSUME NEW n \in Names, NEW opensBody \in BOOLEAN, EndDeclaration(n, opensBody) PROVE ExInv'
    <3> DEFINE l == [is |-> "ends", name |-> n, body |-> opensBody]
    <3>1. Wrapped /\ file' = Append(file, l) /\ UNCHANGED kind /\ l.is = "ends"
      BY <2>3 DEF EndDeclaration
    <3> HIDE DEF l
    <3> QED BY <3>1, FileGrows
  <2> QED BY <2>1, <2>2, <2>3 DEF ExNext
<1> QED BY <1>1, <1>2, PTL DEF ExSpec

\* Whatever is written in a header, a class, a kernel file, the switch or a test
\* file, each scanner of research.py finds what a reader would.
THEOREM ScannersAreExact == ExSpec => []ScannersExact
<1>1. ExInv => ScannersExact
  BY AllExact
<1> QED BY <1>1, FilesKept, PTL

-----------------------------------------------------------------------------
(* The gates.                                                              *)

\* The commands of the pushed workflows that have still to run, or have.
Started ==
  /\ DOMAIN jobs = DOMAIN tree.workflows
  /\ \A j \in DOMAIN jobs : \A p \in Uncommented(tree.workflows[j]) : p \in jobs[j] \/ CommandAt(j, p) \in ran

\* What has run has succeeded on the tree; nothing is passed over.
GtInv ==
  /\ result = "editing" => ran = {}
  /\ \A c \in ran : Exits0(tree, c)
  /\ result \in {"running", "green"} => Started
  /\ result = "green" => \A j \in DOMAIN jobs : jobs[j] = {}

\* It is kept.
LEMMA GatesKept == GtSpec => []GtInv
<1>1. GtInit => GtInv
  BY DEF GtInit, GtInv
<1>2. GtInv /\ [GtNext]_gtVars => GtInv'
  <2> SUFFICES ASSUME GtInv, [GtNext]_gtVars PROVE GtInv'
    OBVIOUS
  <2>1. CASE UNCHANGED gtVars
    <3>1. tree' = tree /\ jobs' = jobs /\ ran' = ran /\ result' = result
      BY <2>1 DEF gtVars
    <3>2. Started' <=> Started
      BY <3>1 DEF Started, CommandAt
    <3>3. \A c \in ran' : Exits0(tree, c)
      BY <3>1 DEF GtInv
    <3>4. \A c \in ran' : Exits0(tree', c)
      BY <3>1, <3>3
    <3> QED BY <3>1, <3>2, <3>4 DEF GtInv
  <2>2. ASSUME NEW f \in DOMAIN Options, Edit(f) PROVE GtInv'
    <3>1. result' = "editing" /\ ran' = {}
      BY <2>2 DEF Edit, GtInv
    <3> QED BY <3>1 DEF GtInv
  <2>3. CASE Push
    <3>1. result' = "running" /\ ran' = {} /\ tree' = tree
      BY <2>3 DEF Push, GtInv
    <3>2. jobs' = [j \in DOMAIN tree.workflows |-> Uncommented(tree.workflows[j])]
      BY <2>3 DEF Push
    <3>3. Started'
      BY <3>1, <3>2 DEF Started, CommandAt
    <3> QED BY <3>1, <3>3 DEF GtInv
  <2>4. CASE RunCommand
    <3>1. PICK j \in DOMAIN jobs : \E p \in jobs[j] :
            IF Exits0(tree, CommandAt(j, p))
            THEN jobs' = [jobs EXCEPT ![j] = @ \ {p}] /\ ran' = ran \cup {CommandAt(j, p)} /\ UNCHANGED result
            ELSE result' = "red" /\ UNCHANGED <<jobs, ran>>
      BY <2>4 DEF RunCommand
    <3>2. PICK p \in jobs[j] :
            IF Exits0(tree, CommandAt(j, p))
            THEN jobs' = [jobs EXCEPT ![j] = @ \ {p}] /\ ran' = ran \cup {CommandAt(j, p)} /\ UNCHANGED result
            ELSE result' = "red" /\ UNCHANGED <<jobs, ran>>
      BY <3>1
    <3>3. tree' = tree /\ result = "running" /\ Started /\ \A c \in ran : Exits0(tree, c)
      BY <2>4 DEF RunCommand, GtInv
    <3>4. CASE Exits0(tree, CommandAt(j, p))
      <4> DEFINE c == CommandAt(j, p)
      <4>1. jobs' = [jobs EXCEPT ![j] = @ \ {p}] /\ ran' = ran \cup {c} /\ result' = "running"
        BY <3>2, <3>3, <3>4
      <4>2. \A q, k : CommandAt(k, q)' = CommandAt(k, q)
        BY <3>3 DEF CommandAt
      <4>3. Exits0(tree, c)
        BY <3>4
      <4> HIDE DEF c
      <4>4. \A d \in ran' : Exits0(tree, d)
        BY <3>3, <4>1, <4>3
      <4>5. \A d \in ran' : Exits0(tree', d)
        BY <3>3, <4>4
      <4>6. \A k \in DOMAIN jobs' : \A q \in Uncommented(tree.workflows[k]) : q \in jobs'[k] \/ CommandAt(k, q) \in ran'
        <5> SUFFICES ASSUME NEW k \in DOMAIN jobs', NEW q \in Uncommented(tree.workflows[k])
                     PROVE  q \in jobs'[k] \/ CommandAt(k, q) \in ran'
          OBVIOUS
        <5>1. k \in DOMAIN jobs /\ (q \in jobs[k] \/ CommandAt(k, q) \in ran)
          BY <3>3, <4>1 DEF Started
        <5>2. CASE k = j /\ q = p
          BY <4>1, <5>2 DEF c
        <5>3. CASE ~(k = j /\ q = p)
          BY <4>1, <5>1, <5>3
        <5> QED BY <5>2, <5>3
      <4>7. DOMAIN jobs' = DOMAIN tree.workflows
        BY <3>3, <4>1 DEF Started
      <4>8. Started'
        BY <3>3, <4>2, <4>6, <4>7 DEF Started
      <4> QED BY <4>1, <4>5, <4>8 DEF GtInv
    <3>5. CASE ~Exits0(tree, CommandAt(j, p))
      <4>1. result' = "red" /\ ran' = ran
        BY <3>2, <3>5
      <4>2. \A c \in ran' : Exits0(tree', c)
        BY <3>3, <4>1
      <4> QED BY <4>1, <4>2 DEF GtInv
    <3> QED BY <3>4, <3>5
  <2>5. CASE Finish
    <3>1. tree' = tree /\ jobs' = jobs /\ ran' = ran /\ result = "running" /\ result' = "green"
      BY <2>5 DEF Finish
    <3>2. \A j \in DOMAIN jobs : jobs[j] = {}
      BY <2>5 DEF Finish
    <3>3. Started' <=> Started
      BY <3>1 DEF Started, CommandAt
    <3>4. \A c \in ran' : Exits0(tree', c)
      BY <3>1 DEF GtInv
    <3> QED BY <3>1, <3>2, <3>3, <3>4 DEF GtInv
  <2> QED BY <2>1, <2>2, <2>3, <2>4, <2>5 DEF GtNext
<1> QED BY <1>1, <1>2, PTL DEF GtSpec

\* When the workflows are green, all of their commands have run and succeeded.
LEMMA AllRan ==
  ASSUME GtInv, result = "green", NEW b \in RunBlocks(tree)
  PROVE  \A c \in b : c \in ran /\ Exits0(tree, c)
<1>1. PICK j \in DOMAIN tree.workflows : \E i \in DOMAIN tree.workflows[j] : b = Block(tree.workflows[j][i])
  BY DEF RunBlocks
<1>2. PICK i \in DOMAIN tree.workflows[j] : b = Block(tree.workflows[j][i])
  BY <1>1
<1> SUFFICES ASSUME NEW c \in b PROVE c \in ran
  BY DEF GtInv
<1>3. PICK k \in DOMAIN tree.workflows[j][i] : ~tree.workflows[j][i][k].comment /\ c = tree.workflows[j][i][k].command
  BY <1>2 DEF Block
<1> DEFINE p == <<i, k>>
<1>4. p \in Uncommented(tree.workflows[j])
  BY <1>3 DEF Uncommented
<1>5. p[1] = i /\ p[2] = k
  OBVIOUS
<1>6. CommandAt(j, p) = c
  BY <1>3, <1>5 DEF CommandAt
<1> HIDE DEF p
<1> QED BY <1>4, <1>6 DEF GtInv, Started

\* A script that is to be run has run, with its argument, and succeeded.
LEMMA GateRan ==
  ASSUME GtInv, result = "green", Watched(tree), NEW s \in GateScripts(tree) \ EXEMPT
  PROVE  \E c \in ran : /\ c.script = s /\ (REQUIRE_ARGS(s) # "" => c.arg = REQUIRE_ARGS(s))
                        /\ Exits0(tree, c)
<1>1. GateCoverage(tree)
  <2>1. PICK b \in RunBlocks(tree) : \E c \in b : c.script = "check_gate_coverage"
    BY DEF Watched
  <2>2. PICK c \in b : c.script = "check_gate_coverage"
    BY <2>1
  <2>3. Exits0(tree, c)
    BY <2>2, AllRan
  <2> QED BY <2>2, <2>3 DEF Exits0
<1> DEFINE r == REQUIRE_ARGS(s)
<1>2. RunsCommand(tree, s, r)
  BY <1>1 DEF GateCoverage
<1>3. <<s, r>> \in WithArgument(tree)
  BY DEF WithArgument
<1> HIDE DEF r
<1>4. PICK b \in RunBlocks(tree) : (\E c \in b : c.script = s) /\ (r = "" \/ \E c \in b : c.arg = r)
  BY <1>2 DEF RunsCommand
<1>5. \E c \in b : c.script = s /\ (r # "" => c.arg = r)
  <2>1. CASE r = ""
    BY <1>4, <2>1
  <2>2. CASE r # ""
    <3> DEFINE a == <<s, r>>
    <3>1. a \in WithArgument(tree) /\ a[1] = s /\ a[2] = r
      BY <1>3
    <3> HIDE DEF a
    <3>2. (\E c \in b : c.script = a[1]) /\ (\E c \in b : c.arg = a[2]) => \E c \in b : c.script = a[1] /\ c.arg = a[2]
      BY <3>1 DEF Watched
    <3> QED BY <1>4, <2>2, <3>1, <3>2
  <2> QED BY <2>1, <2>2
<1> QED BY <1>5, AllRan DEF r

\* Layers that are in order are in no circle.
LEMMA LayersOrdered ==
  ASSUME NEW t, Layering(t)
  PROVE  ~LayersInACircle(t)
<1> SUFFICES ASSUME LayersInACircle(t) PROVE FALSE
  OBVIOUS
<1>1. PICK s \in (SUBSET UNION {LayerOf(i[1]) : i \in t.includes}) \ {{}} : \A a \in s :
        \E i \in t.includes : a \in LayerOf(i[1]) /\ LayerOf(i[2]) \cap (s \ {a}) # {}
  BY DEF LayersInACircle
<1>2. \A a \in s : a \in LAYERS
  BY DEF LayerOf
<1>3. \A a \in LAYERS : a.level \in Nat
  BY DEF LAYERS, LayerAt
<1> DEFINE levels == {a.level : a \in s}
<1>4. levels \in SUBSET Nat /\ levels # {}
  <2>1. \A a \in s : a.level \in Nat
    BY <1>2, <1>3
  <2>2. s # {}
    BY <1>1
  <2> QED BY <2>1, <2>2
<1>5. PICK n \in levels : \A m \in levels : n <= m
  BY <1>4, LeastExists
<1>6. PICK a \in s : a.level = n
  OBVIOUS
<1>7. PICK i \in t.includes : a \in LayerOf(i[1]) /\ LayerOf(i[2]) \cap (s \ {a}) # {}
  BY <1>1
<1>8. PICK e \in LayerOf(i[2]) : e \in s /\ e # a
  BY <1>7
<1>9. e.level < a.level
  BY <1>7, <1>8 DEF Layering
<1>10. n <= e.level /\ e.level \in Nat /\ n \in Nat
  BY <1>2, <1>3, <1>4, <1>5, <1>8
<1> QED BY <1>6, <1>9, <1>10

\* What each gate says when it has run.
LEMMA GatesHold ==
  ASSUME GtInv, result = "green", Watched(tree)
  PROVE  /\ Layering(tree) /\ Versions(tree) /\ PushConstants(tree) /\ SourceLinks(tree)
         /\ DocsGraph(tree) /\ CssBindings(tree) /\ DocsReferences(tree)
         /\ \E c \in ran : c.script = "pytest" /\ c.arg = "VKML_MIN_SPEC=1"
<1>1. \A s \in Watching : \E c \in ran : /\ c.script = s /\ (REQUIRE_ARGS(s) # "" => c.arg = REQUIRE_ARGS(s))
                                        /\ Exits0(tree, c)
  <2> SUFFICES ASSUME NEW s \in Watching
               PROVE  \E c \in ran : /\ c.script = s /\ (REQUIRE_ARGS(s) # "" => c.arg = REQUIRE_ARGS(s))
                                     /\ Exits0(tree, c)
    OBVIOUS
  <2>1. s \in GateScripts(tree) \ EXEMPT
    BY DEF Watched, Watching, EXEMPT
  <2> QED BY <2>1, GateRan
<1>2. Layering(tree)
  <2>1. PICK c \in ran : c.script = "check_layering" /\ Exits0(tree, c)
    BY <1>1 DEF Watching
  <2> QED BY <2>1 DEF Exits0
<1>3. Versions(tree)
  <2>1. PICK c \in ran : c.script = "check_versions" /\ Exits0(tree, c)
    BY <1>1 DEF Watching
  <2> QED BY <2>1 DEF Exits0
<1>4. PushConstants(tree)
  <2>1. PICK c \in ran : c.script = "check_push_constants" /\ Exits0(tree, c)
    BY <1>1 DEF Watching
  <2> QED BY <2>1 DEF Exits0
<1>5. SourceLinks(tree)
  <2>1. PICK c \in ran : c.script = "check_source_links" /\ Exits0(tree, c)
    BY <1>1 DEF Watching
  <2> QED BY <2>1 DEF Exits0
<1>6. DocsGraph(tree)
  <2>1. REQUIRE_ARGS("docs_graph") = "--check"
    BY DEF REQUIRE_ARGS
  <2>2. PICK c \in ran : c.script = "docs_graph" /\ c.arg = "--check" /\ Exits0(tree, c)
    BY <1>1, <2>1 DEF Watching
  <2> QED BY <2>2 DEF Exits0
<1>7. CssBindings(tree)
  <2>1. PICK c \in ran : c.script = "check_css_bindings" /\ Exits0(tree, c)
    BY <1>1 DEF Watching
  <2> QED BY <2>1 DEF Exits0
<1>8. DocsReferences(tree)
  <2>1. PICK c \in ran : c.script = "check_docs_references" /\ Exits0(tree, c)
    BY <1>1 DEF Watching
  <2> QED BY <2>1 DEF Exits0
<1>9. \E c \in ran : c.script = "pytest" /\ c.arg = "VKML_MIN_SPEC=1"
  <2>1. PICK c \in ran : c.script = "check_min_spec" /\ Exits0(tree, c)
    BY <1>1 DEF Watching
  <2>2. MinSpec(tree, c.arg = "--static-only")
    BY <2>1 DEF Exits0
  <2>3. RunsCommand(tree, "pytest", "VKML_MIN_SPEC=1")
    BY <2>2 DEF MinSpec
  <2>4. PICK b \in RunBlocks(tree) : (\E d \in b : d.script = "pytest") /\ \E d \in b : d.arg = "VKML_MIN_SPEC=1"
    BY <2>3 DEF RunsCommand
  <2> DEFINE a == <<"pytest", "VKML_MIN_SPEC=1">>
  <2>5. a \in WithArgument(tree) /\ a[1] = "pytest" /\ a[2] = "VKML_MIN_SPEC=1"
    BY DEF WithArgument
  <2> HIDE DEF a
  <2>6. (\E d \in b : d.script = a[1]) /\ (\E d \in b : d.arg = a[2]) => \E d \in b : d.script = a[1] /\ d.arg = a[2]
    BY <2>5 DEF Watched
  <2>7. \E d \in b : d.script = "pytest" /\ d.arg = "VKML_MIN_SPEC=1"
    BY <2>4, <2>5, <2>6
  <2> QED BY <2>7, AllRan
<1> QED BY <1>2, <1>3, <1>4, <1>5, <1>6, <1>7, <1>8, <1>9

\* A green run of watched workflows means what the gates promise.
LEMMA GreenHolds ==
  ASSUME GtInv, Watched(tree), \A l \in tree.sourceLinks : l.line \in Nat
  PROVE  GreenMeansHeld
<1> SUFFICES ASSUME result = "green"
             PROVE  /\ \A s \in GateScripts(tree) \ EXEMPT :
                         \E c \in ran : c.script = s /\ (REQUIRE_ARGS(s) # "" => c.arg = REQUIRE_ARGS(s))
                    /\ ~LayersInACircle(tree)
                    /\ \E c \in ran : c.script = "pytest" /\ c.arg = "VKML_MIN_SPEC=1"
                    /\ \A m, n \in tree.mentions : m[1] = n[1] => m[2] = n[2]
                    /\ \A k \in tree.push : PushBlock(k) <= 128
                    /\ \A l \in tree.sourceLinks : l.subject # "none" =>
                         \E n \in 1..(l.line + 2) : n <= Len(tree.lines[l.file]) /\ tree.lines[l.file][n] = l.subject
                    /\ \A p \in tree.pages \ tree.recorded.orphans :
                         \E l \in tree.links : l.to = p /\ l.from \in tree.pages \ {p} /\ ~l.chrome
                    /\ \A g \in tree.classGroups \ {{}} : g = {"prev"} \/ \E c \in g : c \in tree.rules \cup {"prev"}
                    /\ \A k \in DOMAIN tree.ops : ~tree.ops[k].ruled <=> k \in tree.gradientReasons
  BY Zenon DEF GreenMeansHeld
<1>1. \A s \in GateScripts(tree) \ EXEMPT :
        \E c \in ran : c.script = s /\ (REQUIRE_ARGS(s) # "" => c.arg = REQUIRE_ARGS(s))
  BY GateRan
<1>2. ~LayersInACircle(tree)
  BY GatesHold, LayersOrdered
<1>3. \E c \in ran : c.script = "pytest" /\ c.arg = "VKML_MIN_SPEC=1"
  BY GatesHold
<1>4. \A m, n \in tree.mentions : m[1] = n[1] => m[2] = n[2]
  BY GatesHold DEF Versions
<1>5. \A k \in tree.push : PushBlock(k) <= 128
  BY GatesHold DEF PushConstants
<1>6. \A l \in tree.sourceLinks : l.subject # "none" =>
        \E n \in 1..(l.line + 2) : n <= Len(tree.lines[l.file]) /\ tree.lines[l.file][n] = l.subject
  <2> SUFFICES ASSUME NEW l \in tree.sourceLinks, l.subject # "none"
               PROVE  \E n \in 1..(l.line + 2) : n <= Len(tree.lines[l.file]) /\ tree.lines[l.file][n] = l.subject
    OBVIOUS
  <2>1. PICK n \in 1..Len(tree.lines[l.file]) : n <= l.line + 2 /\ tree.lines[l.file][n] = l.subject
    BY GatesHold DEF SourceLinks
  <2>2. l.line \in Nat
    OBVIOUS
  <2>3. n \in 1..(l.line + 2) /\ n <= Len(tree.lines[l.file])
    BY <2>1, <2>2
  <2> QED BY <2>1, <2>3
<1>7. \A p \in tree.pages \ tree.recorded.orphans :
        \E l \in tree.links : l.to = p /\ l.from \in tree.pages \ {p} /\ ~l.chrome
  <2> SUFFICES ASSUME NEW p \in tree.pages \ tree.recorded.orphans
               PROVE  \E l \in tree.links : l.to = p /\ l.from \in tree.pages \ {p} /\ ~l.chrome
    OBVIOUS
  <2>1. PICK e \in BuildGraph(tree) : e[2] = p
    BY GatesHold DEF DocsGraph, Orphans
  <2>2. PICK l \in tree.links : e = <<l.from, l.to>> /\ ~l.chrome /\ l.from # l.to /\ {l.from, l.to} \subseteq tree.pages
    BY DEF BuildGraph
  <2> QED BY <2>1, <2>2
<1>8. \A g \in tree.classGroups \ {{}} : g = {"prev"} \/ \E c \in g : c \in tree.rules \cup {"prev"}
  BY GatesHold DEF CssBindings, DefinedClasses
<1>9. \A k \in DOMAIN tree.ops : ~tree.ops[k].ruled <=> k \in tree.gradientReasons
  BY GatesHold DEF DocsReferences, CapabilityReasons
<1> QED BY <1>1, <1>2, <1>3, <1>4, <1>5, <1>6, <1>7, <1>8, <1>9

\* Whatever the developers have made of the tree: when both workflows are green,
\* every gate that can fail and is not exempt has run with its argument and what
\* the gates promise is true of the tree - as long as the watcher is run, the
\* gates can fail and no step lends one script the argument of another.
THEOREM GreenIsHeld ==
  GtSpec => [](Watched(tree) /\ (\A l \in tree.sourceLinks : l.line \in Nat) => GreenMeansHeld)
<1>1. GtInv => (Watched(tree) /\ (\A l \in tree.sourceLinks : l.line \in Nat) => GreenMeansHeld)
  BY GreenHolds
<1> QED BY <1>1, GatesKept, PTL
=============================================================================
