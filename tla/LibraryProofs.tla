---------------------------- MODULE LibraryProofs ----------------------------
(***************************************************************************)
(* Proofs about what the Python library keeps between steps and runs.      *)
(*                                                                         *)
(* Optimizer: the state of a rule and the parameters it updates stay       *)
(* together through failed steps, cleared gradients and models whose       *)
(* tensors are replaced, and a step updates everything or nothing - for    *)
(* every number of parameters, steps and moves.                            *)
(*                                                                         *)
(* NnState: for any seed, any number of forward passes and any nesting of  *)
(* no_grad blocks, the running statistics and the gradient mode survive    *)
(* exceptions anywhere, and no mask is drawn twice.                        *)
(*                                                                         *)
(* Checkpoint, DatasetCache, DataLoader: a checkpoint is whole at every    *)
(* moment; a dataset that is cached is whole; a pass over a loader takes   *)
(* every sample once and replays from its seed.                            *)
(***************************************************************************)
EXTENDS Optimizer, NnState, Checkpoint, DatasetCache, DataLoader, Integers,
        FiniteSetTheorems, FunctionTheorems, SequenceTheorems, TLAPS

-----------------------------------------------------------------------------
(* Optimizer.                                                              *)

SlotSeq == Seq(SUBSET Nat)
States == [Index -> [SlotsOf(rule) -> SlotSeq]]
Updates == [from : [ReadsOf(rule) -> SlotSeq], corrected : Nat, grad : SUBSET Nat, decayed : BOOLEAN]

\* The highest tensor made so far.
Made == NumParams * (moves + 1)

OptType ==
  /\ held \in [Index -> 1..Made] /\ params \in [Index -> 1..Made]
  /\ value \in [Tensors -> Seq(Updates)] /\ grad \in [Tensors -> SUBSET Nat]
  /\ slots \in States /\ pending \in States
  /\ t \in Nat /\ passes \in Nat /\ moves \in 0..MaxMoves
  /\ opc \in {"out", "state", "finish", "values", "assign"}
  /\ plans \subseteq Index /\ lost \in [Index -> Nat]

(* No tensor is two parameters. *)
Distinct == \A i, j \in Index : (held[i] = held[j] \/ params[i] = params[j]) => i = j

(* A step under way is for the parameters that have a gradient. *)
PlansAreDue == opc # "out" => plans = Planned

(* What a step builds, before it is stored and after. *)
BuiltNotStored == opc \in {"state", "finish"} => \A i \in Index : pending[i] = Folded(i)
StoredLast ==
  opc \in {"values", "assign"} =>
    \A i \in plans, s \in SlotsOf(rule) : slots[i][s][Len(slots[i][s])] = grad[params[i]]

(* One fold for each update and each lost one, and one more between storing the *)
(* state of a planned parameter and assigning it.                               *)
Ahead(i) == IF opc \in {"values", "assign"} /\ i \in plans THEN 1 ELSE 0
FoldsCounted ==
  \A i \in Index, s \in SlotsOf(rule) :
    Len(slots[i][s]) = Len(value[params[i]]) + lost[i] + Ahead(i)

(* Adam's count is never behind the state, and ahead of it until it is stored.  *)
CountCovers ==
  IsAdam(rule) =>
    /\ opc # "out" => t > 0
    /\ \A i \in Index, s \in SlotsOf(rule) :
         /\ t >= Len(slots[i][s])
         /\ opc \in {"state", "finish"} => t > Len(slots[i][s])

UpdateSound(u) == \A s \in ReadsOf(rule) : u.corrected >= Len(u.from[s]) /\ u.corrected > 0
UpdatesSound == IsAdam(rule) => \A x \in Tensors : \A k \in 1..Len(value[x]) : UpdateSound(value[x][k])

OptInv ==
  /\ OptType /\ Distinct /\ PlansAreDue /\ BuiltNotStored /\ StoredLast
  /\ FoldsCounted /\ CountCovers /\ UpdatesSound

-----------------------------------------------------------------------------
\* What an update reads is part of the state.
LEMMA ReadsAreSlots == ReadsOf(rule) \subseteq SlotsOf(rule)
BY DEF ReadsOf, SlotsOf, RMSPropReads, RMSPropSlots

\* The tensors of one more move lie above the ones there are, and within the bound.
LEMMA MoreTensors ==
  ASSUME moves \in 0..MaxMoves
  PROVE  /\ Made \in Nat /\ 1..Made \subseteq Tensors
         /\ moves < MaxMoves => NumParams * (moves + 2) <= NumParams * (MaxMoves + 1)
         /\ NumParams * (moves + 2) = Made + NumParams
<1> USE OptimizerAssumption, OptimizerBounds
<1>1. \A a, b \in Nat : a <= b => NumParams * a <= NumParams * b
  OBVIOUS
<1>2. Made \in Nat /\ NumParams * (moves + 2) = Made + NumParams
  BY DEF Made
<1>3. Made <= NumParams * (MaxMoves + 1)
  BY <1>1 DEF Made
<1>4. moves < MaxMoves => NumParams * (moves + 2) <= NumParams * (MaxMoves + 1)
  BY <1>1
<1>5. NumParams * (MaxMoves + 1) \in Nat
  OBVIOUS
<1>6. 1..Made \subseteq Tensors
  BY <1>2, <1>3, <1>5 DEF Tensors
<1> QED BY <1>2, <1>4, <1>6

\* An index is a tensor of the first model.
LEMMA FirstTensors == moves = 0 => Index = 1..Made
BY OptimizerAssumption DEF Index, Made

\* Before the first call nothing is folded and nothing updated.
LEMMA OptInitInv == OptInit => OptInv
<1> SUFFICES ASSUME OptInit PROVE OptInv
  OBVIOUS
<1> USE DEF OptInit
<1>1. moves \in 0..MaxMoves /\ Index = 1..Made /\ 1..Made \subseteq Tensors
  BY FirstTensors, MoreTensors, OptimizerBounds
<1>2. <<>> \in SlotSeq /\ <<>> \in Seq(Updates) /\ Len(<<>>) = 0
  BY DEF SlotSeq
<1>3. OptType
  BY <1>1, <1>2 DEF OptType, States, NoSlots
<1>4. Distinct /\ PlansAreDue /\ BuiltNotStored /\ StoredLast
  BY DEF Distinct, PlansAreDue, BuiltNotStored, StoredLast
<1>5. \A i \in Index, s \in SlotsOf(rule) : Len(slots[i][s]) = 0
  BY DEF NoSlots
<1>6. \A x \in Tensors : Len(value[x]) = 0
  OBVIOUS
<1>7. FoldsCounted
  BY <1>1, <1>5, <1>6 DEF FoldsCounted, Ahead
<1>8. CountCovers /\ UpdatesSound
  BY <1>5, <1>6 DEF CountCovers, UpdatesSound
<1> QED BY <1>3, <1>4, <1>7, <1>8 DEF OptInv

-----------------------------------------------------------------------------
\* Gradients may change between steps: nothing but their type depends on them.
LEMMA GradStep ==
  ASSUME OptInv, opc = "out", grad' \in [Tensors -> SUBSET Nat], passes' \in Nat,
         UNCHANGED <<rule, held, params, value, slots, t, opc, plans, pending, moves, lost>>
  PROVE  OptInv'
<1>1. OptType'
  BY DEF OptInv, OptType, States, Made, Updates
<1>2. Distinct' /\ PlansAreDue' /\ BuiltNotStored' /\ StoredLast'
  BY DEF OptInv, Distinct, PlansAreDue, BuiltNotStored, StoredLast
<1>3. FoldsCounted' /\ CountCovers' /\ UpdatesSound'
  BY DEF OptInv, FoldsCounted, Ahead, CountCovers, UpdatesSound, UpdateSound
<1> QED BY <1>1, <1>2, <1>3 DEF OptInv

\* backward() adds to gradients and zero_grad() clears them.
LEMMA BackwardStep == OptInv /\ (Backward \/ ZeroGrad) => OptInv'
<1> SUFFICES ASSUME OptInv, Backward \/ ZeroGrad PROVE OptInv'
  OBVIOUS
<1>t. grad \in [Tensors -> SUBSET Nat] /\ passes \in Nat
  BY DEF OptInv, OptType
<1>1. CASE Backward
  <2>1. PICK reached \in SUBSET Index \ {{}} :
          grad' = [x \in Tensors |->
                     IF \E i \in reached : held[i] = x THEN grad[x] \cup {passes + 1} ELSE grad[x]]
    BY <1>1 DEF Backward
  <2>2. grad' \in [Tensors -> SUBSET Nat] /\ passes' \in Nat
    BY <1>1, <1>t, <2>1 DEF Backward
  <2> QED BY <1>1, <2>2, GradStep DEF Backward
<1>2. CASE ZeroGrad
  <2>1. PICK which \in {params, held} : grad' = Cleared(which)
    BY <1>2 DEF ZeroGrad
  <2>2. grad' \in [Tensors -> SUBSET Nat] /\ passes' \in Nat
    BY <1>2, <1>t, <2>1 DEF Cleared, ZeroGrad
  <2> QED BY <1>2, <2>2, GradStep DEF ZeroGrad
<1> QED BY <1>1, <1>2

\* to() and load_state_dict() give a module tensors nobody else has.
LEMMA ReplacedStep ==
  ASSUME OptInv, opc = "out", NEW n \in Index, NEW keepGrad \in BOOLEAN, Replaced(n, keepGrad)
  PROVE  OptInv'
<1> USE OptimizerAssumption, OptimizerBounds
<1>t. OptType /\ moves < MaxMoves /\ moves' = moves + 1 /\ moves \in Nat
  BY DEF OptInv, OptType, Replaced
<1>m. /\ Made \in Nat /\ 1..Made \subseteq Tensors /\ Made' = Made + NumParams
      /\ Made' <= NumParams * (MaxMoves + 1)
  BY <1>t, MoreTensors DEF OptType, Made
<1>f. \A i \in Index : Fresh(i) = Made + i /\ Fresh(i) \in Made + 1 .. Made' /\ Fresh(i) \in Tensors
  BY <1>m, <1>t DEF Fresh, Index, Made, Tensors
<1>u. UNCHANGED <<rule, params, slots, t, opc, plans, pending, passes, lost>>
  BY DEF Replaced
<1>n. 1..n \subseteq Index /\ 1..Made \subseteq 1..Made'
  BY <1>m DEF Index
<1>h. \A i \in Index : held'[i] = (IF i <= n THEN Fresh(i) ELSE held[i])
  BY DEF Replaced
<1>o. \A x \in Tensors : (\E i \in 1..n : x = Fresh(i)) => x - NumParams * (moves + 1) \in 1..n
  <2> SUFFICES ASSUME NEW x \in Tensors, NEW i \in 1..n, x = Fresh(i)
               PROVE  x - NumParams * (moves + 1) \in 1..n
    OBVIOUS
  <2>1. x = Made + i /\ Made \in Nat /\ i \in Index
    BY <1>f, <1>m DEF Index
  <2> QED BY <2>1 DEF Made, Index
<1>v. /\ DOMAIN value' = Tensors
      /\ \A x \in Tensors : value'[x] = <<>> \/ \E y \in Tensors : value'[x] = value[y]
  <2>1. value' = [x \in Tensors |-> IF \E i \in 1..n : x = Fresh(i)
                    THEN (IF keepGrad THEN value[held[x - NumParams * (moves + 1)]] ELSE <<>>) ELSE value[x]]
    BY DEF Replaced
  <2>2. \A i \in 1..n : held[i] \in Tensors
    BY <1>t, <1>m, <1>n DEF OptType
  <2> HIDE DEF Fresh
  <2> QED BY <2>1, <2>2, <1>o
<1>k. \A i \in Index : value'[params[i]] = value[params[i]]
  <2> SUFFICES ASSUME NEW i \in Index PROVE value'[params[i]] = value[params[i]]
    OBVIOUS
  <2>1. params[i] \in 1..Made /\ params[i] \in Tensors
    BY <1>t, <1>m DEF OptType
  <2>2. ~\E j \in 1..n : params[i] = Fresh(j)
    BY <1>f, <1>m, <2>1 DEF Index
  <2> QED BY <2>1, <2>2 DEF Replaced
<1>g. grad' \in [Tensors -> SUBSET Nat]
  <2>1. grad' = [x \in Tensors |-> IF keepGrad /\ \E i \in 1..n : x = Fresh(i)
                   THEN grad[held[x - NumParams * (moves + 1)]] ELSE grad[x]]
    BY DEF Replaced
  <2>2. \A i \in 1..n : grad[held[i]] \in SUBSET Nat
    BY <1>t, <1>m, <1>n DEF OptType
  <2>3. \A x \in Tensors : grad[x] \in SUBSET Nat
    BY <1>t DEF OptType
  <2> QED BY <2>1, <2>2, <2>3, <1>o
<1>1. OptType'
  <2>1. held' \in [Index -> 1..Made']
    <3>1. \A i \in Index : held[i] \in 1..Made' /\ Fresh(i) \in 1..Made'
      <4>1. \A i \in Index : held[i] \in 1..Made
        BY <1>t DEF OptType
      <4>2. \A i \in Index : Fresh(i) \in 1..Made'
        BY <1>m, <1>f
      <4> QED BY <1>n, <4>1, <4>2
    <3> QED BY <3>1 DEF Replaced
  <2>2. params' \in [Index -> 1..Made']
    BY <1>t, <1>m, <1>u, SMTT(60) DEF OptType
  <2>3. value' \in [Tensors -> Seq(Updates')]
    <3>1. Updates' = Updates
      BY <1>u DEF Updates
    <3>2. <<>> \in Seq(Updates) /\ \A y \in Tensors : value[y] \in Seq(Updates)
      BY <1>t DEF OptType
    <3>3. \A x \in Tensors : value'[x] \in Seq(Updates)
      BY <1>v, <3>2
    <3>4. value' = [x \in Tensors |-> value'[x]]
      BY <1>v DEF Replaced
    <3> QED BY <3>1, <3>3, <3>4
  <2>4. slots' \in States' /\ pending' \in States'
    BY <1>t, <1>u DEF OptType, States
  <2> QED BY <1>t, <1>u, <1>g, <2>1, <2>2, <2>3, <2>4 DEF OptType
<1>2. Distinct'
  <2>1. \A i, j \in Index : held'[i] = held'[j] => i = j
    <3> SUFFICES ASSUME NEW i \in Index, NEW j \in Index, held'[i] = held'[j] PROVE i = j
      OBVIOUS
    <3>1. held[i] \in 1..Made /\ held[j] \in 1..Made /\ (held[i] = held[j] => i = j)
      BY <1>t DEF OptInv, OptType, Distinct
    <3> QED BY <1>f, <1>h, <1>m, <3>1 DEF Index
  <2> QED BY <2>1, <1>u DEF OptInv, Distinct
<1>3. PlansAreDue' /\ BuiltNotStored' /\ StoredLast'
  BY <1>u DEF PlansAreDue, BuiltNotStored, StoredLast
<1>4. FoldsCounted' /\ CountCovers'
  BY <1>u, <1>k DEF OptInv, FoldsCounted, Ahead, CountCovers
<1>5. UpdatesSound'
  <2> SUFFICES ASSUME IsAdam(rule), NEW x \in Tensors, NEW k \in 1..Len(value'[x])
               PROVE  \A s \in ReadsOf(rule) :
                        value'[x][k].corrected >= Len(value'[x][k].from[s]) /\ value'[x][k].corrected > 0
    BY <1>u DEF UpdatesSound, UpdateSound
  <2>1. PICK y \in Tensors : value'[x] = value[y]
    BY <1>v
  <2>2. UpdateSound(value[y][k])
    BY <2>1 DEF OptInv, UpdatesSound
  <2> QED BY <2>1, <2>2 DEF UpdateSound
<1> QED BY <1>1, <1>2, <1>3, <1>4, <1>5 DEF OptInv

\* A new optimizer starts with no state, and its updates are counted from there.
LEMMA ConstructStep == OptInv /\ Construct => OptInv'
<1> SUFFICES ASSUME OptInv, Construct PROVE OptInv'
  OBVIOUS
<1> USE DEF OptInv, OptType
<1>u. /\ UNCHANGED <<rule, held, grad, opc, plans, pending, passes, moves>> /\ opc = "out"
      /\ params' = held /\ t' = 0 /\ lost' = [i \in Index |-> 0]
      /\ value' = [x \in Tensors |-> <<>>]
      /\ slots' = [i \in Index |-> [s \in SlotsOf(rule) |-> <<>>]]
  BY DEF Construct, NoSlots
<1>1. <<>> \in SlotSeq /\ <<>> \in Seq(Updates) /\ Len(<<>>) = 0
  BY DEF SlotSeq
<1>2. OptType'
  BY <1>u, <1>1 DEF States, Made, Updates
<1>3. Distinct' /\ PlansAreDue' /\ BuiltNotStored' /\ StoredLast'
  BY <1>u DEF Distinct, PlansAreDue, BuiltNotStored, StoredLast
<1>4. \A i \in Index, s \in SlotsOf(rule) : Len(slots'[i][s]) = 0
  BY <1>u
<1>5. \A i \in Index : Len(value'[held[i]]) = 0
  BY <1>u, MoreTensors
<1>6. FoldsCounted'
  <2>1. \A i \in Index : lost'[i] = 0 /\ params'[i] = held[i] /\ Ahead(i)' = 0
    BY <1>u DEF Ahead
  <2>2. \A i \in Index, s \in SlotsOf(rule) :
          Len(slots'[i][s]) = Len(value'[params'[i]]) + lost'[i] + Ahead(i)'
    BY <1>4, <1>5, <2>1
  <2> QED BY <1>u, <2>2 DEF FoldsCounted
<1>7. CountCovers' /\ UpdatesSound'
  BY <1>u, <1>4 DEF CountCovers, UpdatesSound
<1> QED BY <1>2, <1>3, <1>6, <1>7

-----------------------------------------------------------------------------
\* Folding a gradient into a state makes it one longer and ends it with that gradient.
LEMMA FoldedState ==
  ASSUME OptType, NEW i \in Index
  PROVE  /\ Folded(i) \in [SlotsOf(rule) -> SlotSeq]
         /\ \A s \in SlotsOf(rule) :
              /\ Len(Folded(i)[s]) = Len(slots[i][s]) + 1
              /\ Folded(i)[s][Len(Folded(i)[s])] = grad[params[i]]
<1>1. grad[params[i]] \in SUBSET Nat
  BY MoreTensors DEF OptType
<1>2. \A s \in SlotsOf(rule) : slots[i][s] \in Seq(SUBSET Nat)
  BY DEF OptType, States, SlotSeq
<1>3. Folded(i) = [s \in SlotsOf(rule) |-> Append(slots[i][s], grad[params[i]])]
  BY DEF Folded, GradientWithDecay
<1>4. \A s \in SlotsOf(rule) :
        /\ Append(slots[i][s], grad[params[i]]) \in Seq(SUBSET Nat)
        /\ Len(Append(slots[i][s], grad[params[i]])) = Len(slots[i][s]) + 1
        /\ Append(slots[i][s], grad[params[i]])[Len(slots[i][s]) + 1] = grad[params[i]]
  BY <1>1, <1>2
<1> QED BY <1>3, <1>4 DEF SlotSeq

\* step() up to its first realize: nothing is stored yet.
LEMMA BeginStepStep == OptInv /\ BeginStep => OptInv'
<1> SUFFICES ASSUME OptInv, BeginStep PROVE OptInv'
  OBVIOUS
<1>u. /\ UNCHANGED <<rule, held, params, value, grad, slots, passes, moves, lost>> /\ opc = "out"
      /\ pending' = [i \in Index |-> Folded(i)] /\ plans' = Planned /\ t' = NextT
      /\ opc' \in {"out", "state", "finish"}
  BY DEF BeginStep, Stored
<1>t. OptType
  BY DEF OptInv
<1>1. OptType'
  <2>1. pending' \in States' /\ slots' \in States'
    BY <1>t, <1>u, FoldedState DEF OptType, States
  <2>2. plans' \subseteq Index /\ t' \in Nat
    BY <1>t, <1>u DEF OptType, Planned, NextT
  <2> QED BY <1>t, <1>u, <2>1, <2>2 DEF OptType, Made, Updates
<1>2. Distinct' /\ StoredLast'
  BY <1>u DEF OptInv, Distinct, StoredLast
<1>3. PlansAreDue'
  BY <1>u DEF PlansAreDue, Planned
<1>4. BuiltNotStored'
  BY <1>u DEF BuiltNotStored, Folded, GradientWithDecay
<1>5. FoldsCounted'
  BY <1>u DEF OptInv, FoldsCounted, Ahead
<1>6. CountCovers'
  <2> SUFFICES ASSUME IsAdam(rule)
               PROVE  /\ t' > 0
                      /\ \A i \in Index, s \in SlotsOf(rule) : t' >= Len(slots[i][s]) /\ t' > Len(slots[i][s])
    BY <1>u DEF CountCovers
  <2>1. t' = t + 1 /\ t \in Nat
    BY <1>t, <1>u DEF NextT, OptType
  <2>2. \A i \in Index, s \in SlotsOf(rule) : t >= Len(slots[i][s]) /\ Len(slots[i][s]) \in Nat
    BY <1>t DEF OptInv, CountCovers, OptType, States, SlotSeq
  <2> QED BY <2>1, <2>2
<1>7. UpdatesSound'
  BY <1>u DEF OptInv, UpdatesSound, UpdateSound
<1> QED BY <1>1, <1>2, <1>3, <1>4, <1>5, <1>6, <1>7 DEF OptInv

\* The evaluation of the states succeeds, or fails and leaves no trace.
LEMMA RealizeStateStep == OptInv /\ RealizeState => OptInv'
<1> SUFFICES ASSUME OptInv, RealizeState PROVE OptInv'
  OBVIOUS
<1>u. /\ UNCHANGED <<rule, held, params, value, grad, slots, t, plans, pending, passes, moves, lost>>
      /\ opc = "state" /\ opc' \in {"finish", "out"}
  BY DEF RealizeState
<1>1. OptType'
  BY <1>u DEF OptInv, OptType, States, Made, Updates
<1>2. Distinct' /\ PlansAreDue' /\ StoredLast'
  BY <1>u DEF OptInv, Distinct, PlansAreDue, Planned, StoredLast
<1>3. BuiltNotStored'
  BY <1>u DEF OptInv, BuiltNotStored, Folded, GradientWithDecay
<1>4. FoldsCounted'
  BY <1>u DEF OptInv, FoldsCounted, Ahead
<1>5. CountCovers' /\ UpdatesSound'
  BY <1>u DEF OptInv, CountCovers, UpdatesSound, UpdateSound
<1> QED BY <1>1, <1>2, <1>3, <1>4, <1>5 DEF OptInv

\* finish(): the planned parameters' states are stored.
LEMMA FinishStep == OptInv /\ Finish => OptInv'
<1> SUFFICES ASSUME OptInv, Finish PROVE OptInv'
  OBVIOUS
<1>u. /\ UNCHANGED <<rule, held, params, value, grad, t, plans, pending, passes, moves, lost>>
      /\ opc = "finish" /\ opc' = "values"
      /\ slots' = [i \in Index |-> IF i \in plans THEN pending[i] ELSE slots[i]]
  BY DEF Finish
<1>t. OptType /\ plans \subseteq Index
  BY DEF OptInv, OptType
<1>s. /\ \A i \in plans : slots'[i] = Folded(i)
      /\ \A i \in Index \ plans : slots'[i] = slots[i]
  BY <1>u, <1>t DEF OptInv, BuiltNotStored
<1>1. OptType'
  BY <1>t, <1>u DEF OptType, States, Made, Updates
<1>2. Distinct' /\ PlansAreDue' /\ BuiltNotStored'
  BY <1>u DEF OptInv, Distinct, PlansAreDue, Planned, BuiltNotStored
<1>3. StoredLast'
  <2>1. \A i \in plans, s \in SlotsOf(rule) :
          Folded(i)[s][Len(Folded(i)[s])] = grad[params[i]]
    BY <1>t, FoldedState
  <2>2. \A i \in plans, s \in SlotsOf(rule) :
          slots'[i][s][Len(slots'[i][s])] = grad[params[i]]
    BY <1>s, <2>1
  <2> QED BY <1>u, <2>2 DEF StoredLast
<1>4. FoldsCounted'
  <2> SUFFICES ASSUME NEW i \in Index, NEW s \in SlotsOf(rule)
               PROVE  Len(slots'[i][s]) = Len(value[params[i]]) + lost[i] + (IF i \in plans THEN 1 ELSE 0)
    BY <1>u DEF FoldsCounted, Ahead
  <2>1. Len(slots[i][s]) = Len(value[params[i]]) + lost[i] + 0
    BY <1>u DEF OptInv, FoldsCounted, Ahead
  <2>2. Len(value[params[i]]) \in Nat /\ lost[i] \in Nat
    BY <1>t, MoreTensors DEF OptType
  <2>3. CASE i \in plans
    <3>1. Len(slots'[i][s]) = Len(slots[i][s]) + 1
      BY <1>s, <1>t, <2>3, FoldedState
    <3> QED BY <2>1, <2>2, <2>3, <3>1
  <2>4. CASE i \notin plans
    BY <1>s, <2>1, <2>2, <2>4
  <2> QED BY <2>3, <2>4
<1>5. CountCovers'
  <2> SUFFICES ASSUME IsAdam(rule), NEW i \in Index, NEW s \in SlotsOf(rule)
               PROVE  t > 0 /\ t >= Len(slots'[i][s])
    BY <1>u, <1>t DEF CountCovers, OptInv
  <2>1. t > 0 /\ t > Len(slots[i][s]) /\ t \in Nat /\ Len(slots[i][s]) \in Nat
    BY <1>u, <1>t DEF OptInv, CountCovers, OptType, States, SlotSeq
  <2> QED BY <1>s, <1>t, <2>1, FoldedState
<1>6. UpdatesSound'
  BY <1>u DEF OptInv, UpdatesSound, UpdateSound
<1> QED BY <1>1, <1>2, <1>3, <1>4, <1>5, <1>6 DEF OptInv

\* The evaluation of the values, or the assign, fails: the stored states are lost steps.
LEMMA FailsStep ==
  ASSUME OptInv, NEW at \in {"values", "assign"}, Fails(at)
  PROVE  OptInv'
<1>u. /\ UNCHANGED <<rule, held, params, value, grad, slots, t, plans, pending, passes, moves>>
      /\ opc \in {"values", "assign"} /\ opc' = "out"
      /\ lost' = [i \in Index |-> IF i \in plans THEN lost[i] + 1 ELSE lost[i]]
  BY DEF Fails
<1>l. lost' \in [Index -> Nat]
  <2>1. \A i \in Index : lost[i] \in Nat /\ lost[i] + 1 \in Nat
    BY DEF OptInv, OptType
  <2> QED BY <1>u, <2>1
<1>1. OptType'
  BY <1>u, <1>l DEF OptInv, OptType, States, Made, Updates
<1>2. Distinct' /\ PlansAreDue' /\ BuiltNotStored' /\ StoredLast'
  BY <1>u DEF OptInv, Distinct, PlansAreDue, BuiltNotStored, StoredLast
<1>3. FoldsCounted'
  <2> SUFFICES ASSUME NEW i \in Index, NEW s \in SlotsOf(rule)
               PROVE  Len(slots[i][s]) = Len(value[params[i]]) + lost'[i] + 0
    BY <1>u DEF FoldsCounted, Ahead
  <2>1. Len(slots[i][s]) = Len(value[params[i]]) + lost[i] + (IF i \in plans THEN 1 ELSE 0)
    BY <1>u DEF OptInv, FoldsCounted, Ahead
  <2>2. Len(value[params[i]]) \in Nat /\ lost[i] \in Nat
    BY MoreTensors DEF OptInv, OptType
  <2> QED BY <1>u, <2>1, <2>2
<1>4. CountCovers' /\ UpdatesSound'
  BY <1>u DEF OptInv, CountCovers, UpdatesSound, UpdateSound
<1> QED BY <1>1, <1>2, <1>3, <1>4 DEF OptInv

\* realize() of the values.
LEMMA RealizeValuesStep == OptInv /\ RealizeValues => OptInv'
<1> SUFFICES ASSUME OptInv, RealizeValues, ~Fails("values") PROVE OptInv'
  BY FailsStep
<1>u. /\ UNCHANGED <<rule, held, params, value, grad, slots, t, plans, pending, passes, moves, lost>>
      /\ opc = "values" /\ opc' = "assign"
  BY DEF RealizeValues
<1>1. OptType'
  BY <1>u DEF OptInv, OptType, States, Made, Updates
<1>2. Distinct' /\ PlansAreDue' /\ BuiltNotStored' /\ StoredLast'
  BY <1>u DEF OptInv, Distinct, PlansAreDue, Planned, BuiltNotStored, StoredLast
<1>3. FoldsCounted'
  BY <1>u DEF OptInv, FoldsCounted, Ahead
<1>4. CountCovers' /\ UpdatesSound'
  BY <1>u DEF OptInv, CountCovers, UpdatesSound, UpdateSound
<1> QED BY <1>1, <1>2, <1>3, <1>4 DEF OptInv

\* What assign() appends to each tensor of a plan, and that it leaves the others alone.
LEMMA AssignedValues ==
  ASSUME OptInv, opc = "assign"
  PROVE  LET after == Assigned(plans) IN
         /\ after \in [Tensors -> Seq(Updates)]
         /\ \A i \in plans : /\ after[params[i]] = Append(value[params[i]], Update(i))
                             /\ Update(i) \in Updates
         /\ \A x \in Tensors : (~\E i \in plans : params[i] = x) => after[x] = value[x]
<1> DEFINE after == Assigned(plans)
<1>t. OptType /\ Distinct /\ plans \subseteq Index
  BY DEF OptInv, OptType
<1>1. \A i \in plans : Update(i) \in Updates /\ params[i] \in Tensors
  <2> SUFFICES ASSUME NEW i \in plans PROVE Update(i) \in Updates /\ params[i] \in Tensors
    OBVIOUS
  <2>1. params[i] \in Tensors /\ grad[params[i]] \in SUBSET Nat
    BY <1>t, MoreTensors DEF OptType
  <2>2. [s \in ReadsOf(rule) |-> slots[i][s]] \in [ReadsOf(rule) -> SlotSeq]
    BY <1>t, ReadsAreSlots DEF OptType, States
  <2>3. DecaysParameter(rule) \in BOOLEAN
    BY DEF DecaysParameter
  <2> QED BY <1>t, <2>1, <2>2, <2>3 DEF Update, Updates, GradientWithDecay, OptType
<1>2. \A i \in plans : (CHOOSE j \in plans : params[j] = params[i]) = i
  BY <1>t DEF Distinct
<1>3. \A i \in plans : after[params[i]] = Append(value[params[i]], Update(i))
  <2> SUFFICES ASSUME NEW i \in plans PROVE after[params[i]] = Append(value[params[i]], Update(i))
    OBVIOUS
  <2>1. after[params[i]] = Append(value[params[i]], Update(CHOOSE j \in plans : params[j] = params[i]))
    BY <1>1 DEF Assigned
  <2> QED BY <1>2, <2>1
<1>4. \A x \in Tensors : (~\E i \in plans : params[i] = x) => after[x] = value[x]
  BY DEF Assigned
<1>5. \A x \in Tensors : after[x] \in Seq(Updates)
  <2> SUFFICES ASSUME NEW x \in Tensors PROVE after[x] \in Seq(Updates)
    OBVIOUS
  <2>1. value[x] \in Seq(Updates)
    BY <1>t DEF OptType
  <2>2. CASE \E i \in plans : params[i] = x
    <3>1. PICK i \in plans : params[i] = x
      BY <2>2
    <3>2. after[x] = Append(value[x], Update(i)) /\ Update(i) \in Updates
      BY <1>1, <1>3, <3>1
    <3> QED BY <2>1, <3>2
  <2>3. CASE ~\E i \in plans : params[i] = x
    BY <1>4, <2>1, <2>3
  <2> QED BY <2>2, <2>3
<1>6. after = [x \in Tensors |-> after[x]]
  BY DEF Assigned
<1> QED BY <1>1, <1>3, <1>4, <1>5, <1>6

\* The batched assign gives every planned parameter its update.
LEMMA AssignStep == OptInv /\ Assign => OptInv'
<1> SUFFICES ASSUME OptInv, Assign, ~Fails("assign") PROVE OptInv'
  BY FailsStep
<1>u. /\ UNCHANGED <<rule, held, params, grad, slots, t, plans, pending, passes, moves, lost>>
      /\ opc = "assign" /\ opc' = "out" /\ value' = Assigned(plans)
  BY DEF Assign
<1>t. OptType /\ Distinct /\ plans \subseteq Index
  BY DEF OptInv, OptType
<1>v. /\ value' \in [Tensors -> Seq(Updates)]
      /\ \A i \in plans : /\ value'[params[i]] = Append(value[params[i]], Update(i))
                          /\ Update(i) \in Updates
      /\ \A x \in Tensors : (~\E i \in plans : params[i] = x) => value'[x] = value[x]
  BY <1>u, AssignedValues
<1>p. \A i \in Index : params[i] \in Tensors /\ value[params[i]] \in Seq(Updates) /\ lost[i] \in Nat
  BY <1>t, MoreTensors DEF OptType
<1>1. OptType'
  BY <1>t, <1>u, <1>v DEF OptType, States, Made, Updates
<1>2. Distinct' /\ PlansAreDue' /\ BuiltNotStored' /\ StoredLast'
  BY <1>u DEF OptInv, Distinct, PlansAreDue, BuiltNotStored, StoredLast
<1>3. FoldsCounted'
  <2> SUFFICES ASSUME NEW i \in Index, NEW s \in SlotsOf(rule)
               PROVE  Len(slots[i][s]) = Len(value'[params[i]]) + lost[i] + 0
    BY <1>u DEF FoldsCounted, Ahead
  <2>1. Len(slots[i][s]) = Len(value[params[i]]) + lost[i] + (IF i \in plans THEN 1 ELSE 0)
    BY <1>u DEF OptInv, FoldsCounted, Ahead
  <2>2. CASE i \in plans
    <3>1. Len(value'[params[i]]) = Len(value[params[i]]) + 1
      BY <1>v, <1>p, <2>2
    <3> QED BY <1>p, <2>1, <2>2, <3>1, SMTT(60)
  <2>3. CASE i \notin plans
    <3>1. value'[params[i]] = value[params[i]]
      BY <1>t, <1>v, <1>p, <2>3 DEF Distinct
    <3> QED BY <1>p, <2>1, <2>3, <3>1
  <2> QED BY <2>2, <2>3
<1>4. CountCovers'
  BY <1>u DEF OptInv, CountCovers
<1>5. UpdatesSound'
  <2> SUFFICES ASSUME IsAdam(rule), NEW x \in Tensors, NEW k \in 1..Len(value'[x])
               PROVE  UpdateSound(value'[x][k])
    BY <1>u DEF UpdatesSound, UpdateSound
  <2>1. \A j \in 1..Len(value[x]) : UpdateSound(value[x][j])
    BY DEF OptInv, UpdatesSound
  <2>2. CASE \E i \in plans : params[i] = x
    <3>1. PICK i \in plans : params[i] = x
      BY <2>2
    <3>2. value'[x] = Append(value[x], Update(i)) /\ value[x] \in Seq(Updates) /\ Update(i) \in Updates
      BY <1>v, <1>p, <1>t, <3>1
    <3>3. k \in 1..Len(value[x]) \/ k = Len(value[x]) + 1
      BY <3>2
    <3>4. UpdateSound(Update(i))
      <4>1. \A s \in SlotsOf(rule) : t >= Len(slots[i][s]) /\ t > 0
        BY <1>t, <1>u DEF OptInv, CountCovers
      <4> QED BY <4>1, ReadsAreSlots DEF UpdateSound, Update
    <3>5. CASE k \in 1..Len(value[x])
      BY <2>1, <3>2, <3>5
    <3>6. CASE k = Len(value[x]) + 1
      BY <3>2, <3>4, <3>6
    <3> QED BY <3>3, <3>5, <3>6
  <2>3. CASE ~\E i \in plans : params[i] = x
    BY <1>v, <2>1, <2>3
  <2> QED BY <2>2, <2>3
<1> QED BY <1>1, <1>2, <1>3, <1>4, <1>5 DEF OptInv

-----------------------------------------------------------------------------
\* Every call of a training session keeps the invariant.
LEMMA OptStep == OptInv /\ [OptNext]_optVars => OptInv'
<1> SUFFICES ASSUME OptInv, [OptNext]_optVars PROVE OptInv'
  OBVIOUS
<1>1. CASE To
  <2>1. NumParams \in Index
    BY OptimizerAssumption DEF Index
  <2> QED BY <1>1, <2>1, ReplacedStep DEF To
<1>2. CASE LoadStateDict
  BY <1>2, ReplacedStep DEF LoadStateDict
<1>3. CASE UNCHANGED optVars
  <2>1. OptType'
    BY <1>3 DEF optVars, OptInv, OptType, States, Made, Updates
  <2>2. Distinct' /\ PlansAreDue' /\ StoredLast'
    BY <1>3 DEF optVars, OptInv, Distinct, PlansAreDue, Planned, StoredLast
  <2>3. BuiltNotStored'
    BY <1>3 DEF optVars, OptInv, BuiltNotStored, Folded, GradientWithDecay
  <2>4. FoldsCounted'
    BY <1>3 DEF optVars, OptInv, FoldsCounted, Ahead
  <2>5. CountCovers' /\ UpdatesSound'
    BY <1>3 DEF optVars, OptInv, CountCovers, UpdatesSound, UpdateSound
  <2> QED BY <2>1, <2>2, <2>3, <2>4, <2>5 DEF OptInv
<1> QED
  BY <1>1, <1>2, <1>3, BackwardStep, ConstructStep, BeginStepStep, RealizeStateStep, FinishStep,
     RealizeValuesStep, AssignStep DEF OptNext

\* The optimizer's invariant (Optimizer.step(), zero_grad(), to(),
\* load_state_dict()) holds in every reachable state.
THEOREM OptimizerInvariant == OptSpec => []OptInv
BY OptInitInv, OptStep, PTL DEF OptSpec

\* Between steps a rule's state has folded exactly the gradients of the updates
\* it produced and of the steps that failed after storing it, and Adam's
\* bias correction is never for fewer gradients than a moment holds, nor for none.
THEOREM StateAndUpdatesAgree == OptSpec => []StateFollowsUpdates
<1>1. OptInv => StateFollowsUpdates
  <2> SUFFICES ASSUME OptInv, opc = "out" PROVE StateFollowsUpdates
    BY DEF StateFollowsUpdates
  <2>1. \A i \in Index : params[i] \in Tensors /\ value[params[i]] \in Seq(Updates) /\ lost[i] \in Nat
    BY MoreTensors DEF OptInv, OptType
  <2>2. \A i \in Index, s \in SlotsOf(rule) : Len(slots[i][s]) = Len(value[params[i]]) + lost[i]
    <3>1. \A i \in Index, s \in SlotsOf(rule) : Len(slots[i][s]) = Len(value[params[i]]) + lost[i] + 0
      BY DEF OptInv, FoldsCounted, Ahead
    <3> QED BY <2>1, <3>1
  <2>3. IsAdam(rule) => \A i \in Index : \A k \in 1..Len(value[params[i]]) : UpdateSound(value[params[i]][k])
    BY <2>1 DEF OptInv, UpdatesSound
  <2> QED BY <2>2, <2>3 DEF StateFollowsUpdates, UpdateSound
<1> QED BY <1>1, OptimizerInvariant, PTL

\* A step that changes parameters gives each one that has a gradient one update
\* from that gradient and all its state, and touches nothing else; a step that
\* fails anywhere changes no parameter.
THEOREM StepsAreWhole == OptSpec => StepAllOrNothing
<1>1. OptInv /\ [OptNext]_optVars =>
        [opc # "out" /\ value' # value =>
           \A x \in Tensors :
             IF \E i \in Index : params[i] = x /\ grad[x] # {}
             THEN /\ Len(value'[x]) = Len(value[x]) + 1
                  /\ \A i \in Index : params[i] = x =>
                       \A s \in ReadsOf(rule) :
                         value'[x][Len(value'[x])].from[s][Len(slots[i][s])] = grad[x]
             ELSE value'[x] = value[x]]_optVars
  <2> SUFFICES ASSUME OptInv, OptNext, opc # "out", value' # value, NEW x \in Tensors
               PROVE  IF \E i \in Index : params[i] = x /\ grad[x] # {}
                      THEN /\ Len(value'[x]) = Len(value[x]) + 1
                           /\ \A i \in Index : params[i] = x =>
                                \A s \in ReadsOf(rule) :
                                  value'[x][Len(value'[x])].from[s][Len(slots[i][s])] = grad[x]
                      ELSE value'[x] = value[x]
    OBVIOUS
  <2>1. opc = "assign" /\ value' = Assigned(plans) /\ plans = Planned
    BY DEF OptNext, Backward, ZeroGrad, To, LoadStateDict, Construct, BeginStep, RealizeState,
           Finish, RealizeValues, Assign, Fails, OptInv, PlansAreDue
  <2>2. /\ \A i \in plans : /\ value'[params[i]] = Append(value[params[i]], Update(i))
                            /\ Update(i) \in Updates
        /\ (~\E i \in plans : params[i] = x) => value'[x] = value[x]
    BY <2>1, AssignedValues
  <2>3. CASE \E i \in Index : params[i] = x /\ grad[x] # {}
    <3>1. PICK i \in Index : params[i] = x /\ grad[x] # {}
      BY <2>3
    <3>2. i \in plans /\ value[x] \in Seq(Updates)
      BY <2>1, <3>1 DEF Planned, OptInv, OptType
    <3>3. Len(value'[x]) = Len(value[x]) + 1 /\ value'[x][Len(value'[x])] = Update(i)
      BY <2>2, <3>1, <3>2
    <3>4. \A j \in Index : params[j] = x => j = i
      BY <3>1 DEF OptInv, Distinct
    <3>5. \A s \in ReadsOf(rule) : Update(i).from[s] = slots[i][s]
      BY DEF Update
    <3>6. \A s \in ReadsOf(rule) : slots[i][s][Len(slots[i][s])] = grad[x]
      BY <2>1, <3>1, <3>2, ReadsAreSlots DEF OptInv, StoredLast
    <3> QED BY <2>3, <3>3, <3>4, <3>5, <3>6
  <2>4. CASE ~\E i \in Index : params[i] = x /\ grad[x] # {}
    <3>1. ~\E i \in plans : params[i] = x
      BY <2>1, <2>4 DEF Planned
    <3> QED BY <2>2, <2>4, <3>1
  <2> QED BY <2>3, <2>4
<1> QED BY <1>1, OptimizerInvariant, PTL DEF OptSpec, StepAllOrNothing

-----------------------------------------------------------------------------
(* NnState.                                                                *)

Places == {"out", "bn", "mean", "var"} \cup Drops

NnType ==
  /\ training \in [Modules -> BOOLEAN]
  /\ mean \in Seq(Nat) /\ var \in Seq(Nat) /\ halved \in Nat
  /\ offset \in [Drops -> Nat] /\ masks \in Seq(Nat \X Nat)
  /\ gradOn \in BOOLEAN /\ prevs \in Seq(BOOLEAN)
  /\ npc \in Places /\ batch \in Nat

\* The outermost block found the mode on, every other one found it off.
ModeIsNested ==
  /\ gradOn = (prevs = <<>>)
  /\ \A i \in 1 .. Len(prevs) : prevs[i] = (i = 1)

\* The statistics are folded in training only, inside a block of their own.
FoldsInBlock == npc \in {"mean", "var"} => prevs # <<>> /\ training["bn"]

\* The mean is ahead of the variance by the updates that failed half way and by
\* the one under way.
MeanAhead ==
  /\ Len(mean) = Len(var) + halved + (IF npc = "var" THEN 1 ELSE 0)
  /\ npc = "var" => mean[Len(mean)] = batch
  /\ \A i \in 1 .. Len(var) : \E j \in i .. Len(mean) : mean[j] = var[i]

\* A mask that was drawn is behind the offset of the dropout it came from.
MasksBehind ==
  \A i \in 1 .. Len(masks) : \E d \in Drops : masks[i][1] = SeedOf(d) /\ masks[i][2] < offset[d]

NnInv == NnType /\ ModeIsNested /\ FoldsInBlock /\ MeanAhead /\ MasksBehind

-----------------------------------------------------------------------------
\* The seeds of one layer's dropouts differ.
LEMMA SeedsDiffer ==
  /\ \A d \in Drops : SeedOf(d) \in Nat
  /\ \A d, e \in Drops : SeedOf(d) = SeedOf(e) => d = e
<1>1. SeedOf("dropout1") = Seed + 1 /\ SeedOf("dropout2") = Seed + 2 /\ SeedOf("dropout") = Seed + 3
  BY DEF SeedOf
<1> QED BY <1>1, SeedAssumption DEF Drops

\* Entering a block leaves it nested in those that are open.
LEMMA EnteredNested ==
  ASSUME gradOn \in BOOLEAN, prevs \in Seq(BOOLEAN), ModeIsNested, Entered
  PROVE  gradOn' \in BOOLEAN /\ prevs' \in Seq(BOOLEAN) /\ prevs' # <<>> /\ ModeIsNested'
<1>1. /\ gradOn' = FALSE /\ prevs' \in Seq(BOOLEAN) /\ Len(prevs') = Len(prevs) + 1
      /\ \A i \in 1 .. Len(prevs) : prevs'[i] = prevs[i]
      /\ prevs'[Len(prevs) + 1] = gradOn
  BY DEF Entered
<1>2. prevs' # <<>>
  BY <1>1
<1>3. gradOn = (Len(prevs) + 1 = 1)
  BY DEF ModeIsNested
<1>4. ASSUME NEW i \in 1 .. Len(prevs') PROVE prevs'[i] = (i = 1)
  <2>1. CASE i \in 1 .. Len(prevs)
    BY <1>1, <2>1 DEF ModeIsNested
  <2>2. CASE i = Len(prevs) + 1
    BY <1>1, <1>3, <2>2
  <2> QED BY <1>1, <1>4, <2>1, <2>2
<1> QED BY <1>1, <1>2, <1>4 DEF ModeIsNested

\* Leaving the innermost block restores what is due to those still open.
LEMMA LeftNested ==
  ASSUME gradOn \in BOOLEAN, prevs \in Seq(BOOLEAN), prevs # <<>>, ModeIsNested, Left(1)
  PROVE  gradOn' \in BOOLEAN /\ prevs' \in Seq(BOOLEAN) /\ ModeIsNested'
<1>1. /\ Len(prevs) \in Nat \ {0} /\ gradOn' = prevs[Len(prevs)]
      /\ prevs' = SubSeq(prevs, 1, Len(prevs) - 1)
  BY DEF Left, Restored
<1>2. /\ prevs' \in Seq(BOOLEAN) /\ Len(prevs') = Len(prevs) - 1
      /\ \A i \in 1 .. Len(prevs') : prevs'[i] = prevs[i]
  <2> DEFINE m == Len(prevs) - 1
             rest == SubSeq(prevs, 1, m)
  <2>1. m \in Nat /\ \A i \in 1 .. m : prevs[i] \in BOOLEAN
    BY <1>1
  <2>2. prevs' = rest
    BY <1>1
  <2> HIDE DEF m
  <2>3. /\ rest \in Seq(BOOLEAN) /\ Len(rest) = IF 1 <= m THEN m - 1 + 1 ELSE 0
        /\ \A i \in 1 .. m - 1 + 1 : rest[i] = prevs[1 + i - 1]
    BY <2>1, SubSeqProperties
  <2> HIDE DEF rest
  <2>4. Len(rest) = m /\ \A i \in 1 .. m : rest[i] = prevs[i]
    BY <2>1, <2>3
  <2> QED BY <2>2, <2>3, <2>4 DEF m
<1>3. gradOn' = (Len(prevs) = 1) /\ (prevs' = <<>>) = (Len(prevs) = 1)
  <2>1. prevs[Len(prevs)] = (Len(prevs) = 1)
    <3>1. Len(prevs) \in 1 .. Len(prevs)
      BY <1>1
    <3> QED BY <3>1 DEF ModeIsNested
  <2>2. prevs' = <<>> <=> Len(prevs') = 0
    BY <1>2
  <2> QED BY <1>1, <1>2, <2>1, <2>2
<1>4. \A i \in 1 .. Len(prevs') : prevs'[i] = (i = 1)
  BY <1>2 DEF ModeIsNested
<1> QED BY <1>2, <1>3, <1>4 DEF ModeIsNested

\* A module as it is constructed satisfies the invariant.
LEMMA NnInitInv == ASSUME NnInit PROVE NnInv
<1>1. NnType
  BY DEF NnInit, NnType, Places, Modules
<1>2. ModeIsNested
  <2>1. gradOn = TRUE /\ prevs = <<>> /\ 1 .. Len(prevs) = {}
    BY DEF NnInit
  <2> QED BY <2>1, Zenon DEF ModeIsNested
<1>3. FoldsInBlock /\ MeanAhead /\ MasksBehind
  BY DEF NnInit, FoldsInBlock, MeanAhead, MasksBehind
<1> QED BY <1>1, <1>2, <1>3 DEF NnInv

\* Entering and leaving no_grad blocks keeps them nested.
LEMMA BlockStep == ASSUME NnInv, EnterNoGrad \/ ExitNoGrad PROVE NnInv'
<1> USE DEF NnInv
<1>1. gradOn' \in BOOLEAN /\ prevs' \in Seq(BOOLEAN) /\ ModeIsNested'
  BY EnteredNested, LeftNested DEF NnType, EnterNoGrad, ExitNoGrad
<1>2. npc = "out" /\ UNCHANGED <<training, mean, var, halved, offset, masks, npc, batch>>
  BY DEF EnterNoGrad, ExitNoGrad
<1> QED BY <1>1, <1>2 DEF NnType, FoldsInBlock, MeanAhead, MasksBehind

\* Starting a forward pass and switching the mode fold and draw nothing.
LEMMA CallStep ==
  ASSUME NnInv, Forward \/ \E m \in Switched, mode \in BOOLEAN : Train(m, mode)
  PROVE  NnInv'
<1> USE DEF NnInv
<1>1. CASE Forward
  <2>1. npc = "out" /\ npc' \in {"out", "bn"} /\ npc' \in Places /\ batch' \in Nat
        /\ UNCHANGED <<training, mean, var, halved, offset, masks, gradOn, prevs>>
    BY <1>1 DEF Forward, NnType, Places
  <2>2. NnType' /\ ModeIsNested'
    BY <2>1 DEF NnType, ModeIsNested
  <2>3. FoldsInBlock' /\ MeanAhead' /\ MasksBehind'
    BY <2>1 DEF FoldsInBlock, MeanAhead, MasksBehind
  <2> QED BY <2>2, <2>3
<1>2. ASSUME NEW m, NEW mode \in BOOLEAN, Train(m, mode) PROVE NnInv'
  <2>1. training' \in [Modules -> BOOLEAN]
    BY <1>2 DEF Train, NnType
  <2> QED BY <1>2, <2>1 DEF Train, NnType, ModeIsNested, FoldsInBlock, MeanAhead, MasksBehind
<1> QED BY <1>1, <1>2

\* Batch norm goes into a no_grad block in training, or past it.
LEMMA BatchNormStep == ASSUME NnInv, BatchNorm PROVE NnInv'
<1> USE DEF NnInv
<1>1. UNCHANGED <<training, mean, var, halved, offset, masks, batch>> /\ npc = "bn"
  BY DEF BatchNorm
<1>2. CASE training["bn"] /\ Entered /\ npc' = "mean"
  <2>1. gradOn' \in BOOLEAN /\ prevs' \in Seq(BOOLEAN) /\ prevs' # <<>> /\ ModeIsNested'
    BY <1>2, EnteredNested DEF NnType
  <2> QED BY <1>1, <1>2, <2>1 DEF NnType, Places, FoldsInBlock, MeanAhead, MasksBehind
<1>3. CASE npc' = "dropout1" /\ UNCHANGED <<gradOn, prevs>>
  BY <1>1, <1>3 DEF NnType, Places, Drops, ModeIsNested, FoldsInBlock, MeanAhead, MasksBehind
<1> QED BY <1>2, <1>3 DEF BatchNorm

\* The mean takes the batch first, and is then one ahead.
LEMMA FoldMeanStep == ASSUME NnInv, FoldMean PROVE NnInv'
<1> USE DEF NnInv
<1>1. /\ npc = "mean" /\ npc' = "var" /\ mean' = Append(mean, batch)
      /\ UNCHANGED <<training, var, halved, offset, masks, gradOn, prevs, batch>>
  BY DEF FoldMean
<1>2. /\ mean' \in Seq(Nat) /\ Len(mean') = Len(mean) + 1 /\ mean'[Len(mean')] = batch
      /\ \A j \in 1 .. Len(mean) : mean'[j] = mean[j]
  BY <1>1 DEF NnType
<1>3. MeanAhead'
  <2>1. Len(mean') = Len(var') + halved' + 1 /\ mean'[Len(mean')] = batch'
    BY <1>1, <1>2 DEF MeanAhead, NnType
  <2>2. ASSUME NEW i \in 1 .. Len(var') PROVE \E j \in i .. Len(mean') : mean'[j] = var'[i]
    <3>1. PICK j \in i .. Len(mean) : mean[j] = var[i]
      BY <1>1, <2>2 DEF MeanAhead
    <3>2. j \in i .. Len(mean') /\ mean'[j] = var'[i]
      BY <1>1, <1>2, <3>1 DEF NnType
    <3> QED BY <3>2
  <2> QED BY <1>1, <2>1, <2>2 DEF MeanAhead
<1> QED BY <1>1, <1>2, <1>3 DEF NnType, Places, ModeIsNested, FoldsInBlock, MasksBehind

\* The variance takes the batch that the mean took, and the block is left.
LEMMA FoldVarStep == ASSUME NnInv, FoldVar PROVE NnInv'
<1> USE DEF NnInv
<1>1. /\ npc = "var" /\ npc' = "dropout1" /\ var' = Append(var, batch) /\ Left(1)
      /\ UNCHANGED <<training, mean, halved, offset, masks, batch>>
  BY DEF FoldVar
<1>2. /\ var' \in Seq(Nat) /\ Len(var') = Len(var) + 1 /\ var'[Len(var) + 1] = batch
      /\ \A i \in 1 .. Len(var) : var'[i] = var[i]
  BY <1>1 DEF NnType
<1>3. gradOn' \in BOOLEAN /\ prevs' \in Seq(BOOLEAN) /\ ModeIsNested'
  BY <1>1, LeftNested DEF NnType, FoldsInBlock
<1>4. MeanAhead'
  <2>1. Len(mean) = Len(var) + halved + 1 /\ mean[Len(mean)] = batch
    BY <1>1 DEF MeanAhead
  <2>2. ASSUME NEW i \in 1 .. Len(var') PROVE \E j \in i .. Len(mean') : mean'[j] = var'[i]
    <3>1. CASE i \in 1 .. Len(var)
      BY <1>1, <1>2, <3>1 DEF MeanAhead
    <3>2. CASE i = Len(var) + 1
      <4>1. Len(mean) \in i .. Len(mean')
        BY <1>1, <2>1, <3>2 DEF NnType
      <4> QED BY <1>1, <1>2, <2>1, <3>2, <4>1
    <3> QED BY <1>2, <2>2, <3>1, <3>2
  <2> QED BY <1>1, <1>2, <2>1, <2>2 DEF MeanAhead, NnType
<1> QED BY <1>1, <1>2, <1>3, <1>4 DEF NnType, Places, Drops, FoldsInBlock, MasksBehind

\* A dropout draws at its offset and moves the offset on.
LEMMA DropoutStep == ASSUME NnInv, NEW d \in Drops, Dropout(d) PROVE NnInv'
<1> USE DEF NnInv
<1>1. /\ npc = d /\ npc' \in {"dropout", "dropout2", "out"}
      /\ UNCHANGED <<training, mean, var, halved, gradOn, prevs, batch>>
  BY DEF Dropout, After, Drops
<1>2. NnType' /\ MasksBehind'
  <2>1. CASE training[d]
    <3>1. offset' = [offset EXCEPT ![d] = offset[d] + 1] /\ masks' = Append(masks, <<SeedOf(d), offset[d]>>)
      BY <2>1 DEF Dropout, NextOffset
    <3>2. /\ masks' \in Seq(Nat \X Nat) /\ Len(masks') = Len(masks) + 1
          /\ masks'[Len(masks) + 1] = <<SeedOf(d), offset[d]>>
          /\ \A i \in 1 .. Len(masks) : masks'[i] = masks[i]
      BY <3>1, SeedsDiffer DEF NnType
    <3>3. offset' \in [Drops -> Nat] /\ \A e \in Drops : offset[e] <= offset'[e]
      BY <3>1 DEF NnType
    <3>4. ASSUME NEW i \in 1 .. Len(masks')
          PROVE  \E e \in Drops : masks'[i][1] = SeedOf(e) /\ masks'[i][2] < offset'[e]
      <4>1. CASE i \in 1 .. Len(masks)
        <5>1. PICK e \in Drops : masks[i][1] = SeedOf(e) /\ masks[i][2] < offset[e]
          BY <4>1 DEF MasksBehind
        <5>2. masks[i] \in Nat \X Nat /\ masks'[i] = masks[i]
          <6>1. masks \in Seq(Nat \X Nat) /\ masks'[i] = masks[i]
            BY <3>2, <4>1 DEF NnType
          <6> QED BY <4>1, <6>1
        <5> QED BY <3>3, <5>1, <5>2 DEF NnType
      <4>2. CASE i = Len(masks) + 1
        BY <3>1, <3>2, <4>2 DEF NnType
      <4> QED BY <3>2, <3>4, <4>1, <4>2
    <3>5. MasksBehind'
      BY <3>4 DEF MasksBehind, SeedOf
    <3> QED BY <1>1, <3>2, <3>3, <3>5 DEF NnType, Places, Drops
  <2>2. CASE ~training[d]
    BY <1>1, <2>2 DEF Dropout, NnType, Places, Drops, MasksBehind
  <2> QED BY <2>1, <2>2
<1> QED BY <1>1, <1>2 DEF ModeIsNested, FoldsInBlock, MeanAhead, Drops

\* An exception leaves the block of the call, and counts a batch that only the mean took.
LEMMA RaiseStep == ASSUME NnInv, Raise PROVE NnInv'
<1> USE DEF NnInv
<1>1. /\ npc # "out" /\ npc' = "out" /\ UNCHANGED <<training, mean, var, offset, masks, batch>>
      /\ halved' = IF npc = "var" THEN halved + 1 ELSE halved
  BY DEF Raise
<1>2. gradOn' \in BOOLEAN /\ prevs' \in Seq(BOOLEAN) /\ ModeIsNested'
  <2>1. CASE npc \in {"mean", "var"}
    BY <2>1, LeftNested DEF Raise, NnType, FoldsInBlock
  <2>2. CASE npc \notin {"mean", "var"}
    BY <2>2 DEF Raise, NnType, ModeIsNested
  <2> QED BY <2>1, <2>2
<1> QED BY <1>1, <1>2, SMTT(60) DEF NnType, Places, FoldsInBlock, MeanAhead, MasksBehind

\* Every step of the modules preserves the invariant.
LEMMA NnInvStep == ASSUME NnInv, [NnNext]_nnVars PROVE NnInv'
<1>1. CASE UNCHANGED nnVars
  BY <1>1 DEF nnVars, NnInv, NnType, ModeIsNested, FoldsInBlock, MeanAhead, MasksBehind
<1>2. CASE NnNext
  BY <1>2, BlockStep, CallStep, BatchNormStep, FoldMeanStep, FoldVarStep, DropoutStep, RaiseStep DEF NnNext
<1> QED BY <1>1, <1>2

\* Every reachable state keeps the modes nested, the statistics together and the
\* drawn masks behind the offsets.
THEOREM ModulesInvariant == NnSpec => []NnInv
BY NnInitInv, NnInvStep, PTL DEF NnSpec

\* Between forward passes the running statistics describe the same batches and
\* the gradient mode is what the caller's open blocks make it, whatever raised.
THEOREM StatisticsAndModeKept == NnSpec => []StatsAndModeConsistent
<1>1. NnInv => StatsAndModeConsistent
  BY DEF NnInv, NnType, ModeIsNested, MeanAhead, StatsAndModeConsistent
<1> QED BY <1>1, ModulesInvariant, PTL

\* No mask is drawn twice, and evaluation draws and folds nothing.
THEOREM MasksNeverRepeat == NnSpec => MasksFresh
<1> DEFINE Novel == /\ masks' # masks => \A i \in 1 .. Len(masks) : masks[i] # masks'[Len(masks')]
                    /\ npc \in Drops /\ ~training[npc] => UNCHANGED <<offset, masks>>
                    /\ (mean' # mean \/ var' # var) => training["bn"] /\ ~gradOn
<1>1. NnInv /\ [NnNext]_nnVars => Novel
  <2> SUFFICES ASSUME NnInv, [NnNext]_nnVars PROVE Novel
    OBVIOUS
  <2>1. ASSUME NEW d \in Drops, Dropout(d) PROVE Novel
    <3>1. npc = d /\ mean' = mean /\ var' = var
      BY <2>1 DEF Dropout
    <3>2. CASE training[d]
      <4>1. masks' = Append(masks, <<SeedOf(d), offset[d]>>) /\ masks \in Seq(Nat \X Nat)
        BY <2>1, <3>2 DEF Dropout, NnInv, NnType
      <4>2. masks'[Len(masks')] = <<SeedOf(d), offset[d]>>
        BY <4>1
      <4>3. ASSUME NEW i \in 1 .. Len(masks), masks[i] = <<SeedOf(d), offset[d]>> PROVE FALSE
        <5>1. PICK e \in Drops : masks[i][1] = SeedOf(e) /\ masks[i][2] < offset[e]
          BY DEF NnInv, MasksBehind
        <5>2. masks[i][1] = SeedOf(d) /\ masks[i][2] = offset[d]
          BY <4>3
        <5>3. e = d
          BY <5>1, <5>2, SeedsDiffer
        <5> QED BY <5>1, <5>2, <5>3 DEF NnInv, NnType
      <4> QED BY <3>1, <3>2, <4>2, <4>3
    <3>3. CASE ~training[d]
      BY <2>1, <3>1, <3>3 DEF Dropout
    <3> QED BY <3>2, <3>3
  <2>2. ASSUME npc \notin Drops, masks' = masks, mean' = mean, var' = var PROVE Novel
    BY <2>2
  <2>3. CASE FoldMean \/ FoldVar
    <3>1. npc \in {"mean", "var"} /\ masks' = masks /\ npc \notin Drops
      BY <2>3 DEF FoldMean, FoldVar, Drops
    <3>2. training["bn"] /\ ~gradOn
      BY <3>1 DEF NnInv, FoldsInBlock, ModeIsNested
    <3> QED BY <3>1, <3>2
  <2>4. CASE Raise
    BY <2>4 DEF Raise
  <2>5. ASSUME NEW m, NEW mode, Train(m, mode) PROVE Novel
    BY <2>5 DEF Train, Drops
  <2>6. CASE EnterNoGrad \/ ExitNoGrad \/ Forward \/ BatchNorm
    BY <2>6 DEF EnterNoGrad, ExitNoGrad, Forward, BatchNorm, Drops
  <2>7. CASE UNCHANGED nnVars
    BY <2>7 DEF nnVars
  <2> HIDE DEF Draws
  <2> QED BY <2>1, <2>3, <2>4, <2>5, <2>6, <2>7 DEF NnNext
<1> QED BY <1>1, ModulesInvariant, PTL DEF NnSpec, MasksFresh

-------------------------------------------------------------------------------
(* Checkpoints                                                                  *)

(* Where the bookkeeping of the processes is; partials needs no more than its   *)
(* domain, what lies in a file is PartialOwned's concern.                       *)
CkType ==
  /\ partials = [p \in Procs |-> partials[p]]
  /\ ckpc = [p \in Procs |-> ckpc[p]]
  /\ written = [p \in Procs |-> written[p]]
  /\ saves \in [Procs -> Nat]

(* A process that writes has counted its save; one that closed wrote it all.    *)
Progress ==
  \A p \in Procs :
    /\ ckpc[p] \in {"writing", "closed"} => saves[p] >= 1
    /\ ckpc[p] = "closed" => written[p] = Members

(* Once there is a file at the path, there always is one. *)
ProbedExists == \A p \in Procs : ckpc[p] = "probed" => dest # Absent

Listed(f) == Load(f) = "loaded" => f.keys = Keys
DestKnown == Saved(dest) \/ dest \in {Absent, Older} \cup Foreign
SeenWhole == seen.result = "loaded" => seen.tensors = Keys

CkInv == CkType /\ Progress /\ PartialOwned /\ ProbedExists /\ DestKnown /\ SeenWhole

(* Whatever can lie at the path: if load() accepts it, its list names all keys. *)
LEMMA ListedWhole ==
  ASSUME NEW f, Saved(f) \/ f \in {Older} \cup Foreign
  PROVE  Listed(f)
<1>1. CASE Saved(f)
  BY <1>1 DEF Saved, Listed, Whole, Archive
<1>2. CASE f = Older
  BY <1>2 DEF Listed, Older, Whole, Archive
<1>3. CASE f \in Foreign
  <2>1. f.keys = Keys \/ f.keys = NotAList
    BY <1>3 DEF Foreign, Older, Whole, Archive
  <2>2. CASE f.keys = NotAList
    BY <2>2 DEF Listed, Load, HeaderMember, RejectBomb, NotANumber, FormatVersion, MaxExpansionRatio
  <2> QED BY <2>1, <2>2 DEF Listed
<1> QED BY <1>1, <1>2, <1>3

(* What load() returns of such a file is whole. *)
LEMMA LoadedWhole ==
  ASSUME NEW f, Listed(f)
  PROVE  Loaded(f).result = "loaded" => Loaded(f).tensors = Keys
BY DEF Listed, Loaded

\* A program that has not saved yet leaves a directory as the invariant has it.
LEMMA CkInvInit == CkInit => CkInv
<1> SUFFICES ASSUME CkInit PROVE CkInv
  OBVIOUS
<1>1. CkType /\ Progress /\ PartialOwned /\ ProbedExists
  BY DEF CkInit, CkType, Progress, PartialOwned, ProbedExists, Idle
<1>2. DestKnown
  BY DEF CkInit, DestKnown
<1>3. SeenWhole
  BY DEF CkInit, SeenWhole, Unread
<1> QED BY <1>1, <1>2, <1>3 DEF CkInv

(* What the path holds stays known when it is left alone and no count shrinks.  *)
LEMMA DestKnownStays ==
  ASSUME CkType, CkType', dest' = dest, \A p \in Procs : saves[p] <= saves'[p], DestKnown
  PROVE  DestKnown'
<1>1. CASE Saved(dest)
  <2>1. PICK p \in Procs : \E n \in 1 .. saves[p] : dest = Whole(p, n)
    BY <1>1 DEF Saved
  <2> PICK n \in 1 .. saves[p] : dest = Whole(p, n)
    BY <2>1
  <2>2. n \in 1 .. saves'[p]
    BY <2>1 DEF CkType
  <2> QED BY <2>1, <2>2 DEF DestKnown, Saved, Whole, Archive, Members
<1>2. CASE dest \in {Absent, Older} \cup Foreign
  BY <1>2 DEF DestKnown, Absent, Older, Foreign, Whole, Archive
<1> QED BY <1>1, <1>2 DEF DestKnown

(* Steps that touch neither the files nor the counts: the process p goes from a *)
(* place to one where it holds nothing.                                         *)
LEMMA LetsGo ==
  ASSUME CkInv, NEW p \in Procs, NEW place \in {"idle", "dead", "replaced", "raising"},
         ckpc' = [ckpc EXCEPT ![p] = place],
         UNCHANGED <<dest, written, saves, seen>>,
         partials' = [partials EXCEPT ![p] = partials'[p]]
  PROVE  CkInv'
<1> USE DEF CkInv
<1>1. CkType'
  BY DEF CkType
<1>2. Progress'
  BY DEF Progress, CkType
<1>3. PartialOwned'
  <2> SUFFICES ASSUME NEW q \in Procs, ckpc'[q] \in {"writing", "closed"}
               PROVE  partials'[q] = Archive(q, saves[q], ckpc'[q] = "closed", written[q])
    BY DEF PartialOwned, TempName, Archive
  <2>1. q # p /\ ckpc'[q] = ckpc[q] /\ partials'[q] = partials[q]
    BY DEF CkType
  <2> QED BY <2>1 DEF PartialOwned, TempName
<1>4. ProbedExists'
  BY DEF ProbedExists, CkType, Absent
<1>5. DestKnown' /\ SeenWhole'
  BY DEF DestKnown, SeenWhole, Saved, Whole, Archive, Members, Absent, Older, Foreign
<1> QED BY <1>1, <1>2, <1>3, <1>4, <1>5

(* A file with its directory written, and one with other members. *)
Zipped(f, closed) == [f EXCEPT !.zip = closed]
Holding(f, ms) == [f EXCEPT !.members = ms]

\* Closing an archive changes its directory and nothing else.
LEMMA ZippedArchive ==
  ASSUME NEW p, NEW n, NEW ms, NEW open, NEW closed
  PROVE  Zipped(Archive(p, n, open, ms), closed) = Archive(p, n, closed, ms)
BY DEF Archive, Zipped

\* The archive a save has closed is whole.
LEMMA ClosedArchive ==
  ASSUME NEW p, NEW n, NEW ms
  PROVE  Zipped(Archive(p, n, FALSE, ms), TRUE) = Archive(p, n, TRUE, ms)
<1> DEFINE open == FALSE
<1> DEFINE closed == TRUE
<1> HIDE DEF open, closed
<1>1. Zipped(Archive(p, n, open, ms), closed) = Archive(p, n, closed, ms)
  BY ZippedArchive
<1> QED BY <1>1 DEF open, closed

\* Writing members changes what an archive holds and nothing else.
LEMMA HoldingArchive ==
  ASSUME NEW p, NEW n, NEW old, NEW ms, NEW closed
  PROVE  Holding(Archive(p, n, closed, old), ms) = Archive(p, n, closed, ms)
BY DEF Archive, Holding

\* An archive that is being written stays open.
LEMMA OpenArchiveHolding ==
  ASSUME NEW p, NEW n, NEW old, NEW ms
  PROVE  Holding(Archive(p, n, FALSE, old), ms) = Archive(p, n, FALSE, ms)
<1> DEFINE closed == FALSE
<1> HIDE DEF closed
<1>1. Holding(Archive(p, n, closed, old), ms) = Archive(p, n, closed, ms)
  BY HoldingArchive
<1> QED BY <1>1 DEF closed

\* Opening the temporary file truncates only the process's own (serialize.py).
LEMMA OpenKeeps ==
  ASSUME CkInv, NEW p \in Procs, Open(p) PROVE CkInv'
<1> USE DEF CkInv
<1>1. CkType'
  <2>1. partials' = [q \in Procs |-> partials'[q]] /\ ckpc' = [q \in Procs |-> ckpc'[q]]
    BY DEF CkType, Open, TempName
  <2>2. written' = [q \in Procs |-> written'[q]]
    BY DEF CkType, Open
  <2>3. saves' \in [Procs -> Nat]
    BY DEF CkType, Open
  <2> QED BY <2>1, <2>2, <2>3 DEF CkType
<1>2. Progress'
  <2> SUFFICES ASSUME NEW q \in Procs
               PROVE  /\ ckpc'[q] \in {"writing", "closed"} => saves'[q] >= 1
                      /\ ckpc'[q] = "closed" => written'[q] = Members
    BY DEF Progress, Members
  <2>1. CASE q = p
    <3>1. saves[p] \in Nat /\ saves'[p] = saves[p] + 1 /\ ckpc'[p] = "writing"
      BY DEF CkType, Open
    <3> QED BY <2>1, <3>1
  <2>2. CASE q # p
    BY <2>2 DEF Progress, CkType, Open
  <2> QED BY <2>1, <2>2
<1>3. PartialOwned'
  <2> SUFFICES ASSUME NEW q \in Procs, ckpc'[q] \in {"writing", "closed"}
               PROVE  partials'[q] = Archive(q, saves'[q], ckpc'[q] = "closed", written'[q])
    BY DEF PartialOwned, TempName, Archive
  <2>1. CASE q = p
    BY <2>1 DEF Open, CkType, TempName, Archive
  <2>2. CASE q # p
    BY <2>2 DEF Open, CkType, TempName, PartialOwned
  <2> QED BY <2>1, <2>2
<1>4. ProbedExists'
  BY DEF ProbedExists, CkType, Open, Absent
<1>5. DestKnown'
  <2>1. \A q \in Procs : saves[q] <= saves'[q]
    BY DEF Open, CkType
  <2> QED BY <1>1, <2>1, DestKnownStays DEF Open
<1>6. SeenWhole'
  BY DEF SeenWhole, Open
<1> QED BY <1>1, <1>2, <1>3, <1>4, <1>5, <1>6

\* A member goes into the archive of the process that writes it.
LEMMA WriteMemberKeeps ==
  ASSUME CkInv, NEW p \in Procs, WriteMember(p) PROVE CkInv'
<1> USE DEF CkInv
<1> PICK m \in Members \ written[p] :
         /\ written' = [written EXCEPT ![p] = @ \cup {m}]
         /\ partials' = [partials EXCEPT ![p].members = @ \cup {m}]
  BY DEF WriteMember, TempName
<1>1. CkType'
  BY DEF CkType, WriteMember
<1>2. Progress'
  BY DEF Progress, CkType, WriteMember
<1>3. PartialOwned'
  <2> SUFFICES ASSUME NEW q \in Procs, ckpc'[q] \in {"writing", "closed"}
               PROVE  partials'[q] = Archive(q, saves'[q], ckpc'[q] = "closed", written'[q])
    BY DEF PartialOwned, TempName, Archive
  <2>1. CASE q = p
    <3>1. partials[p] = Archive(p, saves[p], FALSE, written[p])
      BY DEF WriteMember, PartialOwned, TempName
    <3>2. partials'[p] = Holding(partials[p], partials[p].members \cup {m})
      BY DEF CkType, Holding
    <3>3. partials[p].members = written[p]
      BY <3>1 DEF Archive
    <3>4. Holding(partials[p], written[p] \cup {m}) = Archive(p, saves[p], FALSE, written[p] \cup {m})
      <4>1. Holding(Archive(p, saves[p], FALSE, written[p]), written[p] \cup {m})
              = Archive(p, saves[p], FALSE, written[p] \cup {m})
        BY OpenArchiveHolding
      <4> QED BY <3>1, <4>1, Zenon
    <3>5. partials'[p] = Archive(p, saves[p], FALSE, written[p] \cup {m})
      BY <3>2, <3>3, <3>4, Zenon
    <3> QED BY <2>1, <3>5 DEF WriteMember, CkType
  <2>2. CASE q # p
    BY <2>2 DEF WriteMember, CkType, TempName, PartialOwned
  <2> QED BY <2>1, <2>2
<1>4. ProbedExists'
  BY DEF ProbedExists, WriteMember, Absent
<1>5. dest' = dest /\ saves' = saves /\ seen' = seen
  BY DEF WriteMember
<1>6. DestKnown' /\ SeenWhole'
  BY <1>5 DEF DestKnown, SeenWhole, Saved, Whole, Archive, Members, Absent, Older, Foreign
<1> QED BY <1>1, <1>2, <1>3, <1>4, <1>6

\* Closing leaves an archive of all the members that were written.
LEMMA CloseKeeps ==
  ASSUME CkInv, NEW p \in Procs, Close(p) PROVE CkInv'
<1> USE DEF CkInv
<1>1. CkType'
  BY DEF CkType, Close, TempName
<1>2. Progress'
  BY DEF Progress, CkType, Close, Members
<1>3. PartialOwned'
  <2> SUFFICES ASSUME NEW q \in Procs, ckpc'[q] \in {"writing", "closed"}
               PROVE  partials'[q] = Archive(q, saves'[q], ckpc'[q] = "closed", written'[q])
    BY DEF PartialOwned, TempName, Archive
  <2>1. CASE q = p
    <3>1. partials[p] = Archive(p, saves[p], FALSE, written[p])
      BY DEF Close, PartialOwned, TempName
    <3>2. partials'[p] = Zipped(partials[p], TRUE)
      BY DEF CkType, Close, TempName, Zipped
    <3>3. Zipped(Archive(p, saves[p], FALSE, written[p]), TRUE) = Archive(p, saves[p], TRUE, written[p])
      BY ClosedArchive
    <3>4. partials'[p] = Archive(p, saves[p], TRUE, written[p])
      BY <3>1, <3>2, <3>3, Zenon
    <3> QED BY <2>1, <3>4 DEF Close, CkType
  <2>2. CASE q # p
    BY <2>2 DEF Close, CkType, TempName, PartialOwned
  <2> QED BY <2>1, <2>2
<1>4. ProbedExists'
  BY DEF ProbedExists, CkType, Close, Absent
<1>5. DestKnown' /\ SeenWhole'
  BY DEF Close, DestKnown, SeenWhole, Saved, Whole, Archive, Members, Absent, Older, Foreign
<1> QED BY <1>1, <1>2, <1>3, <1>4, <1>5

(* The rename: what appears at the path is the closed archive of this save. *)
LEMMA ReplaceKeeps ==
  ASSUME CkInv, NEW p \in Procs, Replace(p) PROVE CkInv'
<1> USE DEF CkInv
<1>1. CkType'
  BY DEF CkType, Replace, TempName
<1>2. Progress'
  BY DEF Progress, CkType, Replace, Members
<1>3. PartialOwned'
  <2> SUFFICES ASSUME NEW q \in Procs, ckpc'[q] \in {"writing", "closed"}
               PROVE  partials'[q] = Archive(q, saves'[q], ckpc'[q] = "closed", written'[q])
    BY DEF PartialOwned, TempName, Archive
  <2>1. q # p
    BY DEF Replace, CkType
  <2> QED BY <2>1 DEF Replace, CkType, TempName, PartialOwned
<1>4. dest' = Whole(p, saves[p]) /\ saves[p] \in 1 .. saves[p]
  <2>1. partials[p] = Archive(p, saves[p], TRUE, written[p]) /\ written[p] = Members
    BY DEF Replace, PartialOwned, Progress, TempName
  <2>2. saves[p] \in Nat /\ saves[p] >= 1
    BY DEF Replace, Progress, CkType
  <2>3. dest' = Whole(p, saves[p])
    BY <2>1 DEF Replace, TempName, Whole
  <2> QED BY <2>2, <2>3
<1>5. dest'.zip = TRUE /\ Absent.zip = FALSE
  BY <1>4 DEF Whole, Archive, Absent
<1>6. ProbedExists'
  BY <1>5 DEF ProbedExists, Absent
<1>7. DestKnown'
  BY <1>4 DEF DestKnown, Saved, Whole, Archive, Members, Replace
<1>8. SeenWhole'
  BY DEF Replace, SeenWhole
<1> QED BY <1>1, <1>2, <1>3, <1>6, <1>7, <1>8

(* A load: what it opens is there, and what it returns of it is whole. *)
LEMMA ReadKeeps ==
  ASSUME CkInv, NEW p \in Procs, Probe(p) \/ Read(p) PROVE CkInv'
<1> USE DEF CkInv
<1>1. CkType'
  BY DEF CkType, Probe, Read
<1>2. Progress' /\ PartialOwned'
  <2>1. \A q \in Procs : ckpc'[q] \in {"writing", "closed"} => ckpc'[q] = ckpc[q]
    BY DEF CkType, Probe, Read, Idle
  <2>2. UNCHANGED <<partials, written, saves>>
    BY DEF Probe, Read
  <2>3. Progress'
    BY <2>1, <2>2 DEF Progress, Members
  <2>4. PartialOwned'
    BY <2>1, <2>2 DEF PartialOwned, TempName, Archive
  <2> QED BY <2>3, <2>4
<1>3. dest' = dest /\ dest # Absent
  BY DEF Probe, Read, ProbedExists
<1>4. ProbedExists'
  BY <1>3 DEF ProbedExists, Absent
<1>5. DestKnown'
  BY <1>3 DEF Probe, Read, DestKnown, Saved, Whole, Archive, Members, Absent, Older, Foreign
<1>6. SeenWhole'
  <2>1. seen' = seen \/ seen' = Loaded(dest)
    BY DEF Probe, Read
  <2>2. Listed(dest)
    BY <1>3, ListedWhole DEF DestKnown
  <2>3. Loaded(dest).result = "loaded" => Loaded(dest).tensors = Keys
    BY <2>2, LoadedWhole
  <2> QED BY <2>1, <2>3 DEF SeenWhole
<1> QED BY <1>1, <1>2, <1>4, <1>5, <1>6

\* Every step of a save, a load or a crash preserves the invariant.
LEMMA CkInvNext == CkInv /\ [CkNext]_ckVars => CkInv'
<1> SUFFICES ASSUME CkInv, [CkNext]_ckVars PROVE CkInv'
  OBVIOUS
<1>1. CASE UNCHANGED ckVars
  BY <1>1, ZenonT(60) DEF ckVars, CkInv, CkType, Progress, PartialOwned, ProbedExists, DestKnown, SeenWhole, Saved,
     Whole, Archive, Members, Absent, Older, Foreign, TempName
<1>2. ASSUME NEW p \in Procs, Open(p) PROVE CkInv'
  BY <1>2, OpenKeeps
<1>3. ASSUME NEW p \in Procs, WriteMember(p) PROVE CkInv'
  BY <1>3, WriteMemberKeeps
<1>4. ASSUME NEW p \in Procs, Close(p) PROVE CkInv'
  BY <1>4, CloseKeeps
<1>5. ASSUME NEW p \in Procs, Replace(p) PROVE CkInv'
  BY <1>5, ReplaceKeeps
<1>6. ASSUME NEW p \in Procs, Probe(p) \/ Read(p) PROVE CkInv'
  BY <1>6, ReadKeeps
<1>7. ASSUME NEW p \in Procs, Return(p) \/ Interrupt(p) \/ Unlink(p) \/ Kill(p) \/ ReusePid(p) PROVE CkInv'
  <2>1. \E place \in {"idle", "dead", "replaced", "raising"} : ckpc' = [ckpc EXCEPT ![p] = place]
    BY <1>7 DEF Return, Interrupt, Unlink, Kill, ReusePid, Idle
  <2>2. UNCHANGED <<dest, written, saves, seen>>
    BY <1>7 DEF Return, Interrupt, Unlink, Kill, ReusePid
  <2>3. partials' = [partials EXCEPT ![p] = partials'[p]]
    BY <1>7 DEF Return, Interrupt, Unlink, Kill, ReusePid, TempName, CkInv, CkType
  <2> QED BY <2>1, <2>2, <2>3, LetsGo
<1> QED BY <1>1, <1>2, <1>3, <1>4, <1>5, <1>6, <1>7 DEF CkNext

(* The inductive invariant holds throughout: every process owns its temporary   *)
(* file, and only a closed, complete archive is ever renamed to the path.       *)
THEOREM CheckpointInvariant == CkSpec => []CkInv
BY CkInvInit, CkInvNext, PTL DEF CkSpec

(* DestinationWhole, the atomicity that save() documents, for any number of     *)
(* processes, names and saves, with interrupts and kills at every step.         *)
THEOREM CheckpointsWhole == CkSpec => []DestinationWhole
<1>1. CkInv => DestinationWhole
  BY DEF CkInv, DestKnown, SeenWhole, DestinationWhole
<1> QED BY <1>1, CheckpointInvariant, PTL

(* PartialOwned: no process ever writes into, or renames, another's half-       *)
(* written file.                                                                *)
THEOREM PartialsOwned == CkSpec => []PartialOwned
<1>1. CkInv => PartialOwned
  BY DEF CkInv
<1> QED BY <1>1, CheckpointInvariant, PTL

-------------------------------------------------------------------------------
(* Dataset caches                                                               *)

DcTypeOK ==
  /\ dlpc = [p \in Loaders |-> dlpc[p]]
  /\ handle = [p \in Loaders |-> handle[p]]
  /\ put \in [Loaders -> SUBSET Chunks]
  /\ mirror = [p \in Loaders |-> mirror[p]]
  /\ met \in BOOLEAN

(* As long as no two downloads met, at most one process downloads, ...          *)
Alone == ~met => \A p, q \in Loaders : Downloading(p) /\ Downloading(q) => p = q
(* ... it alone has the temporary file open, which holds what it has written ...*)
PartIsOwn ==
  ~met => \A p \in Loaders : dlpc[p] \in {"write", "rename"} =>
            /\ handle[p] = "part" /\ part = put[p]
            /\ dlpc[p] = "rename" => put[p] = Chunks
(* ... and the cached file, if there is one, was complete when it got its name. *)
NothingOrWhole == ~met => cached \in {Gone, Chunks}

(* What was last read of the archive is what is read of it now.                 *)
ReadOfArchive ==
  cifar \in {NotRead, [arrays |-> CifarLoad(archive), names |-> CifarNames(archive)]}

DcInv == DcTypeOK /\ Alone /\ PartIsOwn /\ NothingOrWhole /\ ReadOfArchive

(* Whatever lies in the cache: if load() gives arrays then the container that   *)
(* is read has no flaw, and class_names() succeeds too.                         *)
LEMMA ArraysOnlyOfSound ==
  ASSUME NEW a \in Archives
  PROVE  /\ CifarLoad(a) # "unread"
         /\ CifarLoad(a) = "arrays" => Only(a) = "none" /\ CifarNames(a) = "names"
<1>1. Only(a) \in Flaws
  BY DEF Archives, Only, ArchivePath, Flaws
<1>2. MemberBytes(a) \in {"FileNotFoundError", "ValueError", "KeyError", "bytes"}
  BY DEF MemberBytes
<1>3. Unpickle(a) \in {"record", "UnpicklingError"}
  BY DEF Unpickle
<1>4. MemberBytes(a) = "bytes" => Only(a) \notin {"absent", "truncated", "no member", "not a file"}
  BY DEF MemberBytes
<1>5. Only(a) = "foreign global" => Unpickle(a) = "UnpicklingError"
  BY DEF Unpickle, Globals, Allowed
<1>6. CifarLoad(a) # "unread"
  BY <1>2, <1>3 DEF CifarLoad
<1>7. ASSUME CifarLoad(a) = "arrays"
      PROVE  Only(a) = "none" /\ CifarNames(a) = "names"
  <2>1. MemberBytes(a) = "bytes" /\ Unpickle(a) = "record"
    BY <1>2, <1>3, <1>7 DEF CifarLoad
  <2>2. Only(a) \notin {"no label key", "wrong rows", "wrong labels"}
    BY <1>7, <2>1 DEF CifarLoad
  <2> QED BY <1>1, <1>4, <1>5, <2>1, <2>2 DEF Flaws, CifarNames
<1> QED BY <1>6, <1>7

\* An empty cache directory, with nobody downloading.
LEMMA DcInvInit == DcInit => DcInv
BY DEF DcInit, DcInv, DcTypeOK, Alone, PartIsOwn, NothingOrWhole, ReadOfArchive, Downloading

(* A step after which a process that was not downloading, or was, no longer     *)
(* holds the temporary file; the others and the files are left alone.           *)
LEMMA DcLetsGo ==
  ASSUME DcInv, NEW p \in Loaders, NEW place, place \notin {"write", "rename"},
         dlpc' = [dlpc EXCEPT ![p] = place],
         place \notin {"out", "returned", "raised"} =>
           Downloading(p) \/ (\A q \in Loaders \ {p} : ~Downloading(q)) \/ met',
         handle' = [handle EXCEPT ![p] = handle'[p]],
         mirror' = [mirror EXCEPT ![p] = mirror'[p]],
         met' \in BOOLEAN, met => met', UNCHANGED <<cached, part, put, Cifar>>
  PROVE  DcInv'
<1> USE DEF DcInv
<1>1. DcTypeOK'
  BY DEF DcTypeOK
<1>2. dlpc'[p] = place /\ \A q \in Loaders \ {p} : dlpc'[q] = dlpc[q] /\ handle'[q] = handle[q]
  BY DEF DcTypeOK
<1>3. Alone'
  BY <1>2 DEF Alone, Downloading
<1>4. PartIsOwn'
  BY <1>2 DEF PartIsOwn
<1>5. NothingOrWhole' /\ ReadOfArchive'
  BY DEF NothingOrWhole, ReadOfArchive, Cifar
<1> QED BY <1>1, <1>3, <1>4, <1>5

\* A call that finds the archive returns it, one that does not starts to fetch it.
LEMMA CallKeeps == ASSUME DcInv, NEW p \in Loaders, Call(p) PROVE DcInv'
<1> DEFINE place == IF cached # Gone THEN "returned" ELSE "fetch"
<1>1. dlpc' = [dlpc EXCEPT ![p] = place] /\ place \notin {"write", "rename"}
  BY DEF Call
<1>2. handle' = [handle EXCEPT ![p] = handle'[p]] /\ mirror' = [mirror EXCEPT ![p] = mirror'[p]]
  BY DEF Call, DcInv, DcTypeOK
<1>3. met' = (met \/ (cached = Gone /\ \E q \in Loaders \ {p} : Downloading(q)))
  BY DEF Call
<1>4. met' \in BOOLEAN /\ (met => met')
  BY <1>3
<1>5. place \notin {"out", "returned", "raised"} =>
        Downloading(p) \/ (\A q \in Loaders \ {p} : ~Downloading(q)) \/ met'
  BY <1>3
<1>6. UNCHANGED <<cached, part, put, Cifar>>
  BY DEF Call
<1> HIDE DEF place
<1> QED BY <1>1, <1>2, <1>4, <1>5, <1>6, DcLetsGo

\* Opening the temporary file truncates it: unless processes met, nobody else has it open.
LEMMA FetchedKeeps == ASSUME DcInv, NEW p \in Loaders, Fetched(p) PROVE DcInv'
<1> USE DEF DcInv
<1>1. /\ dlpc[p] = "fetch" /\ dlpc'[p] = "write" /\ handle'[p] = "part"
      /\ part' = {} /\ put'[p] = {}
      /\ \A q \in Loaders \ {p} : dlpc'[q] = dlpc[q] /\ handle'[q] = handle[q] /\ put'[q] = put[q]
      /\ UNCHANGED <<cached, mirror, met, archive, cifar>>
  BY DEF Fetched, DcTypeOK, Cifar
<1>2. DcTypeOK'
  BY DEF DcTypeOK, Fetched
<1>3. Alone'
  BY <1>1 DEF Alone, Downloading
<1>4. PartIsOwn'
  BY <1>1 DEF PartIsOwn, Alone, Downloading
<1> QED BY <1>1, <1>2, <1>3, <1>4 DEF NothingOrWhole, ReadOfArchive

\* A chunk reaches the file the process opened, under whichever name it has.
LEMMA WriteKeeps == ASSUME DcInv, NEW p \in Loaders, Write(p) PROVE DcInv'
<1> USE DEF DcInv
<1> PICK c \in Chunks \ put[p] :
      /\ put' = [put EXCEPT ![p] = @ \cup {c}]
      /\ part' = IF handle[p] = "part" THEN part \cup {c} ELSE part
      /\ cached' = IF handle[p] = "cached" THEN cached \cup {c} ELSE cached
  BY DEF Write
<1>1. /\ dlpc[p] = "write" /\ put'[p] = put[p] \cup {c}
      /\ dlpc'[p] = IF put'[p] = Chunks THEN "rename" ELSE "write"
      /\ \A q \in Loaders \ {p} : dlpc'[q] = dlpc[q] /\ put'[q] = put[q]
      /\ UNCHANGED <<handle, mirror, met, archive, cifar>>
  BY DEF Write, DcTypeOK, Cifar
<1>2. DcTypeOK'
  <2>1. dlpc' = [q \in Loaders |-> dlpc'[q]]
    BY DEF DcTypeOK, Write
  <2>2. put' \in [Loaders -> SUBSET Chunks]
    BY DEF DcTypeOK
  <2> QED BY <1>1, <2>1, <2>2 DEF DcTypeOK
<1>3. Alone'
  BY <1>1 DEF Alone, Downloading
<1>4. ASSUME ~met'
      PROVE  handle[p] = "part" /\ part = put[p] /\ (\A q \in Loaders \ {p} : ~Downloading(q))
  BY <1>1, <1>4 DEF PartIsOwn, Alone, Downloading
<1>5. PartIsOwn'
  BY <1>1, <1>4 DEF PartIsOwn, Downloading
<1>6. NothingOrWhole'
  BY <1>1, <1>4 DEF NothingOrWhole
<1> QED BY <1>1, <1>2, <1>3, <1>5, <1>6 DEF ReadOfArchive

(* Going on to the next mirror, or giving up. *)
LEMMA FailedGoes ==
  ASSUME NEW p \in Loaders, Failed(p), DcTypeOK
  PROVE  /\ \E place \in {"fetch", "raised"} : dlpc' = [dlpc EXCEPT ![p] = place]
         /\ mirror' = [mirror EXCEPT ![p] = mirror'[p]]
BY DEF Failed, DcTypeOK

\* What a rename publishes is whole, unless two downloads met; without the file it fails.
LEMMA RenameKeeps == ASSUME DcInv, NEW p \in Loaders, Rename(p) PROVE DcInv'
<1> USE DEF DcInv
<1>0. Downloading(p) /\ dlpc[p] = "rename"
  BY DEF Rename, Downloading
<1>1. CASE part = Gone
  <2>1. Failed(p) /\ UNCHANGED <<cached, part, handle, put, met, Cifar>>
    BY <1>1 DEF Rename
  <2>2. handle' = [handle EXCEPT ![p] = handle'[p]]
    BY <2>1 DEF DcTypeOK
  <2>3. PICK place \in {"fetch", "raised"} : dlpc' = [dlpc EXCEPT ![p] = place]
    BY <2>1, FailedGoes
  <2> QED BY <1>0, <2>1, <2>2, <2>3, FailedGoes, DcLetsGo DEF DcTypeOK
<1>2. CASE part # Gone
  <2>1. /\ cached' = part /\ dlpc'[p] = "returned"
        /\ \A q \in Loaders \ {p} : dlpc'[q] = dlpc[q]
        /\ UNCHANGED <<put, met, mirror, archive, cifar>>
    BY <1>2 DEF Rename, DcTypeOK, Cifar
  <2>2. DcTypeOK'
    BY <1>2 DEF Rename, DcTypeOK
  <2>3. Alone'
    BY <2>1 DEF Alone, Downloading
  <2>4. ASSUME ~met' PROVE part = Chunks /\ \A q \in Loaders \ {p} : ~Downloading(q)
    BY <1>0, <2>1, <2>4 DEF PartIsOwn, Alone
  <2>5. PartIsOwn' /\ NothingOrWhole'
    BY <2>1, <2>4 DEF PartIsOwn, NothingOrWhole, Downloading
  <2> QED BY <2>1, <2>2, <2>3, <2>5 DEF ReadOfArchive
<1> QED BY <1>1, <1>2

\* A download that fails or is left behind lets go of the temporary file.
LEMMA GoesKeeps == ASSUME DcInv, NEW p \in Loaders, Fault(p) \/ Leave(p) PROVE DcInv'
<1>0. handle' = [handle EXCEPT ![p] = handle'[p]] /\ UNCHANGED <<cached, part, put, met, Cifar>>
  BY DEF Fault, Leave, DcInv, DcTypeOK
<1>1. CASE Fault(p)
  <2>1. Failed(p) /\ Downloading(p)
    BY <1>1 DEF Fault, Downloading
  <2>2. PICK place \in {"fetch", "raised"} : dlpc' = [dlpc EXCEPT ![p] = place]
    BY <2>1, FailedGoes DEF DcInv
  <2> QED BY <1>0, <2>1, <2>2, FailedGoes, DcLetsGo DEF DcInv, DcTypeOK
<1>2. CASE Leave(p)
  <2>1. dlpc' = [dlpc EXCEPT ![p] = "out"] /\ mirror' = [mirror EXCEPT ![p] = mirror'[p]]
    BY <1>2 DEF Leave, DcInv, DcTypeOK
  <2> QED BY <1>0, <2>1, DcLetsGo DEF DcInv, DcTypeOK
<1> QED BY <1>1, <1>2

\* Every step of the loaders preserves the invariant.
LEMMA DcInvNext == DcInv /\ [DcNext]_dcVars => DcInv'
<1> SUFFICES ASSUME DcInv, [DcNext]_dcVars PROVE DcInv'
  OBVIOUS
<1>1. CASE UNCHANGED dcVars
  BY <1>1 DEF dcVars, DcInv, DcTypeOK, Alone, PartIsOwn, NothingOrWhole, ReadOfArchive, Downloading
<1>2. ASSUME NEW p \in Loaders, Call(p) \/ Fetched(p) \/ Write(p) \/ Rename(p) \/ Fault(p) \/ Leave(p)
      PROVE  DcInv'
  BY <1>2, CallKeeps, FetchedKeeps, WriteKeeps, RenameKeeps, GoesKeeps
<1>3. ASSUME UNCHANGED Mnist, cifar' = NotRead \/
               (archive' = archive /\ cifar' = [arrays |-> CifarLoad(archive), names |-> CifarNames(archive)])
      PROVE  DcInv'
  BY <1>3 DEF Mnist, DcInv, DcTypeOK, Alone, PartIsOwn, NothingOrWhole, ReadOfArchive, Downloading
<1>4. ASSUME NEW a \in Archives, FetchArchive(a) PROVE DcInv'
  BY <1>3, <1>4 DEF FetchArchive
<1>5. CASE LoadCifar
  BY <1>3, <1>5 DEF LoadCifar
<1> QED BY <1>1, <1>2, <1>4, <1>5 DEF DcNext

(* What lies in CACHE under the archive's names is one of the containers there  *)
(* may be.                                                                      *)
LEMMA ArchiveKnown == DcSpec => [](archive \in Archives)
<1>1. DcInit => archive \in Archives
  BY DEF DcInit, NotFetched, Archives, Flaws
<1>2. archive \in Archives /\ [DcNext]_dcVars => (archive \in Archives)'
  BY DEF DcNext, dcVars, Cifar, Call, Fetched, Write, Rename, Fault, Leave, FetchArchive, LoadCifar
<1> QED BY <1>1, <1>2, PTL DEF DcSpec

(* DatasetsWhole: for any number of processes and mirrors, with failing mirrors,*)
(* interrupts and kills at every step, what _download() finds cached is a whole *)
(* file unless two downloads met; and a flawed archive never gives arrays.      *)
THEOREM DatasetsAreWhole == DcSpec => []DatasetsWhole
<1>1. DcSpec => []DcInv
  BY DcInvInit, DcInvNext, PTL DEF DcSpec
<1>2. ASSUME DcInv, archive \in Archives PROVE DatasetsWhole
  <2>1. CachedWhole
    BY <1>2 DEF DcInv, NothingOrWhole, CachedWhole, ReadIdx
  <2>2. OnlySoundArchives
    BY <1>2, ArraysOnlyOfSound DEF DcInv, ReadOfArchive, OnlySoundArchives, NotRead
  <2> QED BY <2>1, <2>2 DEF DatasetsWhole
<1> QED BY <1>1, <1>2, ArchiveKnown, PTL

-------------------------------------------------------------------------------
(* Data loading                                                                 *)

(* Batch number b of a pass: how many samples it has, where its random numbers  *)
(* start - every batch before it was full - and what it is.                     *)
BatchLen(c, l, b) == IF b * c.batch < Len(Dataset(c, l)) THEN c.batch ELSE Len(Dataset(c, l)) - (b - 1) * c.batch
DrawnBefore(c, b) == (b - 1) * AllDraws(c.transforms, c.batch)
BatchOf(c, l, e, b) ==
  [samples |-> [k \in 1..BatchLen(c, l, b) |-> Dataset(c, l)[Order(c, l, e)[(b - 1) * c.batch + k]]],
   decided |-> Decisions(c.transforms, DrawnBefore(c, b), BatchLen(c, l, b))]

Confs == [fraction : Fractions, batch : BatchSizes, seed : Seeds, shuffle : BOOLEAN,
          dropLast : BOOLEAN, transforms : {<<>>, <<"crop", "flip">>}]

(* An iterator is at the end of a number of batches, each of which is what its  *)
(* loader, its epoch and its number say; its generator is past what they drew.  *)
IterOf(c, i) ==
  /\ i.order = Order(c, i.of, i.epoch)
  /\ i.start = Len(i.batches) * c.batch
  /\ \A b \in 1..Len(i.batches) :
       /\ i.batches[b] = BatchOf(c, i.of, i.epoch, b)
       /\ (b - 1) * c.batch < Limit(c, Len(Dataset(c, i.of)))
  /\ i.start < Len(Dataset(c, i.of)) => i.drawn = DrawnBefore(c, Len(i.batches) + 1)
  /\ i.whole => i.start >= Limit(c, Len(Dataset(c, i.of)))

Batches(c) == {BatchOf(c, l, e, b) : l \in Loaders2, e \in Nat, b \in Nat \ {0}}
Orders(c) == {Order(c, l, e) : l \in Loaders2, e \in Nat}
Iterator(c) ==
  [of : Loaders2, epoch : Nat, order : Orders(c), start : Nat, drawn : Nat, batches : Seq(Batches(c)),
   open : BOOLEAN, whole : BOOLEAN]

DlInv ==
  /\ conf \in Confs /\ SplitAccepted(conf)
  /\ epoch \in [Loaders2 -> Nat]
  /\ iters \in Seq(Iterator(conf))
  /\ \A it \in 1..Len(iters) : IterOf(conf, iters[it])

(* Division: a multiple that is closer to nothing than the divisor is nothing.  *)
LEMMA SmallMultiple ==
  ASSUME NEW n \in Nat \ {0}, NEW q \in Int, n * q < n, -n < n * q
  PROVE  q = 0
<1>1. CASE q >= 1
  <2>1. n * q >= n * 1
    BY <1>1
  <2> QED BY <2>1
<1>2. CASE q <= -1
  <2>1. n * q <= n * (-1)
    BY <1>2
  <2> QED BY <2>1
<1> QED BY <1>1, <1>2

(* numpy's permutation: every index once. *)
LEMMA PermutationOnce ==
  ASSUME NEW seed \in Nat, NEW n \in Nat
  PROVE  /\ Permutation(seed, n) \in [1..n -> 1..n]
         /\ \A i, j \in 1..n : Permutation(seed, n)[i] = Permutation(seed, n)[j] => i = j
<1>1. ASSUME NEW i \in 1..n
      PROVE  1 + ((i - 1 + seed) % n) \in 1..n
  <2>1. (i - 1 + seed) % n \in 0..(n - 1)
    OBVIOUS
  <2> QED BY <2>1
<1>2. ASSUME NEW i \in 1..n, NEW j \in 1..n, (i - 1 + seed) % n = (j - 1 + seed) % n
      PROVE  i = j
  <2> DEFINE p == (i - 1 + seed) \div n
             q == (j - 1 + seed) \div n
  <2>1. p \in Int /\ i - 1 + seed = n * p + ((i - 1 + seed) % n)
    OBVIOUS
  <2>2. q \in Int /\ j - 1 + seed = n * q + ((j - 1 + seed) % n)
    OBVIOUS
  <2> HIDE DEF p, q
  <2>3. i - j = n * p - n * q /\ n * p \in Int /\ n * q \in Int
    <3>1. (i - 1 + seed) % n \in Int /\ (j - 1 + seed) % n \in Int
      OBVIOUS
    <3> QED BY <1>2, <2>1, <2>2, <3>1
  <2>4. n * (p - q) = n * p - n * q /\ p - q \in Int
    BY <2>1, <2>2
  <2>5. n * (p - q) < n /\ -n < n * (p - q)
    BY <2>3, <2>4
  <2>6. p - q = 0
    BY <2>4, <2>5, SmallMultiple
  <2> QED BY <2>3, <2>4, <2>6
<1>3. /\ Permutation(seed, n) = [i \in 1..n |-> Permutation(seed, n)[i]]
      /\ \A i \in 1..n : Permutation(seed, n)[i] = 1 + ((i - 1 + seed) % n)
  BY DEF Permutation
<1>4. Permutation(seed, n) \in [1..n -> 1..n]
  BY <1>1, <1>3
<1>5. ASSUME NEW i \in 1..n, NEW j \in 1..n, Permutation(seed, n)[i] = Permutation(seed, n)[j]
      PROVE  i = j
  <2>1. (i - 1 + seed) % n \in Int /\ (j - 1 + seed) % n \in Int
    OBVIOUS
  <2>2. (i - 1 + seed) % n = (j - 1 + seed) % n
    BY <1>3, <1>5, <2>1
  <2> QED BY <1>2, <2>2
<1> QED BY <1>4, <1>5

(* The place of the k-th sample of batch number b says which batch and sample.  *)
LEMMA PlaceOnce ==
  ASSUME NEW size \in Nat \ {0}, NEW a \in Nat \ {0}, NEW b \in Nat \ {0},
         NEW k \in 1..size, NEW m \in 1..size,
         (a - 1) * size + k = (b - 1) * size + m
  PROVE  a = b /\ k = m
<1>1. size * (a - b) = m - k /\ a - b \in Int
  <2>1. size * (a - b) = (a - 1) * size - (b - 1) * size
    OBVIOUS
  <2> QED BY <2>1
<1>2. a - b = 0
  BY <1>1, SmallMultiple
<1> QED BY <1>1, <1>2

\* The places of a batch are inside the first n batches when the batch is one of them.
LEMMA PlaceWithin ==
  ASSUME NEW size \in Nat \ {0}, NEW n \in Nat, NEW b \in Nat \ {0}, NEW k \in 1..size
  PROVE  (b - 1) * size + k <= n * size <=> b <= n
<1>1. (b - 1) * size \in Nat /\ n * size \in Nat /\ (n - b) * size \in Int
  OBVIOUS
<1>2. (n - b) * size = n * size - (b - 1) * size - size
  OBVIOUS
<1>3. CASE b <= n
  <2>1. (n - b) * size >= 0
    BY <1>3
  <2> QED BY <1>1, <1>2, <1>3, <2>1
<1>4. CASE b > n
  <2>1. (b - n - 1) * size >= 0
    BY <1>4
  <2>2. (b - n - 1) * size = (b - 1) * size - n * size
    OBVIOUS
  <2> QED BY <1>1, <1>4, <2>1, <2>2
<1> QED BY <1>3, <1>4

\* Every place is at some index of some batch.
LEMMA PlaceExists ==
  ASSUME NEW size \in Nat \ {0}, NEW p \in Nat \ {0}
  PROVE  \E b \in Nat \ {0}, k \in 1..size : p = (b - 1) * size + k
<1> DEFINE b == (p - 1) \div size
           k == (p - 1) % size
<1>1. b \in Nat /\ k \in 0..(size - 1) /\ p - 1 = size * b + k
  OBVIOUS
<1> HIDE DEF b, k
<1> DEFINE c == b + 1
           m == k + 1
<1>2. c \in Nat \ {0} /\ m \in 1..size
  BY <1>1
<1>3. p = (c - 1) * size + m
  <2>1. (b + 1 - 1) * size = size * b /\ size * b \in Int
    BY <1>1
  <2> QED BY <1>1, <2>1
<1> HIDE DEF c, m
<1> QED BY <1>2, <1>3

\* A count between two multiples of the size holds that many whole batches.
LEMMA Quotient ==
  ASSUME NEW size \in Nat \ {0}, NEW a \in Nat, NEW n \in Nat, a * size <= n, n < a * size + size
  PROVE  n \div size = a
<1> DEFINE r == n - a * size
<1>1. r \in 0..(size - 1) /\ n = a * size + r
  OBVIOUS
<1> HIDE DEF r
<1>2. (a * size + r) \div size = a
  BY <1>1
<1> QED BY <1>1, <1>2

(* The two halves of split(): neither is empty, and they share no sample.       *)
LEMMA CutBetween ==
  ASSUME NEW c \in Confs, SplitAccepted(c)
  PROVE  Cut(c) \in 1..(Samples - 1)
<1> USE DataAssumption
<1>1. c.fraction \in 1..99 /\ Samples \in Nat \ {0}
  BY DEF Confs
<1> DEFINE total == Samples * c.fraction
<1>2. total \in Nat /\ total <= 99 * Samples
  <2>1. Samples * (99 - c.fraction) >= 0 /\ Samples * (99 - c.fraction) = 99 * Samples - total
    BY <1>1
  <2> QED BY <1>1, <2>1
<1>3. Cut(c) = Rounded(total)
  BY DEF Cut
<1> HIDE DEF total
<1>4. total \div 100 \in Nat /\ total \div 100 < Samples
  BY <1>1, <1>2
<1>5. Rounded(total) \in {total \div 100, total \div 100 + 1}
  BY <1>4 DEF Rounded
<1> QED BY <1>1, <1>3, <1>4, <1>5 DEF SplitAccepted

\* split() gives each half distinct samples, and no sample to both.
LEMMA TwoHalves ==
  ASSUME NEW c \in Confs, SplitAccepted(c)
  PROVE  /\ \A l \in Loaders2 :
              /\ Dataset(c, l) \in [1..Len(Dataset(c, l)) -> 1..Samples] /\ Len(Dataset(c, l)) \in 1..Samples
              /\ \A i, j \in 1..Len(Dataset(c, l)) : Dataset(c, l)[i] = Dataset(c, l)[j] => i = j
         /\ \A i \in 1..Len(Dataset(c, "train")), j \in 1..Len(Dataset(c, "val")) : Dataset(c, "train")[i] # Dataset(c, "val")[j]
<1> DEFINE order == Permutation(c.seed, Samples)
           cut == Cut(c)
<1>1. Samples \in Nat /\ c.seed \in Nat
  BY DataAssumption DEF Confs
<1>2. order \in [1..Samples -> 1..Samples] /\ \A i, j \in 1..Samples : order[i] = order[j] => i = j
  BY <1>1, PermutationOnce
<1>3. cut \in 1..(Samples - 1)
  BY CutBetween
<1>4. Dataset(c, "train") = SubSeq(order, 1, cut) /\ Dataset(c, "val") = SubSeq(order, cut + 1, Samples)
  BY DEF Dataset
<1> HIDE DEF order, cut
<1>5. order \in Seq(1..Samples) /\ Len(order) = Samples
  BY <1>1, <1>2
<1>6. Dataset(c, "train") = [i \in 1..cut |-> order[i]]
  BY <1>1, <1>3, <1>4, <1>5
<1>7. Dataset(c, "val") = [i \in 1..(Samples - cut) |-> order[i + cut]]
  BY <1>1, <1>3, <1>4, <1>5
<1>8. /\ Len(Dataset(c, "train")) = cut /\ Dataset(c, "train") \in [1..cut -> 1..Samples]
      /\ \A i, j \in 1..cut : Dataset(c, "train")[i] = Dataset(c, "train")[j] => i = j
  <2>1. cut \in Nat /\ \A i \in 1..cut : i \in 1..Samples /\ Dataset(c, "train")[i] = order[i]
    BY <1>1, <1>3, <1>6
  <2>2. Dataset(c, "train") \in [1..cut -> 1..Samples]
    BY <1>2, <1>6, <2>1
  <2>3. \A i, j \in 1..cut : Dataset(c, "train")[i] = Dataset(c, "train")[j] => i = j
    BY <1>2, <2>1
  <2> QED BY <1>6, <2>1, <2>2, <2>3
<1>9. /\ Len(Dataset(c, "val")) = Samples - cut /\ Dataset(c, "val") \in [1..(Samples - cut) -> 1..Samples]
      /\ \A i, j \in 1..(Samples - cut) : Dataset(c, "val")[i] = Dataset(c, "val")[j] => i = j
  <2>1. \A i \in 1..(Samples - cut) : i + cut \in 1..Samples
    BY <1>1, <1>3
  <2>2. \A i \in 1..(Samples - cut) : Dataset(c, "val")[i] = order[i + cut]
    BY <1>7
  <2>3. ASSUME NEW i \in 1..(Samples - cut), NEW j \in 1..(Samples - cut), Dataset(c, "val")[i] = Dataset(c, "val")[j]
        PROVE  i = j
    <3>1. i + cut = j + cut
      BY <1>2, <2>1, <2>2, <2>3
    <3> QED BY <1>1, <1>3, <3>1
  <2>4. Samples - cut \in Nat
    BY <1>1, <1>3
  <2> QED BY <1>2, <1>7, <2>1, <2>3, <2>4
<1>10. ASSUME NEW i \in 1..cut, NEW j \in 1..(Samples - cut)
       PROVE  Dataset(c, "train")[i] # Dataset(c, "val")[j]
  <2>1. Dataset(c, "train")[i] = order[i] /\ Dataset(c, "val")[j] = order[j + cut]
    BY <1>6, <1>7
  <2>2. i \in 1..Samples /\ j + cut \in 1..Samples /\ i # j + cut
    BY <1>1, <1>3
  <2> QED BY <1>2, <2>1, <2>2
<1>11. Len(Dataset(c, "train")) \in 1..Samples /\ Len(Dataset(c, "val")) \in 1..Samples
  BY <1>1, <1>3, <1>8, <1>9
<1> QED BY <1>8, <1>9, <1>10, <1>11 DEF Loaders2

(* The order of a pass: every index of the half once.                           *)
LEMMA OrderOnce ==
  ASSUME NEW c \in Confs, SplitAccepted(c), NEW l \in Loaders2, NEW e \in Nat
  PROVE  /\ Order(c, l, e) \in [1..Len(Dataset(c, l)) -> 1..Len(Dataset(c, l))]
         /\ Len(Order(c, l, e)) = Len(Dataset(c, l))
         /\ \A i, j \in 1..Len(Dataset(c, l)) : Order(c, l, e)[i] = Order(c, l, e)[j] => i = j
<1> DEFINE n == Len(Dataset(c, l))
<1>1. n \in Nat /\ c.seed + e \in Nat
  <2>1. Samples \in Nat /\ c.seed \in Nat
    BY DataAssumption DEF Confs
  <2>2. n \in 1..Samples
    BY TwoHalves
  <2> QED BY <2>1, <2>2
<1>2. Order(c, l, e) = IF c.shuffle THEN Permutation(c.seed + e, n) ELSE Arange(n)
  BY DEF Order
<1> HIDE DEF n
<1>3. /\ Order(c, l, e) \in [1..n -> 1..n]
      /\ \A i, j \in 1..n : Order(c, l, e)[i] = Order(c, l, e)[j] => i = j
  <2>1. CASE c.shuffle
    <3> DEFINE from == c.seed + e
    <3>1. from \in Nat /\ Order(c, l, e) = Permutation(from, n)
      BY <1>1, <1>2, <2>1
    <3> HIDE DEF from
    <3>2. /\ Permutation(from, n) \in [1..n -> 1..n]
          /\ \A i, j \in 1..n : Permutation(from, n)[i] = Permutation(from, n)[j] => i = j
      BY <1>1, <3>1, PermutationOnce
    <3> QED BY <3>1, <3>2
  <2>2. CASE ~c.shuffle
    BY <1>1, <1>2, <2>2 DEF Arange
  <2> QED BY <2>1, <2>2
<1>4. Len(Order(c, l, e)) = n
  BY <1>1, <1>3
<1> QED BY <1>3, <1>4 DEF n

(* No more batches start than there are samples. *)
LEMMA LimitWithin ==
  ASSUME NEW c \in Confs, NEW n \in Nat
  PROVE  c.batch \in Nat \ {0} /\ Limit(c, n) \in 0..n
<1>1. c.batch \in Nat \ {0}
  BY DataAssumption DEF Confs
<1> QED BY <1>1 DEF Limit

(* A batch that is begun has a sample and fits; one that is dropped is the only *)
(* one that need not be full.                                                   *)
LEMMA BatchFits ==
  ASSUME NEW c \in Confs, SplitAccepted(c), NEW l \in Loaders2, NEW b \in Nat \ {0},
         (b - 1) * c.batch < Limit(c, Len(Dataset(c, l)))
  PROVE  /\ BatchLen(c, l, b) \in 1..c.batch
         /\ (b - 1) * c.batch + BatchLen(c, l, b) <= Len(Dataset(c, l))
         /\ b * c.batch <= Len(Dataset(c, l)) \/ c.dropLast => BatchLen(c, l, b) = c.batch
         /\ b * c.batch > Len(Dataset(c, l)) => (b - 1) * c.batch + BatchLen(c, l, b) = Len(Dataset(c, l))
<1> DEFINE n == Len(Dataset(c, l))
           done == (b - 1) * c.batch
<1>1. Samples \in Nat /\ n \in 1..Samples
  BY TwoHalves, DataAssumption
<1>2. n \in Nat /\ c.batch \in Nat \ {0} /\ Limit(c, n) \in 0..n
  BY <1>1, LimitWithin
<1>3. done \in Nat /\ b * c.batch = done + c.batch
  BY <1>2
<1>4. BatchLen(c, l, b) = IF b * c.batch < n THEN c.batch ELSE n - done
  BY DEF BatchLen
<1>5. done < Limit(c, n)
  OBVIOUS
<1>6. c.dropLast => done + c.batch <= n
  <2> HIDE DEF n, done
  <2> QED BY <1>2, <1>3, <1>5 DEF Limit
<1> HIDE DEF n, done
<1>7. BatchLen(c, l, b) \in 1..c.batch /\ done + BatchLen(c, l, b) <= n
  BY <1>2, <1>3, <1>4, <1>5
<1>8. b * c.batch <= n \/ c.dropLast => BatchLen(c, l, b) = c.batch
  BY <1>2, <1>3, <1>4, <1>6
<1>9. b * c.batch > n => done + BatchLen(c, l, b) = n
  BY <1>2, <1>3, <1>4
<1> QED BY <1>7, <1>8, <1>9 DEF n, done

(* What the transforms draw for a batch.                                        *)
LEMMA DrawsOfBatch ==
  ASSUME NEW c \in Confs, NEW n \in Nat
  PROVE  /\ AllDraws(c.transforms, n) \in Nat
         /\ AllDraws(c.transforms, n) = IF c.transforms = <<>> THEN 0 ELSE 3 * n
         /\ c.transforms # <<>> => c.transforms = <<"crop", "flip">>
<1>1. c.transforms \in {<<>>, <<"crop", "flip">>}
  BY DEF Confs
<1>2. CASE c.transforms = <<>>
  <2>1. Len(c.transforms) = 0
    BY <1>2
  <2> QED BY <1>2, <2>1 DEF AllDraws
<1>3. CASE c.transforms = <<"crop", "flip">>
  <2>1. Len(c.transforms) = 2 /\ c.transforms[1] = "crop" /\ c.transforms[2] = "flip" /\ c.transforms # <<>>
    BY <1>3
  <2>2. AllDraws(c.transforms, n) = Draws("crop", n) + Draws("flip", n)
    BY <2>1 DEF AllDraws
  <2> QED BY <1>3, <2>1, <2>2 DEF Draws
<1> QED BY <1>1, <1>2, <1>3

\* A batch draws what its transforms draw, between what was drawn before it and after.
LEMMA DrawnBetween ==
  ASSUME NEW c \in Confs, NEW b \in Nat \ {0}
  PROVE  /\ DrawnBefore(c, b) \in Nat
         /\ DrawnBefore(c, b + 1) = DrawnBefore(c, b) + AllDraws(c.transforms, c.batch)
<1>1. c.batch \in Nat
  BY LimitWithin
<1>2. AllDraws(c.transforms, c.batch) \in Nat
  BY <1>1, DrawsOfBatch
<1> DEFINE each == AllDraws(c.transforms, c.batch)
<1> HIDE DEF each
<1>3. (b - 1) * each \in Nat /\ (b + 1 - 1) * each = (b - 1) * each + each
  BY <1>2 DEF each
<1> QED BY <1>3 DEF DrawnBefore, each

\* Before the first iterator, nothing has been drawn.
LEMMA DlInvInit == DlInit => DlInv
<1> SUFFICES ASSUME DlInit PROVE DlInv
  OBVIOUS
<1>1. conf \in Confs /\ SplitAccepted(conf)
  BY DEF DlInit, Confs
<1>2. epoch \in [Loaders2 -> Nat]
  BY DEF DlInit
<1>3. iters \in Seq(Iterator(conf)) /\ 1..Len(iters) = {}
  <2>1. iters = <<>>
    BY DEF DlInit
  <2> QED BY <2>1
<1> QED BY <1>1, <1>2, <1>3 DEF DlInv

(* A step that moves one iterator, to where an iterator can be.                 *)
LEMMA OneMoves ==
  ASSUME DlInv, NEW it \in 1..Len(iters), UNCHANGED <<conf, epoch>>,
         NEW moved, moved \in Iterator(conf), IterOf(conf, moved),
         iters' = [iters EXCEPT ![it] = moved]
  PROVE  DlInv'
<1>1. iters \in Seq(Iterator(conf))
  BY DEF DlInv
<1>2. iters' \in Seq(Iterator(conf)) /\ Len(iters') = Len(iters)
  BY <1>1
<1>3. ASSUME NEW k \in 1..Len(iters')
      PROVE  IterOf(conf, iters'[k])
  BY <1>1, <1>2 DEF DlInv
<1> QED BY <1>2, <1>3 DEF DlInv

\* Iterating a loader opens an iterator over the order of its epoch.
LEMMA IterKeeps == ASSUME DlInv, NEW l \in Loaders2, Iter(l) PROVE DlInv'
<1> DEFINE opened == [of |-> l, epoch |-> epoch[l], order |-> Order(conf, l, epoch[l]),
                      start |-> 0, drawn |-> 0, batches |-> <<>>, open |-> TRUE, whole |-> FALSE]
<1>1. epoch[l] \in Nat /\ iters \in Seq(Iterator(conf)) /\ conf \in Confs
  BY DEF DlInv
<1>2. iters' = Append(iters, opened) /\ conf' = conf /\ epoch' = [epoch EXCEPT ![l] = @ + 1]
  BY DEF Iter
<1>3. opened \in Iterator(conf)
  BY <1>1 DEF Iterator, Orders
<1>4. IterOf(conf, opened)
  <2>1. Len(opened.batches) = 0 /\ conf.batch \in Nat
    BY <1>1, LimitWithin
  <2>2. DrawnBefore(conf, 1) = 0
    <3>1. AllDraws(conf.transforms, conf.batch) \in Nat
      BY <1>1, <2>1, DrawsOfBatch
    <3> QED BY <3>1 DEF DrawnBefore
  <2> QED BY <2>1, <2>2 DEF IterOf
<1> HIDE DEF opened
<1>5. iters' \in Seq(Iterator(conf)) /\ Len(iters') = Len(iters) + 1
      /\ (\A k \in 1..Len(iters) : iters'[k] = iters[k]) /\ iters'[Len(iters) + 1] = opened
  BY <1>1, <1>2, <1>3
<1>6. \A k \in 1..Len(iters') : IterOf(conf, iters'[k])
  BY <1>1, <1>4, <1>5 DEF DlInv
<1>7. epoch' \in [Loaders2 -> Nat]
  BY <1>1, <1>2 DEF DlInv
<1> QED BY <1>2, <1>5, <1>6, <1>7 DEF DlInv

(* The end of a pass, and one that is given up.                                 *)
LEMMA EndKeeps ==
  ASSUME DlInv, NEW it \in 1..Len(iters), Exhaust(it) \/ Abandon(it) PROVE DlInv'
<1> DEFINE i == iters[it]
<1>1. i \in Iterator(conf) /\ IterOf(conf, i) /\ iters \in Seq(Iterator(conf)) /\ UNCHANGED <<conf, epoch>>
  BY DEF DlInv, Exhaust, Abandon
<1>2. CASE Exhaust(it)
  <2> DEFINE moved == [i EXCEPT !.open = FALSE, !.whole = TRUE]
  <2>1. iters' = [iters EXCEPT ![it] = moved]
    BY <1>1, <1>2 DEF Exhaust
  <2>2. i.start >= Limit(conf, Len(Dataset(conf, i.of)))
    <3>1. i.order = Order(conf, i.of, i.epoch) /\ i.of \in Loaders2 /\ i.epoch \in Nat
      BY <1>1 DEF IterOf, Iterator
    <3>2. Len(i.order) = Len(Dataset(conf, i.of))
      BY <3>1, OrderOnce DEF DlInv
    <3> QED BY <1>2, <3>2 DEF Exhaust
  <2>3. /\ moved \in Iterator(conf) /\ moved.of = i.of /\ moved.epoch = i.epoch /\ moved.order = i.order
        /\ moved.start = i.start /\ moved.batches = i.batches /\ moved.drawn = i.drawn
    BY <1>1 DEF Iterator
  <2> HIDE DEF moved, i
  <2>4. IterOf(conf, moved)
    BY <1>1, <2>2, <2>3 DEF IterOf
  <2> QED BY <1>1, <2>1, <2>3, <2>4, OneMoves
<1>3. CASE Abandon(it)
  <2> DEFINE moved == [i EXCEPT !.open = FALSE]
  <2>1. iters' = [iters EXCEPT ![it] = moved]
    BY <1>1, <1>3 DEF Abandon
  <2>3. /\ moved \in Iterator(conf) /\ moved.of = i.of /\ moved.epoch = i.epoch /\ moved.order = i.order
        /\ moved.start = i.start /\ moved.batches = i.batches /\ moved.drawn = i.drawn /\ moved.whole = i.whole
    BY <1>1 DEF Iterator
  <2> HIDE DEF moved, i
  <2>4. IterOf(conf, moved)
    BY <1>1, <2>3 DEF IterOf
  <2> QED BY <1>1, <2>1, <2>3, <2>4, OneMoves
<1> QED BY <1>2, <1>3

\* A batch takes the next places of its iterator's order, and draws for them.
LEMMA BatchKeeps == ASSUME DlInv, NEW it \in 1..Len(iters), Batch(it) PROVE DlInv'
<1> DEFINE i == iters[it]
           n == Len(i.order)
           stop == IF i.start + conf.batch < n THEN i.start + conf.batch ELSE n
           picks == SubSeq(i.order, i.start + 1, stop)
           picked == [samples |-> [k \in 1..Len(picks) |-> Dataset(conf, i.of)[picks[k]]],
                      decided |-> Decisions(conf.transforms, i.drawn, Len(picks))]
           b == Len(i.batches) + 1
           done == (b - 1) * conf.batch
           moved == [i EXCEPT !.start = @ + conf.batch, !.drawn = @ + AllDraws(conf.transforms, Len(picks)),
                              !.batches = Append(@, picked)]
<1>1. i \in Iterator(conf) /\ IterOf(conf, i) /\ iters \in Seq(Iterator(conf)) /\ UNCHANGED <<conf, epoch>>
      /\ conf \in Confs /\ SplitAccepted(conf)
  <2>1. i \in Iterator(conf) /\ IterOf(conf, i) /\ iters \in Seq(Iterator(conf)) /\ conf \in Confs /\ SplitAccepted(conf)
    BY DEF DlInv
  <2>2. UNCHANGED <<conf, epoch>>
    BY DEF Batch
  <2> QED BY <2>1, <2>2
<1>2. i.start < Limit(conf, n) /\ iters' = [iters EXCEPT ![it] = moved]
  BY <1>1 DEF Batch, Stream, Iterator
<1>3. /\ i.of \in Loaders2 /\ i.epoch \in Nat /\ i.batches \in Seq(Batches(conf))
      /\ i.start \in Nat /\ i.drawn \in Nat
  BY <1>1 DEF Iterator
<1>4. i.order = Order(conf, i.of, i.epoch) /\ i.start = done
  BY <1>1, <1>3 DEF IterOf
<1>5. n = Len(Dataset(conf, i.of)) /\ i.order \in [1..n -> 1..n] /\ n \in Nat
  <2>1. /\ Order(conf, i.of, i.epoch) \in [1..Len(Dataset(conf, i.of)) -> 1..Len(Dataset(conf, i.of))]
        /\ Len(Order(conf, i.of, i.epoch)) = Len(Dataset(conf, i.of))
    BY <1>1, <1>3, OrderOnce
  <2>2. Len(Dataset(conf, i.of)) \in 1..Samples /\ Samples \in Nat
    BY <1>1, <1>3, TwoHalves, DataAssumption
  <2> QED BY <1>4, <2>1, <2>2
<1>6. b \in Nat \ {0} /\ conf.batch \in Nat \ {0} /\ Limit(conf, n) \in 0..n
  <2>1. b \in Nat \ {0}
    BY <1>3
  <2> HIDE DEF n, b
  <2> QED BY <1>1, <1>5, <2>1, LimitWithin
<1> HIDE DEF i, n, b
<1>7. done \in Nat /\ b * conf.batch = done + conf.batch /\ done < n /\ done < Limit(conf, n)
  <2>1. done \in Nat /\ b * conf.batch = done + conf.batch
    BY <1>6
  <2> HIDE DEF done
  <2> QED BY <1>2, <1>4, <1>5, <1>6, <2>1
<1>8. stop = done + BatchLen(conf, i.of, b) /\ BatchLen(conf, i.of, b) \in Nat \ {0} /\ stop <= n
  <2>1. BatchLen(conf, i.of, b) = IF b * conf.batch < n THEN conf.batch ELSE n - done
    BY <1>5 DEF BatchLen
  <2> HIDE DEF done
  <2> QED BY <1>4, <1>5, <1>6, <1>7, <2>1
<1>9. /\ Len(picks) = BatchLen(conf, i.of, b)
      /\ \A k \in 1..BatchLen(conf, i.of, b) : picks[k] = i.order[done + k]
  <2> HIDE DEF done, stop
  <2>1. i.order \in Seq(1..n) /\ Len(i.order) = n
    BY <1>5
  <2>2. picks = SubSeq(i.order, done + 1, stop)
    BY <1>4
  <2> DEFINE m == done + 1
  <2>3. m \in 1..(n + 1) /\ stop \in (m - 1)..n
    BY <1>5, <1>7, <1>8
  <2> HIDE DEF m
  <2>4. Len(SubSeq(i.order, m, stop)) = stop - m + 1
        /\ \A k \in 1..(stop - m + 1) : SubSeq(i.order, m, stop)[k] = i.order[m + k - 1]
    <3> DEFINE order == i.order
    <3>1. m \in Int /\ stop \in Int /\ \A k \in m..stop : order[k] \in 1..n
      BY <1>5, <2>1, <2>3, SMTT(60)
    <3>2. m <= stop
      BY <1>7, <1>8 DEF m
    <3> HIDE DEF order, stop
    <3>3. Len(SubSeq(order, m, stop)) = IF m <= stop THEN stop - m + 1 ELSE 0
      BY <3>1, SubSeqProperties
    <3>4. \A k \in 1..(stop - m + 1) : SubSeq(order, m, stop)[k] = order[m + k - 1]
      BY <3>1, SubSeqProperties
    <3> QED BY <3>1, <3>2, <3>3, <3>4 DEF order
  <2>5. stop - m + 1 = BatchLen(conf, i.of, b) /\ \A k \in 1..BatchLen(conf, i.of, b) : m + k - 1 = done + k
    BY <1>7, <1>8 DEF m
  <2> QED BY <2>2, <2>4, <2>5 DEF m
<1>10. i.drawn = DrawnBefore(conf, b)
  BY <1>1, <1>4, <1>5, <1>7 DEF IterOf, b
<1> HIDE DEF picks
<1>11. picked = BatchOf(conf, i.of, i.epoch, b)
  <2>1. picked.samples = [k \in 1..BatchLen(conf, i.of, b) |->
                            Dataset(conf, i.of)[Order(conf, i.of, i.epoch)[(b - 1) * conf.batch + k]]]
    BY <1>4, <1>9
  <2> QED BY <1>9, <1>10, <2>1 DEF BatchOf
<1>12. picked \in Batches(conf)
  BY <1>3, <1>6, <1>11 DEF Batches
<1>13. AllDraws(conf.transforms, Len(picks)) \in Nat
  BY <1>1, <1>8, <1>9, DrawsOfBatch
<1> HIDE DEF picked
<1>14. /\ moved \in Iterator(conf) /\ moved.of = i.of /\ moved.epoch = i.epoch /\ moved.order = i.order
       /\ moved.start = i.start + conf.batch /\ moved.batches = Append(i.batches, picked)
       /\ moved.drawn = i.drawn + AllDraws(conf.transforms, Len(picks)) /\ moved.whole = i.whole
  <2> DEFINE to == i.start + conf.batch
             drawn == i.drawn + AllDraws(conf.transforms, Len(picks))
             batches == Append(i.batches, picked)
  <2>1. to \in Nat /\ drawn \in Nat /\ batches \in Seq(Batches(conf))
    BY <1>3, <1>6, <1>12, <1>13, SMTT(60)
  <2>2. moved = [i EXCEPT !.start = to, !.drawn = drawn, !.batches = batches]
    OBVIOUS
  <2> HIDE DEF to, drawn, batches, moved
  <2>3. moved \in Iterator(conf)
    BY <1>1, <2>1, <2>2 DEF Iterator
  <2>4. /\ moved.of = i.of /\ moved.epoch = i.epoch /\ moved.order = i.order
        /\ moved.start = to /\ moved.drawn = drawn /\ moved.batches = batches
    BY <1>1, <2>1, <2>2 DEF Iterator
  <2>5. moved.whole = i.whole
    BY <1>1, <2>1, <2>2 DEF Iterator
  <2> QED BY <2>3, <2>4, <2>5 DEF to, drawn, batches
<1> HIDE DEF moved
<1>15. /\ Len(moved.batches) = b /\ moved.batches[b] = picked
       /\ \A a \in 1..(b - 1) : moved.batches[a] = i.batches[a]
  BY <1>3, <1>12, <1>14 DEF b
<1>16. ASSUME NEW a \in 1..b
       PROVE  /\ moved.batches[a] = BatchOf(conf, i.of, i.epoch, a)
              /\ (a - 1) * conf.batch < Limit(conf, n)
  <2>1. CASE a = b
    BY <1>7, <1>11, <1>15, <2>1
  <2>2. CASE a # b
    <3>1. a \in 1..Len(i.batches)
      BY <1>3, <1>6, <2>2 DEF b
    <3> QED BY <1>1, <1>5, <1>15, <1>6, <2>2, <3>1 DEF IterOf
  <2> QED BY <2>1, <2>2
<1>17. ASSUME done + conf.batch < n
       PROVE  moved.drawn = DrawnBefore(conf, b + 1)
  <2>1. Len(picks) = conf.batch
    BY <1>7, <1>9, <1>17, <1>5 DEF BatchLen
  <2> QED BY <1>1, <1>6, <1>10, <1>14, <2>1, DrawnBetween
<1>18. ~i.whole
  BY <1>1, <1>2, <1>3, <1>5, <1>6 DEF IterOf
<1>19. IterOf(conf, moved)
  BY <1>4, <1>5, <1>7, <1>14, <1>15, <1>16, <1>17, <1>18 DEF IterOf
<1> QED BY <1>1, <1>2, <1>14, <1>19, OneMoves

\* Every step of the loaders preserves the invariant.
LEMMA DlInvNext == DlInv /\ [DlNext]_dlVars => DlInv'
<1> SUFFICES ASSUME DlInv, [DlNext]_dlVars PROVE DlInv'
  OBVIOUS
<1>1. CASE UNCHANGED dlVars
  BY <1>1 DEF dlVars, DlInv
<1>2. ASSUME NEW l \in Loaders2, Iter(l) PROVE DlInv'
  BY <1>2, IterKeeps
<1>3. ASSUME NEW l \in Loaders2, NEW e \in 0..MaxEpoch, SetEpoch(l, e) PROVE DlInv'
  <2>1. MaxEpoch \in Nat
    BY DataAssumption
  <2> QED BY <1>3, <2>1 DEF SetEpoch, DlInv
<1>4. ASSUME NEW it \in 1..Len(iters), Batch(it) \/ Exhaust(it) \/ Abandon(it) PROVE DlInv'
  BY <1>4, BatchKeeps, EndKeeps
<1> QED BY <1>1, <1>2, <1>3, <1>4 DEF DlNext

(* The inductive invariant holds throughout: every batch of every iterator is   *)
(* determined by its loader, its epoch and its number.                          *)
THEOREM BatchesDetermined == DlSpec => []DlInv
BY DlInvInit, DlInvNext, PTL DEF DlSpec

(* The place of a sample in its pass: batch by batch, in the pass's order.      *)
Place(c, w) == (w[1] - 1) * c.batch + w[2]

\* A sample that an iterator took is the one at its place in the order of the pass.
LEMMA TakenAt ==
  ASSUME DlInv, NEW it \in 1..Len(iters), NEW w \in Taken(it)
  PROVE  LET l == iters[it].of  n == Len(Dataset(conf, l)) IN
         /\ w = <<w[1], w[2]>> /\ w[1] \in 1..Len(iters[it].batches) /\ w[2] \in 1..conf.batch
         /\ Place(conf, w) \in 1..n
         /\ SampleAt(it, w) = Dataset(conf, l)[Order(conf, l, iters[it].epoch)[Place(conf, w)]]
<1> DEFINE i == iters[it]
           l == i.of
           n == Len(Dataset(conf, l))
           b == w[1]
           k == w[2]
<1>1. i \in Iterator(conf) /\ IterOf(conf, i) /\ conf \in Confs /\ SplitAccepted(conf)
  BY DEF DlInv
<1>2. l \in Loaders2 /\ i.epoch \in Nat /\ i.batches \in Seq(Batches(conf))
  BY <1>1 DEF Iterator
<1>3. w = <<b, k>> /\ b \in 1..Len(i.batches) /\ k \in 1..Samples /\ k <= Len(i.batches[b].samples)
  BY DEF Taken
<1>4. Samples \in Nat /\ n \in 1..Samples
  BY <1>1, <1>2, TwoHalves, DataAssumption
<1> HIDE DEF b, k, n, l, i
<1>5. b \in Nat \ {0} /\ k \in Nat \ {0} /\ conf.batch \in Nat \ {0}
  BY <1>1, <1>2, <1>3, <1>4, LimitWithin, SMTT(60)
<1>6. i.batches[b] = BatchOf(conf, l, i.epoch, b) /\ (b - 1) * conf.batch < Limit(conf, n)
  BY <1>1, <1>3 DEF IterOf, l, n
<1>7. BatchLen(conf, l, b) \in 1..conf.batch /\ (b - 1) * conf.batch + BatchLen(conf, l, b) <= n
  BY <1>1, <1>2, <1>5, <1>6, BatchFits DEF n
<1>8. Len(i.batches[b].samples) = BatchLen(conf, l, b)
  BY <1>5, <1>6, <1>7 DEF BatchOf
<1>9. k \in 1..BatchLen(conf, l, b)
  BY <1>3, <1>5, <1>7, <1>8
<1>10. i.batches[b].samples[k] = Dataset(conf, l)[Order(conf, l, i.epoch)[(b - 1) * conf.batch + k]]
  BY <1>6, <1>9 DEF BatchOf
<1> DEFINE done == (b - 1) * conf.batch
<1>11. done \in Nat
  BY <1>5
<1> HIDE DEF done
<1>12. done + k \in 1..n /\ k \in 1..conf.batch
  BY <1>4, <1>5, <1>7, <1>9, <1>11, SMTT(60) DEF done
<1>13. Place(conf, w) = done + k /\ SampleAt(it, w) = i.batches[b].samples[k]
  BY DEF Place, SampleAt, done, b, k, i
<1> QED BY <1>3, <1>10, <1>12, <1>13 DEF i, l, n, b, k, done

(* What a pass has taken: the places before its end, or all of its half.        *)
LEMMA TakenCount ==
  ASSUME DlInv, NEW it \in 1..Len(iters)
  PROVE  LET i == iters[it]  n == Len(Dataset(conf, i.of))  full == Len(i.batches) * conf.batch IN
         Cardinality(Taken(it)) = IF full < n THEN full ELSE n
<1> DEFINE i == iters[it]
           n == Len(Dataset(conf, i.of))
           size == conf.batch
           full == Len(i.batches) * size
           count == IF full < n THEN full ELSE n
           place == [w \in Taken(it) |-> Place(conf, w)]
<1>1. i \in Iterator(conf) /\ IterOf(conf, i) /\ conf \in Confs /\ SplitAccepted(conf)
  BY DEF DlInv
<1>2. i.of \in Loaders2 /\ Len(i.batches) \in Nat
  BY <1>1 DEF Iterator
<1>3. Samples \in Nat /\ n \in 1..Samples /\ size \in Nat \ {0}
  BY <1>1, <1>2, TwoHalves, DataAssumption, LimitWithin
<1>4. full \in Nat /\ count \in Nat
  BY <1>2, <1>3
<1>5. ASSUME NEW w \in Taken(it)
      PROVE  Place(conf, w) \in 1..count
  <2>1. w[1] \in 1..Len(i.batches) /\ w[2] \in 1..size /\ Place(conf, w) \in 1..n
    BY TakenAt
  <2>2. (w[1] - 1) * size + w[2] <= full
    <3> DEFINE b == w[1]
               k == w[2]
               len == Len(i.batches)
    <3>1. b \in Nat \ {0} /\ b <= len /\ k \in 1..size /\ len \in Nat
      BY <1>2, <2>1
    <3> HIDE DEF b, k, len, size
    <3>2. (b - 1) * size + k <= len * size
      BY <1>3, <3>1, PlaceWithin
    <3> QED BY <3>2 DEF b, k, len
  <2> QED BY <1>3, <1>4, <2>1, <2>2 DEF Place
<1>6. ASSUME NEW w \in Taken(it), NEW u \in Taken(it), Place(conf, w) = Place(conf, u)
      PROVE  w = u
  <2>1. w[1] \in 1..Len(i.batches) /\ w[2] \in 1..size /\ w = <<w[1], w[2]>>
    BY TakenAt
  <2>2. u[1] \in 1..Len(i.batches) /\ u[2] \in 1..size /\ u = <<u[1], u[2]>>
    BY TakenAt
  <2>3. w[1] \in Nat \ {0} /\ u[1] \in Nat \ {0}
    BY <1>2, <2>1, <2>2
  <2>4. w[1] = u[1] /\ w[2] = u[2]
    <3> DEFINE a == w[1]
               k == w[2]
               b == u[1]
               m == u[2]
    <3>1. (a - 1) * size + k = (b - 1) * size + m
      BY <1>6 DEF Place
    <3>2. a \in Nat \ {0} /\ b \in Nat \ {0} /\ k \in 1..size /\ m \in 1..size
      BY <2>1, <2>2, <2>3
    <3> HIDE DEF a, k, b, m, size
    <3>3. a = b /\ k = m
      BY <1>3, <3>1, <3>2, PlaceOnce
    <3> QED BY <3>3 DEF a, k, b, m
  <2> QED BY <2>1, <2>2, <2>4
<1>7. ASSUME NEW p \in 1..count
      PROVE  \E w \in Taken(it) : Place(conf, w) = p
  <2>0. p \in Nat \ {0}
    BY <1>4
  <2> PICK b \in Nat \ {0}, k \in 1..size : p = (b - 1) * size + k
    <3> HIDE DEF size
    <3> QED BY <1>3, <2>0, PlaceExists
  <2> DEFINE done == (b - 1) * size
  <2>1. p = done + k
    OBVIOUS
  <2>2. done \in Nat /\ p <= full /\ p <= n /\ p \in Nat
    BY <1>3, <1>4, <2>1, SMTT(60)
  <2>3. b <= Len(i.batches)
    <3> DEFINE len == Len(i.batches)
    <3>1. len \in Nat /\ (b - 1) * size + k <= len * size
      BY <1>2, <2>1, <2>2
    <3> HIDE DEF len, size
    <3>2. b <= len
      BY <1>3, <3>1, PlaceWithin
    <3> QED BY <3>2 DEF len
  <2>4. k <= Len(i.batches[b].samples) /\ k \in 1..Samples
    <3>1. i.batches[b] = BatchOf(conf, i.of, i.epoch, b)
      BY <1>1, <1>2, <2>1, <2>3 DEF IterOf
    <3>2. BatchLen(conf, i.of, b) = IF b * size < n THEN size ELSE n - done
      BY DEF BatchLen
    <3>3. k <= BatchLen(conf, i.of, b) /\ BatchLen(conf, i.of, b) \in Nat
      <4> HIDE DEF done, n, size
      <4> QED BY <1>3, <2>1, <2>2, <3>2
    <3>4. Len(i.batches[b].samples) = BatchLen(conf, i.of, b)
      BY <3>1, <3>3 DEF BatchOf
    <3>5. k \in 1..Samples
      <4> HIDE DEF done, n, size
      <4> QED BY <1>3, <2>1, <2>2
    <3> QED BY <3>3, <3>4, <3>5
  <2>5. <<b, k>> \in Taken(it)
    BY <1>2, <2>1, <2>3, <2>4 DEF Taken
  <2>6. Place(conf, <<b, k>>) = p
    BY <2>1 DEF Place
  <2> QED BY <2>5, <2>6
<1>8. place \in Bijection(Taken(it), 1..count)
  BY <1>5, <1>6, <1>7, Fun_IsBij
<1> HIDE DEF place, count
<1>9. IsFiniteSet(1..count) /\ Cardinality(1..count) = count
  <2>1. count \in Int /\ 1 \in Int
    BY <1>4
  <2>2. IsFiniteSet(1..count) /\ Cardinality(1..count) = IF 1 > count THEN 0 ELSE count - 1 + 1
    BY <2>1, FS_Interval
  <2> QED BY <1>4, <2>2
<1>10. ExistsBijection(1..count, Taken(it))
  <2>1. ExistsBijection(Taken(it), 1..count)
    BY <1>8, Fun_ExistsBij
  <2> QED BY <2>1, Fun_ExistsBijSymmetric
<1>11. Cardinality(Taken(it)) = count
  BY <1>9, <1>10, FS_Bijection
<1> QED BY <1>11 DEF count

(* No sample twice in a pass. *)
LEMMA TakenOnce ==
  ASSUME DlInv, NEW it \in 1..Len(iters), NEW w \in Taken(it), NEW u \in Taken(it), w # u
  PROVE  SampleAt(it, w) # SampleAt(it, u)
<1> DEFINE i == iters[it]
           l == i.of
           n == Len(Dataset(conf, l))
           order == Order(conf, l, i.epoch)
<1>1. i \in Iterator(conf) /\ conf \in Confs /\ SplitAccepted(conf)
  BY DEF DlInv
<1>2. l \in Loaders2 /\ i.epoch \in Nat /\ Len(i.batches) \in Nat /\ conf.batch \in Nat \ {0}
  <2>1. conf.batch \in Nat \ {0}
    BY <1>1, LimitWithin
  <2> QED BY <1>1, <2>1 DEF Iterator
<1>3. /\ w = <<w[1], w[2]>> /\ w[1] \in 1..Len(i.batches) /\ w[2] \in 1..conf.batch
      /\ Place(conf, w) \in 1..n /\ SampleAt(it, w) = Dataset(conf, l)[order[Place(conf, w)]]
  BY TakenAt
<1>4. /\ u = <<u[1], u[2]>> /\ u[1] \in 1..Len(i.batches) /\ u[2] \in 1..conf.batch
      /\ Place(conf, u) \in 1..n /\ SampleAt(it, u) = Dataset(conf, l)[order[Place(conf, u)]]
  BY TakenAt
<1>5. w[1] \in Nat \ {0} /\ u[1] \in Nat \ {0}
  BY <1>2, <1>3, <1>4, SMTT(60)
<1>6. Place(conf, w) # Place(conf, u)
  <2> DEFINE a == w[1]
             k == w[2]
             b == u[1]
             m == u[2]
             size == conf.batch
  <2>1. a # b \/ k # m
    BY <1>3, <1>4
  <2>2. a \in Nat \ {0} /\ b \in Nat \ {0} /\ k \in 1..size /\ m \in 1..size
    BY <1>3, <1>4, <1>5
  <2> HIDE DEF a, k, b, m, size
  <2>3. (a - 1) * size + k # (b - 1) * size + m
    <3>1. size \in Nat \ {0}
      BY <1>2 DEF size
    <3> QED BY <2>1, <2>2, <3>1, PlaceOnce
  <2> QED BY <2>3 DEF Place, a, k, b, m, size
<1>7. /\ order \in [1..n -> 1..n]
      /\ \A p, q \in 1..n : order[p] = order[q] => p = q
  BY <1>1, <1>2, OrderOnce
<1>8. \A p, q \in 1..n : Dataset(conf, l)[p] = Dataset(conf, l)[q] => p = q
  BY <1>1, <1>2, TwoHalves
<1> HIDE DEF order, n
<1> QED BY <1>3, <1>4, <1>6, <1>7, <1>8

(* No sample in both halves. *)
LEMMA HalvesApart ==
  ASSUME DlInv, NEW i \in 1..Len(iters), NEW j \in 1..Len(iters), iters[i].of = "train", iters[j].of = "val",
         NEW w \in Taken(i), NEW u \in Taken(j)
  PROVE  SampleAt(i, w) # SampleAt(j, u)
<1> DEFINE n == Len(Dataset(conf, "train"))
           m == Len(Dataset(conf, "val"))
           first == Order(conf, "train", iters[i].epoch)
           second == Order(conf, "val", iters[j].epoch)
<1>1. iters[i].epoch \in Nat /\ iters[j].epoch \in Nat /\ conf \in Confs /\ SplitAccepted(conf)
  <2>1. iters[i] \in Iterator(conf) /\ iters[j] \in Iterator(conf)
    BY DEF DlInv
  <2> QED BY <2>1 DEF Iterator, DlInv
<1>2. Place(conf, w) \in 1..n /\ SampleAt(i, w) = Dataset(conf, "train")[first[Place(conf, w)]]
  BY TakenAt
<1>3. Place(conf, u) \in 1..m /\ SampleAt(j, u) = Dataset(conf, "val")[second[Place(conf, u)]]
  BY TakenAt
<1>4. first \in [1..n -> 1..n] /\ second \in [1..m -> 1..m]
  BY <1>1, OrderOnce DEF Loaders2
<1>5. \A p \in 1..n, q \in 1..m : Dataset(conf, "train")[p] # Dataset(conf, "val")[q]
  BY <1>1, TwoHalves
<1> HIDE DEF n, m, first, second
<1> QED BY <1>2, <1>3, <1>4, <1>5

(* A pass that ended was over its whole half, in len(loader) batches.           *)
LEMMA WholePass ==
  ASSUME DlInv, NEW it \in 1..Len(iters), iters[it].whole
  PROVE  LET n == Len(Dataset(conf, iters[it].of)) IN
         /\ Len(iters[it].batches) = LoaderLen(conf, iters[it].of)
         /\ IF conf.dropLast
            THEN /\ Cardinality(Taken(it)) + conf.batch > n
                 /\ \A b \in 1..Len(iters[it].batches) : Len(iters[it].batches[b].samples) = conf.batch
            ELSE Cardinality(Taken(it)) = n
<1> DEFINE i == iters[it]
           l == i.of
           n == Len(Dataset(conf, l))
           len == Len(i.batches)
           size == conf.batch
           full == len * size
<1>1. i \in Iterator(conf) /\ IterOf(conf, i) /\ conf \in Confs /\ SplitAccepted(conf)
  BY DEF DlInv
<1>2. l \in Loaders2 /\ i.epoch \in Nat /\ len \in Nat
  BY <1>1 DEF Iterator
<1>3. Samples \in Nat /\ n \in 1..Samples /\ size \in Nat \ {0}
  BY <1>1, <1>2, TwoHalves, DataAssumption, LimitWithin
<1>4. Cardinality(Taken(it)) = IF full < n THEN full ELSE n
  BY TakenCount
<1>5. full >= Limit(conf, n)
  BY <1>1 DEF IterOf
<1>6. \A b \in 1..len : i.batches[b] = BatchOf(conf, l, i.epoch, b) /\ (b - 1) * size < Limit(conf, n)
  BY <1>1 DEF IterOf
<1>7. LoaderLen(conf, l) = IF conf.dropLast THEN n \div size ELSE (n + size - 1) \div size
  BY DEF LoaderLen
<1> HIDE DEF i, l, n, len, size
<1>8. full \in Nat /\ n \in Nat /\ full + size \in Nat
  BY <1>2, <1>3
<1>9. CASE conf.dropLast
  <2>1. ASSUME NEW b \in 1..len
        PROVE  Len(i.batches[b].samples) = size /\ b * size <= n
    <3>1. b \in Nat \ {0}
      BY <1>2
    <3>2. BatchLen(conf, l, b) = size /\ (b - 1) * size + BatchLen(conf, l, b) <= n
      BY <1>1, <1>2, <1>6, <1>9, <3>1, BatchFits DEF n, size
    <3>3. Len(i.batches[b].samples) = size
      <4>1. i.batches[b] = BatchOf(conf, l, i.epoch, b)
        BY <1>6
      <4>2. BatchOf(conf, l, i.epoch, b).samples = [k \in 1..size |-> BatchOf(conf, l, i.epoch, b).samples[k]]
        BY <3>2 DEF BatchOf
      <4> QED BY <1>3, <4>1, <4>2
    <3>4. b * size = (b - 1) * size + size
      BY <1>3, <3>1
    <3> QED BY <3>2, <3>3, <3>4
  <2>2. full <= n
    <3>1. CASE len = 0
      BY <1>3, <1>8, <3>1
    <3>2. CASE len # 0
      <4>1. len \in 1..len
        BY <1>2, <3>2
      <4> QED BY <2>1, <4>1
    <3> QED BY <3>1, <3>2
  <2> HIDE DEF full
  <2>3. n < full + size
    BY <1>3, <1>5, <1>8, <1>9 DEF Limit, size
  <2>4. n \div size = len
    BY <1>2, <1>3, <1>8, <2>2, <2>3, Quotient DEF full
  <2>5. Cardinality(Taken(it)) + size > n
    BY <1>3, <1>4, <1>8, <2>2, <2>3
  <2> QED BY <1>7, <1>9, <2>1, <2>4, <2>5 DEF n, len, size, i, l
<1>10. CASE ~conf.dropLast
  <2>1. full >= n
    BY <1>5, <1>10 DEF Limit
  <2>2. len # 0
    BY <1>3, <1>8, <2>1
  <2>3. (len - 1) * size < n /\ (len - 1) * size = full - size
    <3>1. len \in 1..len
      BY <1>2, <2>2
    <3>2. Limit(conf, n) = n
      BY <1>10 DEF Limit
    <3>3. (len - 1) * size = full - size
      BY <1>2, <1>3
    <3> QED BY <1>6, <3>1, <3>2, <3>3
  <2> HIDE DEF full
  <2>4. full <= n + size - 1 /\ n + size - 1 < full + size /\ n + size - 1 \in Nat
    BY <1>3, <1>8, <2>1, <2>3
  <2>5. (n + size - 1) \div size = len
    <3> DEFINE top == n + size - 1
    <3>1. top \in Nat /\ full <= top /\ top < full + size
      BY <2>4
    <3> HIDE DEF top
    <3>2. top \div size = len
      BY <1>2, <1>3, <3>1, Quotient DEF full
    <3> QED BY <3>2 DEF top
  <2>6. Cardinality(Taken(it)) = n
    BY <1>4, <1>8, <2>1
  <2> QED BY <1>7, <1>10, <2>5, <2>6 DEF n, len, size, i, l
<1> QED BY <1>9, <1>10

(* EpochOnce, for any dataset, batch sizes, fractions, seeds and any number of  *)
(* iterators advanced in any order: a pass takes no sample twice, a pass that   *)
(* ended took all there are, and the halves of split() stay apart.              *)
THEOREM EpochsTakeOnce == DlSpec => []EpochOnce
<1>1. ASSUME DlInv PROVE EpochOnce
  <2>1. ASSUME NEW it \in 1..Len(iters), NEW w \in Taken(it), NEW u \in Taken(it), w # u
        PROVE  SampleAt(it, w) # SampleAt(it, u)
    BY <1>1, <2>1, TakenOnce
  <2>2. ASSUME NEW i \in 1..Len(iters), NEW j \in 1..Len(iters), iters[i].of # iters[j].of,
               NEW w \in Taken(i), NEW u \in Taken(j)
        PROVE  SampleAt(i, w) # SampleAt(j, u)
    <3>1. iters[i].of \in Loaders2 /\ iters[j].of \in Loaders2
      <4>1. iters[i] \in Iterator(conf) /\ iters[j] \in Iterator(conf)
        BY <1>1 DEF DlInv
      <4> QED BY <4>1 DEF Iterator
    <3>2. CASE iters[i].of = "train" /\ iters[j].of = "val"
      BY <1>1, <3>2, HalvesApart
    <3>3. CASE iters[i].of = "val" /\ iters[j].of = "train"
      BY <1>1, <3>3, HalvesApart
    <3> QED BY <2>2, <3>1, <3>2, <3>3 DEF Loaders2
  <2> QED BY <1>1, <2>1, <2>2, WholePass DEF EpochOnce
<1> QED BY <1>1, BatchesDetermined, PTL

(* The numbers a batch uses lie behind those of the batches before it.          *)
LEMMA DrawnApart ==
  ASSUME NEW c \in Confs, NEW a \in Nat \ {0}, NEW b \in Nat \ {0}, a < b
  PROVE  DrawnBefore(c, a) + AllDraws(c.transforms, c.batch) <= DrawnBefore(c, b)
<1> DEFINE each == AllDraws(c.transforms, c.batch)
<1>1. each \in Nat
  <2>1. c.batch \in Nat
    BY LimitWithin
  <2> QED BY <2>1, DrawsOfBatch
<1> HIDE DEF each
<1>2. (b - 1 - a) * each >= 0
  BY <1>1
<1>3. (b - 1 - a) * each = (b - 1) * each - (a - 1) * each - each
  BY <1>1
<1>4. (b - 1) * each \in Int /\ (a - 1) * each \in Int
  BY <1>1
<1>5. (a - 1) * each + each <= (b - 1) * each
  BY <1>1, <1>2, <1>3, <1>4
<1> QED BY <1>5 DEF DrawnBefore, each

(* The numbers of each decision of a batch of n images whose stream is at from: *)
(* a crop takes one for the row and one for the column, then the flip takes one.*)
LEMMA DecisionsOf ==
  ASSUME NEW c \in Confs, c.transforms # <<>>, NEW from \in Nat, NEW n \in Nat
  PROVE  LET d == Decisions(c.transforms, from, n) IN
         /\ Len(d) = 2
         /\ DOMAIN d[1] = 1..n /\ \A w \in 1..n : d[1][w] = {from + w, from + n + w}
         /\ DOMAIN d[2] = 1..n /\ \A w \in 1..n : d[2][w] = {from + 2 * n + w}
<1> DEFINE ts == c.transforms
           d == Decisions(ts, from, n)
<1>1. ts = <<"crop", "flip">>
  BY DrawsOfBatch
<1>2. Len(ts) = 2 /\ ts[1] = "crop" /\ ts[2] = "flip"
  BY <1>1
<1>3. DrawsBefore(ts, 1, n) = 0 /\ DrawsBefore(ts, 2, n) = 2 * n
  BY <1>2 DEF DrawsBefore, Draws
<1> HIDE DEF ts
<1>4. d = [k \in 1..2 |-> [w \in 1..n |->
             IF ts[k] = "flip" THEN {from + DrawsBefore(ts, k, n) + w}
             ELSE {from + DrawsBefore(ts, k, n) + w, from + DrawsBefore(ts, k, n) + n + w}]]
  BY <1>2 DEF Decisions
<1> HIDE DEF d
<1>5. Len(d) = 2
  BY <1>4
<1>6. d[1] = [w \in 1..n |-> {from + 0 + w, from + 0 + n + w}]
  BY <1>2, <1>3, <1>4
<1>7. d[2] = [w \in 1..n |-> {from + 2 * n + w}]
  BY <1>2, <1>3, <1>4
<1> QED BY <1>5, <1>6, <1>7 DEF d, ts

(* Within a batch no two decisions share a number, and all of them are after    *)
(* the place its stream was at and no further than the batch draws.             *)
LEMMA DecisionsApart ==
  ASSUME NEW c \in Confs, NEW from \in Nat, NEW n \in Nat,
         NEW k \in 1..Len(Decisions(c.transforms, from, n)),
         NEW m \in 1..Len(Decisions(c.transforms, from, n)),
         NEW w \in DOMAIN Decisions(c.transforms, from, n)[k],
         NEW u \in DOMAIN Decisions(c.transforms, from, n)[m]
  PROVE  /\ Decisions(c.transforms, from, n)[k][w] \subseteq (from + 1)..(from + 3 * n)
         /\ <<k, w>> # <<m, u>> =>
              Decisions(c.transforms, from, n)[k][w] \cap Decisions(c.transforms, from, n)[m][u] = {}
<1> DEFINE d == Decisions(c.transforms, from, n)
<1>1. c.transforms # <<>>
  <2> SUFFICES ASSUME c.transforms = <<>> PROVE FALSE
    OBVIOUS
  <2>1. Len(c.transforms) = 0
    OBVIOUS
  <2>2. d = [h \in 1..0 |-> d[h]]
    BY <2>1 DEF Decisions
  <2> HIDE DEF d
  <2>3. Len(d) = 0
    BY <2>2
  <2> QED BY <2>3 DEF d
<1>2. /\ Len(d) = 2
      /\ DOMAIN d[1] = 1..n /\ \A h \in 1..n : d[1][h] = {from + h, from + n + h}
      /\ DOMAIN d[2] = 1..n /\ \A h \in 1..n : d[2][h] = {from + 2 * n + h}
  BY <1>1, DecisionsOf, ZenonT(60)
<1>3. k \in 1..Len(d) /\ m \in 1..Len(d) /\ w \in DOMAIN d[k] /\ u \in DOMAIN d[m]
  OBVIOUS
<1> HIDE DEF d
<1>4. k \in {1, 2} /\ m \in {1, 2} /\ w \in 1..n /\ u \in 1..n
  BY <1>2, <1>3
<1>5. d[k][w] \subseteq (from + 1)..(from + 3 * n)
  BY <1>2, <1>4, SMTT(60)
<1>6. ASSUME <<k, w>> # <<m, u>> PROVE d[k][w] \cap d[m][u] = {}
  <2>1. CASE k = 1 /\ m = 1
    <3>1. w # u
      BY <1>6, <2>1
    <3>2. d[k][w] = {from + w, from + n + w} /\ d[m][u] = {from + u, from + n + u}
      BY <1>2, <1>4, <2>1
    <3>3. w \in Int /\ u \in Int /\ 1 <= w /\ w <= n /\ 1 <= u /\ u <= n
      BY <1>4
    <3>4. from + w # from + u /\ from + n + w # from + n + u
      BY <3>1, <3>3
    <3>5. from + w # from + n + u /\ from + n + w # from + u
      BY <3>3
    <3> QED BY <3>2, <3>4, <3>5, Zenon
  <2>2. CASE k = 1 /\ m = 2
    <3>1. w \in Int /\ u \in Int /\ 1 <= w /\ w <= n /\ 1 <= u /\ u <= n
      BY <1>4
    <3>2. d[k][w] = {from + w, from + n + w} /\ d[m][u] = {from + 2 * n + u}
      BY <1>2, <1>4, <2>2
    <3>3. from + w # from + 2 * n + u /\ from + n + w # from + 2 * n + u
      BY <3>1
    <3> QED BY <3>2, <3>3, Zenon
  <2>3. CASE k = 2 /\ m = 1
    <3>1. w \in Int /\ u \in Int /\ 1 <= w /\ w <= n /\ 1 <= u /\ u <= n
      BY <1>4
    <3>2. d[k][w] = {from + 2 * n + w} /\ d[m][u] = {from + u, from + n + u}
      BY <1>2, <1>4, <2>3
    <3>3. from + 2 * n + w # from + u /\ from + 2 * n + w # from + n + u
      BY <3>1
    <3> QED BY <3>2, <3>3, Zenon
  <2>4. CASE k = 2 /\ m = 2
    <3>1. w \in Int /\ u \in Int /\ 1 <= w /\ w <= n /\ 1 <= u /\ u <= n
      BY <1>4
    <3>2. d[k][w] = {from + 2 * n + w} /\ d[m][u] = {from + 2 * n + u}
      BY <1>2, <1>4, <2>4
    <3>3. w # u
      BY <1>6, <2>4
    <3>4. from + 2 * n + w # from + 2 * n + u
      BY <3>1, <3>3
    <3> QED BY <3>2, <3>4, Zenon
  <2> QED BY <1>4, <2>1, <2>2, <2>3, <2>4
<1> QED BY <1>5, <1>6 DEF d

(* Two batches of one pass share no number. *)
DecidedOf(c, l, b) == Decisions(c.transforms, DrawnBefore(c, b), BatchLen(c, l, b))
Unshared(d, e) ==
  \A k \in 1..Len(d), m \in 1..Len(e) : \A w \in DOMAIN d[k], u \in DOMAIN e[m] : d[k][w] \cap e[m][u] = {}
\* Two batches of one epoch transform with different draws of the generator.
LEMMA BatchesDecideApart ==
  ASSUME NEW c \in Confs, SplitAccepted(c), NEW l \in Loaders2, NEW a \in Nat \ {0}, NEW b \in Nat \ {0}, a < b,
         (a - 1) * c.batch < Limit(c, Len(Dataset(c, l))), (b - 1) * c.batch < Limit(c, Len(Dataset(c, l)))
  PROVE  Unshared(DecidedOf(c, l, a), DecidedOf(c, l, b))
<1> DEFINE d == DecidedOf(c, l, a)
           e == DecidedOf(c, l, b)
<1> SUFFICES ASSUME NEW k \in 1..Len(d), NEW m \in 1..Len(e), NEW w \in DOMAIN d[k], NEW u \in DOMAIN e[m]
             PROVE  d[k][w] \cap e[m][u] = {}
  BY DEF Unshared
<1> DEFINE n == BatchLen(c, l, a)
           o == BatchLen(c, l, b)
           from == DrawnBefore(c, a)
           to == DrawnBefore(c, b)
           size == c.batch
<1>1. size \in Nat \ {0} /\ n \in 1..size /\ o \in 1..size
  <2>1. size \in Nat \ {0}
    BY LimitWithin
  <2>2. n \in 1..size /\ o \in 1..size
    BY BatchFits
  <2> QED BY <2>1, <2>2
<1>2. from \in Nat /\ to \in Nat /\ from + AllDraws(c.transforms, size) <= to
  BY DrawnBetween, DrawnApart
<1>3. n \in Nat /\ o \in Nat /\ n <= size
  BY <1>1, SMTT(60)
<1> USE DEF DecidedOf
<1> HIDE DEF n, o, from, to, size
<1>4. d[k][w] \subseteq (from + 1)..(from + 3 * n)
  BY <1>2, <1>3, DecisionsApart DEF n, from
<1>5. e[m][u] \subseteq (to + 1)..(to + 3 * o)
  BY <1>2, <1>3, DecisionsApart DEF o, to
<1>6. CASE c.transforms = <<>>
  <2>1. Len(c.transforms) = 0
    BY <1>6
  <2>2. d = [h \in 1..0 |-> d[h]]
    BY <2>1 DEF Decisions
  <2> HIDE DEF d
  <2>3. Len(d) = 0
    BY <2>2
  <2> QED BY <2>3 DEF d
<1>7. CASE c.transforms # <<>>
  <2>1. AllDraws(c.transforms, size) = 3 * size
    BY <1>1, <1>7, DrawsOfBatch
  <2>2. from + 3 * n <= to
    BY <1>1, <1>2, <1>3, <2>1
  <2> QED BY <1>2, <1>3, <1>4, <1>5, <2>2, SMTT(60)
<1> QED BY <1>6, <1>7

(* Replays, for any dataset, batch sizes, seeds, transforms and any number of   *)
(* iterators: what a batch holds and decides is a function of the seed, the     *)
(* loader, the epoch and its number, and no random number is used twice in a    *)
(* pass.                                                                        *)
THEOREM RunsReplay == DlSpec => []Replays
<1>1. ASSUME DlInv PROVE Replays
  <2>1. conf \in Confs /\ SplitAccepted(conf)
    BY <1>1 DEF DlInv
  <2>2. ASSUME NEW i \in 1..Len(iters)
        PROVE  /\ iters[i].of \in Loaders2 /\ Len(iters[i].batches) \in Nat
               /\ \A b \in 1..Len(iters[i].batches) :
                    /\ iters[i].batches[b] = BatchOf(conf, iters[i].of, iters[i].epoch, b)
                    /\ (b - 1) * conf.batch < Limit(conf, Len(Dataset(conf, iters[i].of)))
    <3>1. iters[i] \in Iterator(conf) /\ IterOf(conf, iters[i])
      BY <1>1 DEF DlInv
    <3> QED BY <3>1 DEF Iterator, IterOf
  <2>3. ASSUME NEW i \in 1..Len(iters), NEW j \in 1..Len(iters),
               iters[i].of = iters[j].of, iters[i].epoch = iters[j].epoch,
               NEW b \in 1..Len(iters[i].batches), b <= Len(iters[j].batches)
        PROVE  iters[i].batches[b] = iters[j].batches[b]
    <3>1. b \in 1..Len(iters[j].batches)
      BY <2>2, <2>3
    <3> QED BY <2>2, <2>3, <3>1
  <2>4. ASSUME NEW i \in 1..Len(iters), NEW a \in 1..Len(iters[i].batches), NEW b \in 1..Len(iters[i].batches),
               NEW k \in 1..Len(iters[i].batches[a].decided), NEW m \in 1..Len(iters[i].batches[b].decided),
               NEW w \in DOMAIN iters[i].batches[a].decided[k], NEW u \in DOMAIN iters[i].batches[b].decided[m],
               <<a, k, w>> # <<b, m, u>>
        PROVE  iters[i].batches[a].decided[k][w] \cap iters[i].batches[b].decided[m][u] = {}
    <3> DEFINE l == iters[i].of
               d == iters[i].batches[a].decided
               e == iters[i].batches[b].decided
    <3>1. d = DecidedOf(conf, l, a)
      <4>1. d = BatchOf(conf, l, iters[i].epoch, a).decided
        BY <2>2
      <4> QED BY <4>1 DEF BatchOf, DecidedOf
    <3>2. e = DecidedOf(conf, l, b)
      <4>1. e = BatchOf(conf, l, iters[i].epoch, b).decided
        BY <2>2
      <4> QED BY <4>1 DEF BatchOf, DecidedOf
    <3>3. a \in Nat \ {0} /\ b \in Nat \ {0} /\ l \in Loaders2
      BY <2>2
    <3>4. /\ (a - 1) * conf.batch < Limit(conf, Len(Dataset(conf, l)))
          /\ (b - 1) * conf.batch < Limit(conf, Len(Dataset(conf, l)))
      BY <2>2
    <3>5. k \in 1..Len(d) /\ m \in 1..Len(e) /\ w \in DOMAIN d[k] /\ u \in DOMAIN e[m]
      OBVIOUS
    <3> HIDE DEF d, e, l
    <3>6. CASE a < b
      <4>0. Unshared(DecidedOf(conf, l, a), DecidedOf(conf, l, b))
        BY <2>1, <3>3, <3>4, <3>6, BatchesDecideApart
      <4>1. Unshared(d, e)
        BY <3>1, <3>2, <4>0
      <4>2. d[k][w] \cap e[m][u] = {}
        BY <3>5, <4>1 DEF Unshared
      <4> QED BY <4>2 DEF d, e
    <3>7. CASE b < a
      <4>0. Unshared(DecidedOf(conf, l, b), DecidedOf(conf, l, a))
        BY <2>1, <3>3, <3>4, <3>7, BatchesDecideApart
      <4>1. Unshared(e, d)
        BY <3>1, <3>2, <4>0
      <4>2. e[m][u] \cap d[k][w] = {}
        BY <3>5, <4>1 DEF Unshared
      <4> QED BY <4>2 DEF d, e
    <3>8. CASE a = b
      <4> DEFINE n == BatchLen(conf, l, a)
                 from == DrawnBefore(conf, a)
      <4>1. n \in Nat /\ from \in Nat
        <5>1. n \in 1..conf.batch /\ conf.batch \in Nat
          BY <2>1, <3>3, <3>4, BatchFits, LimitWithin
        <5>2. from \in Nat
          BY <2>1, <3>3, DrawnBetween
        <5> QED BY <5>1, <5>2
      <4>2. d = Decisions(conf.transforms, from, n) /\ e = d
        BY <3>1, <3>2, <3>8 DEF DecidedOf
      <4>3. <<k, w>> # <<m, u>>
        BY <2>4, <3>8
      <4> HIDE DEF n, from
      <4>4. d[k][w] \cap d[m][u] = {}
        BY <2>1, <3>5, <4>1, <4>2, <4>3, DecisionsApart
      <4> QED BY <4>2, <4>4 DEF d, e
    <3> QED BY <3>3, <3>6, <3>7, <3>8
  <2> QED BY <2>3, <2>4 DEF Replays
<1> QED BY <1>1, BatchesDetermined, PTL
===============================================================================
