------------------------------- MODULE Optimizer -------------------------------
(* python/vkml/optim.py: Optimizer.step() and the rules SGD, RMSProp, Adam and  *)
(* AdamW, with the parts of python/vkml/nn.py that own the parameters a step    *)
(* updates (zero_grad, to, load_state_dict).  A training session calls them in  *)
(* any order, and any evaluation a step asks for may fail (exhausted memory, a  *)
(* lost device): the exception reaches the caller, who may go on.               *)
(* A gradient is the set of backward passes accumulated in it; a state tensor   *)
(* is the gradients folded into it; a parameter is the updates applied to it.   *)
EXTENDS Naturals, Sequences

CONSTANTS
  NumParams,    \* the parameters of the model
  Rules,        \* the update rules tried
  MaxBackward, MaxSteps, MaxMoves   \* bounds: backward passes, steps, to()/load calls

Index == 1..NumParams
AllRules == {"sgd", "momentum", "nesterov", "rmsprop", "rmsprop_centered", "rmsprop_momentum",
             "adam", "adamw"}
ASSUME OptimizerAssumption == NumParams \in Nat \ {0} /\ Rules \subseteq AllRules
ASSUME OptimizerBounds == {MaxBackward, MaxSteps, MaxMoves} \subseteq Nat

VARIABLES
  rule,
  held,         \* [Index -> the tensor the module holds]
  params,       \* [Index -> the tensor the optimizer captured]
  value,        \* [tensor -> the updates applied to it]
  grad,         \* [tensor -> the backward passes in its gradient, {} if undefined]
  slots,        \* [Index -> [slot -> the gradients folded into it]]
  t,            \* Adam's step count
  opc,          \* where step() is
  plans,        \* the parameters of the step under way
  pending,      \* [Index -> the state built and not yet stored]
  passes, steps, moves,   \* counters for the bounds
  lost          \* [Index -> the steps that stored its state and then failed]
optVars == <<rule, held, params, value, grad, slots, t, opc, plans, pending, passes, steps, moves, lost>>

(* The state each rule keeps for one parameter, and what of it the new value is *)
(* computed from: SGD steps along its velocity (Nesterov adds the gradient      *)
(* again), RMSProp along its buffer or its averages, Adam along its moments.    *)
SgdSlots(r) == IF r = "sgd" THEN {} ELSE {"velocity"}
RMSPropSlots(r) ==
  {"square_avg"} \cup (IF r = "rmsprop_centered" THEN {"grad_avg"} ELSE {})
                 \cup (IF r = "rmsprop_momentum" THEN {"buffer"} ELSE {})
RMSPropReads(r) == IF r = "rmsprop_momentum" THEN {"buffer"} ELSE RMSPropSlots(r)
AdamMoments == {"m", "v"}
IsSgd(r) == r \in {"sgd", "momentum", "nesterov"}
IsAdam(r) == r \in {"adam", "adamw"}
SlotsOf(r) == IF IsSgd(r) THEN SgdSlots(r) ELSE IF IsAdam(r) THEN AdamMoments ELSE RMSPropSlots(r)
ReadsOf(r) == IF IsSgd(r) THEN SgdSlots(r) ELSE IF IsAdam(r) THEN AdamMoments ELSE RMSPropReads(r)
(* Weight decay: coupled, it is part of the gradient; AdamW shrinks the         *)
(* parameter first instead.                                                     *)
GradientWithDecay(i) == grad[params[i]]
DecaysParameter(r) == r = "adamw"

NoSlots == <<>>
Tensors == 1..(NumParams * (MaxMoves + 1))

OptInit ==
  /\ rule \in Rules
  /\ held = [i \in Index |-> i] /\ params = held
  /\ value = [x \in Tensors |-> <<>>] /\ grad = [x \in Tensors |-> {}]
  /\ slots = [i \in Index |-> [s \in SlotsOf(rule) |-> NoSlots]]
  /\ t = 0 /\ opc = "out" /\ plans = {} /\ pending = slots
  /\ passes = 0 /\ steps = 0 /\ moves = 0
  /\ lost = [i \in Index |-> 0]

(* A backward pass reaches the parameters its loss depends on, not always all   *)
(* of them, and adds to the gradients that are there.                           *)
Backward ==
  /\ opc = "out" /\ passes < MaxBackward
  /\ passes' = passes + 1
  /\ \E reached \in SUBSET Index \ {{}} :
       grad' = [x \in Tensors |->
                  IF \E i \in reached : held[i] = x THEN grad[x] \cup {passes + 1} ELSE grad[x]]
  /\ UNCHANGED <<rule, held, params, value, slots, t, opc, plans, pending, steps, moves, lost>>

(* Optimizer.zero_grad() clears what the optimizer captured, Module.zero_grad() *)
(* what the module holds.                                                       *)
Cleared(which) == [x \in Tensors |-> IF \E i \in Index : which[i] = x THEN {} ELSE grad[x]]
ZeroGrad ==
  /\ opc = "out" /\ \E which \in {params, held} : grad' = Cleared(which)
  /\ UNCHANGED <<rule, held, params, value, slots, t, opc, plans, pending, passes, steps, moves, lost>>

(* The module's tensors are replaced by new ones: to() moves the gradients      *)
(* along; load_state_dict() goes through the entries in order and stops at the  *)
(* first whose shape is wrong, with the ones before it replaced.                *)
Fresh(i) == NumParams * (moves + 1) + i
Replaced(n, keepGrad) ==
  /\ moves < MaxMoves /\ moves' = moves + 1
  /\ held' = [i \in Index |-> IF i <= n THEN Fresh(i) ELSE held[i]]
  /\ value' = [x \in Tensors |-> IF \E i \in 1..n : x = Fresh(i)
                 THEN (IF keepGrad THEN value[held[x - NumParams * (moves + 1)]] ELSE <<>>) ELSE value[x]]
  /\ grad' = [x \in Tensors |-> IF keepGrad /\ \E i \in 1..n : x = Fresh(i)
                 THEN grad[held[x - NumParams * (moves + 1)]] ELSE grad[x]]
  /\ UNCHANGED <<rule, params, slots, t, opc, plans, pending, passes, steps, lost>>
To == opc = "out" /\ Replaced(NumParams, TRUE)
LoadStateDict == opc = "out" /\ (\E n \in Index : Replaced(n, FALSE))
(* A new optimizer captures what the module holds, with no state. *)
Construct ==
  /\ opc = "out" /\ params # held
  /\ params' = held /\ t' = 0
  /\ slots' = [i \in Index |-> [s \in SlotsOf(rule) |-> NoSlots]]
  /\ value' = [x \in Tensors |-> <<>>] /\ lost' = [i \in Index |-> 0]   \* counted from here on
  /\ UNCHANGED <<rule, held, grad, opc, plans, pending, passes, steps, moves>>

(* step(), first pass: every parameter with a defined gradient gets a plan, the *)
(* state it will have built as a graph.                                         *)
Planned == {i \in Index : grad[params[i]] # {}}
Folded(i) == [s \in SlotsOf(rule) |-> Append(slots[i][s], GradientWithDecay(i))]
NextT == IF IsAdam(rule) THEN t + 1 ELSE t
StoredEarly(ps) == [i \in Index |-> IF i \in ps THEN Folded(i) ELSE slots[i]]
Stored(ps) == slots
BeginStep ==
  /\ opc = "out" /\ steps < MaxSteps
  /\ steps' = steps + 1 /\ t' = NextT
  /\ plans' = Planned
  /\ pending' = [i \in Index |-> Folded(i)]
  /\ slots' = Stored(Planned)
  /\ opc' = IF Planned = {} THEN "out" ELSE IF SlotsOf(rule) = {} THEN "finish" ELSE "state"
  /\ UNCHANGED <<rule, held, params, value, grad, passes, moves, lost>>

(* realize() of the states, or the exception it ends in. *)
RealizeState ==
  /\ opc = "state" /\ opc' \in {"finish", "out"}
  /\ UNCHANGED <<rule, held, params, value, grad, slots, t, plans, pending, passes, steps, moves, lost>>

(* The finish() of every plan: the realised state is detached and stored. *)
Finish ==
  /\ opc = "finish"
  /\ slots' = [i \in Index |-> IF i \in plans THEN pending[i] ELSE slots[i]]
  /\ opc' = "values"
  /\ UNCHANGED <<rule, held, params, value, grad, t, plans, pending, passes, steps, moves, lost>>

(* realize() of the values, then one batched assign; either may raise. *)
Fails(at) ==
  /\ opc = at /\ opc' = "out"
  /\ lost' = [i \in Index |-> IF i \in plans THEN lost[i] + 1 ELSE lost[i]]
  /\ UNCHANGED <<rule, held, params, value, grad, slots, t, plans, pending, passes, steps, moves>>
RealizeValues ==
  \/ /\ opc = "values" /\ opc' = "assign"
     /\ UNCHANGED <<rule, held, params, value, grad, slots, t, plans, pending, passes, steps, moves, lost>>
  \/ Fails("values")

(* The update of one parameter: from its state, corrected for t steps. *)
Update(i) ==
  [from |-> [s \in ReadsOf(rule) |-> slots[i][s]], corrected |-> t, grad |-> GradientWithDecay(i),
   decayed |-> DecaysParameter(rule)]
AssignedAll(ps) ==
  [x \in Tensors |-> IF \E i \in Index : params[i] = x
                     THEN Append(value[x], Update(CHOOSE i \in Index : params[i] = x)) ELSE value[x]]
Assigned(ps) ==
  [x \in Tensors |-> IF \E i \in ps : params[i] = x
                     THEN Append(value[x], Update(CHOOSE i \in ps : params[i] = x)) ELSE value[x]]
Assign ==
  \/ /\ opc = "assign" /\ opc' = "out"
     /\ value' = Assigned(plans)
     /\ UNCHANGED <<rule, held, params, grad, slots, t, plans, pending, passes, steps, moves, lost>>
  \/ Fails("assign")

OptNext ==
  \/ Backward \/ ZeroGrad \/ To \/ LoadStateDict \/ Construct
  \/ BeginStep \/ RealizeState \/ Finish \/ RealizeValues \/ Assign
OptSpec == OptInit /\ [][OptNext]_optVars

(* State and parameters stay together: between steps, the gradients folded into *)
(* a parameter's state are those of its updates, plus one for every step that   *)
(* failed after it had stored its state - and an evaluation of the state that   *)
(* fails leaves no trace.  Adam corrects a moment for at least the gradients it is *)
(* made of, and so never for none, where 1 - beta^t would be a division by zero. *)
StateFollowsUpdates ==
  opc = "out" =>
    /\ \A i \in Index, s \in SlotsOf(rule) : Len(slots[i][s]) = Len(value[params[i]]) + lost[i]
    /\ IsAdam(rule) => \A i \in Index : \A k \in 1..Len(value[params[i]]) :
         \A s \in ReadsOf(rule) :
           value[params[i]][k].corrected >= Len(value[params[i]][k].from[s]) /\ value[params[i]][k].corrected > 0

(* A step that changes parameters gives every parameter with a gradient exactly *)
(* one update, built from the gradient it has and from all the state before it, *)
(* and touches no other tensor; any other outcome changes no parameter at all.  *)
StepAllOrNothing ==
  [][opc # "out" /\ value' # value =>
      \A x \in Tensors :
        IF \E i \in Index : params[i] = x /\ grad[x] # {}
        THEN /\ Len(value'[x]) = Len(value[x]) + 1
             /\ \A i \in Index : params[i] = x =>
                  \A s \in ReadsOf(rule) :
                    value'[x][Len(value'[x])].from[s][Len(slots[i][s])] = grad[x]
        ELSE value'[x] = value[x]]_optVars
================================================================================
