----------------------- MODULE TrainerRefinementProofs -----------------------
(***************************************************************************)
(* Proof that ProductionTrainer.train implements the safety part of the   *)
(* abstract early-stopping specification under the mapping of             *)
(* TrainerRefinement: every step of the trainer is a step of              *)
(* EarlyStoppingSpec or leaves the mapped state alone.                    *)
(*                                                                         *)
(* _update_training_state is the abstract Epoch(val_loss); the loop       *)
(* running out of epochs is Exhausted; every other step stutters.  The    *)
(* argument rests on CInv of TrainerProofs (the checkpoint is the best    *)
(* epoch so far and counter counts the epochs since it) and on one more   *)
(* fact: inside the loop the loop variable equals the number of history   *)
(* entries.                                                                *)
(***************************************************************************)
EXTENDS TrainerRefinement, TrainerProofs

(* The loop variable of train() counts the finished epochs while the loop *)
(* runs.                                                                   *)
LoopEpoch == pc \in {"train", "validate", "update"} => epoch = Len(history)

RInv == CInv /\ LoopEpoch

(* The refinement mapping of TrainerRefinement, named.                     *)
absLosses == [i \in 1..Len(history) |-> history[i].val_loss]
absBest == IF best_state = None THEN 0 ELSE best_state.at_copy
absFinished == pc \in {"finalize", "export", "done"}

LEMMA RInvInit == Init => RInv
<1> SUFFICES ASSUME Init PROVE RInv
  OBVIOUS
<1>1. IInv
  BY IInvInit
<1>. QED  BY <1>1 DEF Init, ES!Init, RInv, CInv, CheckpointIsBestSeen, LoopEpoch

LEMMA RInvNext == RInv /\ [Next]_vars => RInv'
<1> SUFFICES ASSUME RInv, [Next]_vars PROVE RInv'
  OBVIOUS
<1>1. CInv'
  BY CInvNext DEF RInv
<1>2. TypeInv
  BY DEF RInv, CInv, IInv
<1>3. LoopEpoch'
  <2>1. CASE UpdateTrainingState
    <3>1. Len(history') = Len(history) + 1
      BY <1>2, <2>1 DEF UpdateTrainingState, TypeInv, TypeOK
    <3>. QED  BY <2>1, <3>1 DEF UpdateTrainingState, LoopEpoch, RInv
  <2>2. CASE ~UpdateTrainingState
    BY <2>2 DEF RInv, LoopEpoch, Next, vars, TrainEpoch, LoopExhausted,
                ValidateEpoch, FinalizeTraining, ExportOnnx
  <2>. QED  BY <2>1, <2>2
<1>. QED  BY <1>1, <1>3 DEF RInv

(* Appending a history record appends its val_loss to the mapped losses. *)
LEMMA AppendMapped ==
    ASSUME NEW h \in Seq(HistoryEntry), NEW e \in HistoryEntry
    PROVE  [i \in 1..Len(Append(h, e)) |-> Append(h, e)[i].val_loss]
             = Append([i \in 1..Len(h) |-> h[i].val_loss], e.val_loss)
OBVIOUS

(* A counter of the epochs since the best, bounded by patience, is at    *)
(* patience exactly when at least patience epochs have passed.             *)
LEMMA CounterAtPatience ==
    ASSUME NEW n \in Nat, NEW a \in 1..n, NEW c, NEW p \in Nat,
           c = n - a, c <= p
    PROVE  c = p <=> n - a >= p
OBVIOUS

(* One _update_training_state is the abstract epoch of its val_loss: the  *)
(* loss is appended, the checkpoint moves to this epoch exactly when it   *)
(* is the first or beats the best, should_stop is patience epochs past    *)
(* the best, and the loop is left exactly when should_stop is raised.     *)
LEMMA UpdateRefines ==
    ASSUME RInv, RInv', UpdateTrainingState, NEW l, l = val_loss
    PROVE  Abs!Epoch(l)
<1>0. state_dict_copy \in Snapshot /\ state_dict_copy # None
  <2>1. params \in Nat
    BY DEF RInv, CInv, IInv, TypeInv, TypeOK
  <2>2. state_dict_copy \in Snapshot
    BY <2>1 DEF state_dict_copy, Snapshot
  <2>. QED  BY <2>2, SentinelAssumption
<1>1. /\ TypeInv /\ TypeInv'
      /\ pc = "update" /\ val_loss \in ValLoss
      /\ Len(history) < epochs /\ params = Len(history) + 1
      /\ history \in Seq(HistoryEntry)
  BY DEF RInv, CInv, IInv, LoopEpoch, UpdateTrainingState, TypeInv, TypeOK
<1>2. /\ Len(history') = Len(history) + 1
      /\ absLosses' = Append(absLosses, val_loss)
  <2>1. [train_loss |-> train_loss, val_loss |-> val_loss,
         learning_rate |-> lr_halvings] \in HistoryEntry
    BY <1>1, HistoryEntryTyped
  <2>. QED  BY <1>1, <2>1, AppendMapped DEF UpdateTrainingState, absLosses
<1>3. Len(absLosses) = Len(history)
  BY DEF absLosses
<1>4. absBest' = IF absLosses = <<>> \/ Improves(val_loss, absLosses[absBest])
                  THEN Len(absLosses') ELSE absBest
  <2>1. state_dict_copy.at_copy = Len(absLosses')
    <3>1. Len(absLosses') = Len(history') /\ Len(history') \in Nat
      BY <1>1 DEF absLosses, TypeInv, TypeOK
    <3>. QED  BY <1>1, <1>2, <3>1 DEF state_dict_copy
  <2>2. CASE best_state = None
    <3>1. Len(history) = 0 /\ best_score = None
      BY <2>2 DEF RInv, CInv, IInv
    <3>2. absLosses = <<>>
      BY <3>1 DEF absLosses
    <3>3. best_state' = state_dict_copy
      BY <3>1 DEF UpdateTrainingState, ES!Call
    <3>4. state_dict_copy # None
      BY <1>0
    <3>. QED  BY <2>1, <3>2, <3>3, <3>4 DEF absBest
  <2>3. CASE best_state # None
    <3>1. /\ best_score # None
          /\ best_state.at_copy \in 1..Len(history)
          /\ best_score = history[best_state.at_copy].val_loss
      BY <2>3 DEF RInv, CInv, IInv, CheckpointIsBestSeen
    <3>2. absLosses # <<>> /\ absLosses[absBest] = best_score
      BY <2>3, <3>1 DEF absLosses, absBest
    <3>3. Improves(val_loss, absLosses[absBest]) <=> ES!is_improved(val_loss)
      BY <3>1, <3>2 DEF Improves, ES!is_improved
    <3>4. CASE ES!is_improved(val_loss)
      <4>1. best_state' = state_dict_copy
        BY <3>1, <3>4 DEF UpdateTrainingState, ES!Call
      <4>2. state_dict_copy # None
        BY <1>0
      <4>. QED  BY <2>1, <3>2, <3>3, <3>4, <4>1, <4>2 DEF absBest
    <3>5. CASE ~ES!is_improved(val_loss)
      <4>1. best_state' = best_state
        BY <3>1, <3>5 DEF UpdateTrainingState, ES!Call
      <4>. QED  BY <2>3, <3>2, <3>3, <3>5, <4>1 DEF absBest
    <3>. QED  BY <3>4, <3>5
  <2>. QED  BY <2>2, <2>3
<1>5. should_stop' <=> (Len(absLosses') - absBest' >= patience)
  <2>1. best_state' # None
    BY <1>2 DEF RInv, CInv
  <2>2. /\ best_state'.at_copy \in 1..Len(history) + 1
        /\ counter' = Len(history) + 1 - best_state'.at_copy
        /\ counter' <= patience
        /\ should_stop' <=> counter' = patience
        /\ should_stop' \in BOOLEAN
    <3>1. IInv' /\ CheckpointIsBestSeen'
      BY DEF RInv, CInv
    <3>2. best_state'.at_copy \in 1..Len(history')
      BY <3>1, <2>1 DEF CheckpointIsBestSeen
    <3>3. /\ counter' = Len(history') - best_state'.at_copy
          /\ counter' <= patience
          /\ should_stop' <=> counter' = patience
          /\ should_stop' \in BOOLEAN
      BY <3>1, <2>1 DEF IInv, TypeInv, TypeOK
    <3>. QED  BY <1>2, <3>2, <3>3
  <2>3. Len(absLosses') = Len(history) + 1 /\ absBest' = best_state'.at_copy
    BY <1>1, <1>2, <2>1 DEF absLosses, absBest, TypeInv, TypeOK
  <2>4. Len(history) \in Nat
    BY <1>1 DEF TypeInv, TypeOK
  <2>5. counter' = patience <=> Len(history) + 1 - best_state'.at_copy >= patience
    <3>1. /\ best_state'.at_copy \in 1..Len(history) + 1
          /\ counter' = Len(history) + 1 - best_state'.at_copy
          /\ counter' <= patience
      BY <2>2
    <3>2. Len(history) + 1 \in Nat /\ patience \in Nat
      BY <2>4, PatienceAssumption
    <3>. QED  BY <3>1, <3>2, CounterAtPatience
  <2>6. counter' = patience <=> Len(absLosses') - absBest' >= patience
    <3>1. Len(absLosses') = Len(history) + 1
      BY <2>3
    <3>2. absBest' = best_state'.at_copy
      BY <2>3
    <3>3. Len(absLosses') - absBest' = Len(history) + 1 - best_state'.at_copy
      BY <3>1, <3>2, <2>2, <2>4
    <3>. QED  BY <3>3, <2>5
  <2>. QED  BY <2>2, <2>6
<1>6. absFinished' <=> should_stop'
  BY DEF UpdateTrainingState, absFinished
<1>7. ~absFinished
  BY <1>1 DEF absFinished
<1>8. should_stop' \in BOOLEAN
  BY DEF RInv, CInv, IInv, TypeInv, TypeOK
<1>9. should_stop' = (Len(absLosses') - absBest' >= patience)
  BY <1>5, <1>8
<1>10. absFinished' = should_stop'
  BY <1>6, <1>8 DEF absFinished
<1>. QED  BY <1>1, <1>2, <1>3, <1>4, <1>7, <1>9, <1>10
          DEF Abs!Epoch, absLosses, absBest, absFinished

(* When the loop runs out of epochs, every epoch of the budget is in the  *)
(* history and the abstract budget is spent.                               *)
LEMMA ExhaustedRefines ==
    ASSUME RInv, LoopExhausted
    PROVE  Abs!Exhausted
<1>1. epoch = epochs /\ epoch = Len(history)
  BY EpochsAssumption DEF RInv, CInv, IInv, TypeInv, TypeOK, LoopEpoch,
                          LoopExhausted
<1>2. Len(absLosses) = Len(history)
  BY DEF absLosses
<1>. QED  BY <1>1, <1>2 DEF LoopExhausted, Abs!Exhausted, absLosses, absBest

(* Every step of the trainer is an abstract step or leaves the mapped     *)
(* state (losses, best epoch, should_stop, finished) unchanged.            *)
LEMMA StepRefines ==
    RInv /\ RInv' /\ [Next]_vars => [Abs!ANext]_Abs!avars
<1> SUFFICES ASSUME RInv, RInv', [Next]_vars PROVE [Abs!ANext]_Abs!avars
  OBVIOUS
<1>1. CASE UpdateTrainingState
  <2>1. val_loss \in ValLoss
    BY <1>1 DEF RInv, CInv, IInv, TypeInv, UpdateTrainingState
  <2>2. \E l \in ValLoss : Abs!Epoch(l)
    <3>1. PICK l \in ValLoss : l = val_loss
      BY <2>1
    <3>. QED  BY <1>1, <3>1, UpdateRefines
  <2>. QED  BY <2>2 DEF Abs!ANext
<1>2. CASE LoopExhausted
  BY <1>2, ExhaustedRefines DEF Abs!ANext
<1>3. CASE TrainEpoch \/ ValidateEpoch \/ FinalizeTraining \/ ExportOnnx
        \/ UNCHANGED vars
  BY <1>3 DEF TrainEpoch, ValidateEpoch, FinalizeTraining, ExportOnnx, vars,
              Abs!avars, absLosses, absBest, absFinished
<1>. QED  BY <1>1, <1>2, <1>3 DEF Next

(* ImplementsEarlyStoppingSpec: train() with EarlyStopping starts where   *)
(* the abstract rule starts and takes only its steps, for every epoch     *)
(* budget, patience, min_delta and set of losses, NaN included.           *)
THEOREM TrainerImplementsEarlyStopping == Spec => ImplementsEarlyStoppingSpec
<1>1. Init => Abs!Init
  BY DEF Init, ES!Init, Abs!Init, absLosses, absBest
<1>2. Spec => []RInv
  BY RInvInit, RInvNext, PTL DEF Spec
<1>. QED  BY <1>1, <1>2, StepRefines, PTL DEF Spec, ImplementsEarlyStoppingSpec, Abs!Spec

=============================================================================
