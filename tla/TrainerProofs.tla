---------------------------- MODULE TrainerProofs ----------------------------
(***************************************************************************)
(* Proofs about the training loop of Trainer, for every value of the       *)
(* constants allowed by the assumptions of Trainer.                        *)
(***************************************************************************)
EXTENDS Trainer, TLAPS

(* TypeOK is not inductive by itself: the record appended by              *)
(* UpdateTrainingState is typed only if the losses of the current epoch   *)
(* have been computed, which the program counter tells.                   *)
TypeInv ==
    /\ TypeOK
    /\ pc \in {"validate", "update"} => train_loss \in TrainLoss
    /\ pc = "update" => val_loss \in ValLoss
    /\ pc \in {"validate", "update"} => epoch < epochs

(* The strengthening of StopsPatienceAfterBest.  The parameter version    *)
(* equals the number of finished epochs, so the snapshot taken by         *)
(* early_stopping(...) is that epoch; counter counts the epochs since it; *)
(* should_stop is raised exactly when counter reaches patience, after     *)
(* which the loop has left.                                                *)
IInv ==
    /\ TypeInv
    /\ pc \in {"train", "validate", "update"} => ~should_stop
    /\ pc = "train" => params = Len(history)
    /\ pc \in {"validate", "update"} => params = Len(history) + 1
    /\ (best_score = None) <=> (best_state = None)
    /\ best_state = None => counter = 0
    /\ best_state # None =>
          /\ best_state.at_copy <= Len(history)
          /\ counter = Len(history) - best_state.at_copy
    /\ counter <= patience
    /\ should_stop <=> counter = patience

USE EpochsAssumption, PatienceAssumption, MinDeltaAssumption,
    SchedPatienceAssumption, LRFloorAssumption, LossAssumption,
    SentinelAssumption

-----------------------------------------------------------------------------
(* The record UpdateTrainingState appends to the history is typed.        *)
LEMMA HistoryEntryTyped ==
    ASSUME TypeInv, pc = "update"
    PROVE  [train_loss |-> train_loss, val_loss |-> val_loss,
            learning_rate |-> lr_halvings] \in HistoryEntry
BY DEF TypeInv, TypeOK, HistoryEntry

(* One call of EarlyStopping keeps its variables typed.                   *)
LEMMA CallTyped ==
    ASSUME TypeInv, pc = "update",
           ES!Call(val_loss, state_dict_copy)
    PROVE  /\ counter' \in Nat
           /\ best_score' \in ValLoss \cup {None}
           /\ should_stop' \in BOOLEAN
           /\ best_state' \in {None} \cup Snapshot
<1>1. /\ val_loss \in ValLoss
      /\ state_dict_copy \in Snapshot
  BY DEF TypeInv, TypeOK, state_dict_copy, Snapshot
<1>2. counter \in Nat /\ should_stop \in BOOLEAN
      /\ best_score \in ValLoss \cup {None}
      /\ best_state \in {None} \cup Snapshot
  BY DEF TypeInv, TypeOK
<1>3. CASE best_score = None
  BY <1>1, <1>2, <1>3 DEF ES!Call
<1>4. CASE best_score # None /\ ES!is_improved(val_loss)
  BY <1>1, <1>2, <1>4 DEF ES!Call
<1>5. CASE best_score # None /\ ~ES!is_improved(val_loss)
  <2>1. /\ counter' = counter + 1
        /\ should_stop' = (should_stop \/ counter + 1 >= patience)
        /\ UNCHANGED <<best_score, best_state>>
    BY <1>5 DEF ES!Call
  <2>2. counter' \in Nat
    BY <1>2, <2>1
  <2>3. should_stop' \in BOOLEAN
    BY <2>1, Zenon
  <2>. QED  BY <1>2, <2>1, <2>2, <2>3
<1>6. \/ best_score = None
      \/ best_score # None /\ ES!is_improved(val_loss)
      \/ best_score # None /\ ~ES!is_improved(val_loss)
  OBVIOUS
<1>. QED  BY ONLY <1>3, <1>4, <1>5, <1>6

(* One scheduler.step keeps the scheduler's variables typed.              *)
LEMMA SchedulerStepTyped ==
    ASSUME TypeInv, pc = "update", SchedulerStep(val_loss)
    PROVE  /\ sched_best' \in ValLossValues \cup {Inf}
           /\ num_bad_epochs' \in 0..sched_patience
           /\ lr_halvings' \in 0..lr_floor
<1> USE DEF TypeInv, TypeOK
<1>1. CASE sched_is_better(val_loss, sched_best)
  <2>1. val_loss \in ValLossValues
    BY <1>1 DEF sched_is_better, ValLoss
  <2>. QED  BY <1>1, <2>1 DEF SchedulerStep, reduce_lr
<1>2. CASE ~sched_is_better(val_loss, sched_best)
  BY <1>2 DEF SchedulerStep, reduce_lr
<1>. QED  BY <1>1, <1>2

LEMMA TypeInvInit == Init => TypeInv
<1> SUFFICES ASSUME Init PROVE TypeInv
  OBVIOUS
<1> USE DEF Init, ES!Init
<1>1. history \in Seq(HistoryEntry)
  OBVIOUS
<1>2. /\ epoch \in 0..epochs
      /\ lr_halvings \in 0..lr_floor
      /\ num_bad_epochs \in 0..sched_patience
      /\ params \in Nat /\ counter \in Nat
  OBVIOUS
<1>3. /\ train_loss \in TrainLoss \cup {None}
      /\ val_loss \in ValLoss \cup {None}
      /\ sched_best \in ValLossValues \cup {Inf}
      /\ best_score \in ValLoss \cup {None}
      /\ best_state \in {None} \cup Snapshot
      /\ artifact \in Nat \cup {None}
      /\ metadata \in {None} \cup Metadata
  OBVIOUS
<1>. QED  BY <1>1, <1>2, <1>3 DEF TypeInv, TypeOK

LEMMA TypeInvNext == TypeInv /\ [Next]_vars => TypeInv'
<1> SUFFICES ASSUME TypeInv, [Next]_vars PROVE TypeInv'
  OBVIOUS
<1>1. CASE TrainEpoch
  BY <1>1 DEF TrainEpoch, TypeInv, TypeOK, TrainLoss
<1>2. CASE LoopExhausted
  BY <1>2 DEF LoopExhausted, TypeInv, TypeOK
<1>3. CASE ValidateEpoch
  BY <1>3 DEF ValidateEpoch, TypeInv, TypeOK, ValLoss
<1>4. CASE UpdateTrainingState
  <2>. USE <1>4
  <2>1. pc = "update"
    BY DEF UpdateTrainingState
  <2>2. history' \in Seq(HistoryEntry)
    BY <2>1, HistoryEntryTyped DEF UpdateTrainingState, TypeInv, TypeOK, HistoryEntry
  <2>3. /\ counter' \in Nat
        /\ best_score' \in ValLoss \cup {None}
        /\ should_stop' \in BOOLEAN
        /\ best_state' \in {None} \cup Snapshot
    BY <2>1, CallTyped DEF UpdateTrainingState
  <2>4. /\ sched_best' \in ValLossValues \cup {Inf}
        /\ num_bad_epochs' \in 0..sched_patience
        /\ lr_halvings' \in 0..lr_floor
    BY <2>1, SchedulerStepTyped DEF UpdateTrainingState
  <2>5. /\ pc' \in {"train", "finalize"}
        /\ epoch' \in 0..epochs
    BY <2>3 DEF UpdateTrainingState, TypeInv, TypeOK
  <2>6. /\ params' \in Nat
        /\ train_loss' \in TrainLoss \cup {None}
        /\ val_loss' \in ValLoss \cup {None}
        /\ artifact' \in Nat \cup {None}
        /\ metadata' \in {None} \cup Metadata
    BY DEF UpdateTrainingState, TypeInv, TypeOK
  <2>7. pc' \notin {"validate", "update"}
    BY <2>5
  <2>. QED
    BY <2>2, <2>3, <2>4, <2>5, <2>6, <2>7 DEF TypeInv, TypeOK
<1>5. CASE FinalizeTraining
  BY <1>5 DEF FinalizeTraining, Contents, TypeInv, TypeOK, Snapshot
<1>6. CASE ExportOnnx
  <2>. USE <1>6
  <2>1. history # <<>> => history[Len(history)] \in HistoryEntry
    <3>1. history \in Seq(HistoryEntry)
      BY DEF TypeInv, TypeOK
    <3>. QED  BY <3>1
  <2>2. metadata' \in Metadata
    BY <2>1 DEF ExportOnnx, Metadata, HistoryEntry
  <2>3. artifact' \in Nat
    BY DEF ExportOnnx, TypeInv, TypeOK
  <2>. QED  BY <2>2, <2>3 DEF ExportOnnx, TypeInv, TypeOK
<1>7. CASE UNCHANGED vars
  BY <1>7 DEF vars, TypeInv, TypeOK
<1>. QED  BY <1>1, <1>2, <1>3, <1>4, <1>5, <1>6, <1>7 DEF Next

(* TypeOK holds in every reachable state of the training run.             *)
THEOREM TypeCorrect == Spec => []TypeOK
<1>1. TypeInv => TypeOK
  BY DEF TypeInv
<1>. QED  BY <1>1, TypeInvInit, TypeInvNext, PTL DEF Spec

-----------------------------------------------------------------------------
LEMMA IInvInit == Init => IInv
<1> SUFFICES ASSUME Init PROVE IInv
  OBVIOUS
<1>1. TypeInv
  BY TypeInvInit
<1>. QED  BY <1>1 DEF Init, ES!Init, IInv

(* The early-stopping part of IInv across one _update_training_state.     *)
LEMMA IInvUpdate ==
    ASSUME IInv, UpdateTrainingState
    PROVE  IInv'
<1> DEFINE L == Len(history)
<1>1. /\ pc = "update" /\ ~should_stop /\ params = L + 1
      /\ val_loss \in ValLoss /\ history \in Seq(HistoryEntry)
      /\ counter \in Nat /\ counter <= patience /\ counter # patience
  BY DEF IInv, TypeInv, TypeOK, UpdateTrainingState
<1>2. Len(history') = L + 1
  BY <1>1 DEF UpdateTrainingState
<1>3. TypeInv'
  BY TypeInvNext DEF IInv, Next
<1>4. /\ val_loss # None
      /\ state_dict_copy # None
      /\ state_dict_copy.at_copy = L + 1
  <2>1. state_dict_copy \in Snapshot /\ state_dict_copy.at_copy = L + 1
    BY <1>1 DEF state_dict_copy, Snapshot
  <2>. QED  BY <1>1, <2>1, SentinelAssumption DEF ValLoss
<1>5. /\ params' = params
      /\ IF should_stop' THEN pc' = "finalize" ELSE pc' = "train"
  BY DEF UpdateTrainingState
(* The early-stopping facts of IInv', once counter', should_stop',        *)
(* best_score' and best_state' are known.                                  *)
<1>6. ASSUME /\ best_state' # None /\ best_score' # None
             /\ best_state'.at_copy <= L + 1
             /\ counter' = L + 1 - best_state'.at_copy
             /\ counter' <= patience
             /\ should_stop' <=> counter' = patience
      PROVE  IInv'
  <2>1. pc' \in {"train", "validate", "update"} => ~should_stop'
    BY <1>5
  <2>2. pc' = "train" => params' = Len(history')
    BY <1>1, <1>2, <1>5
  <2>3. pc' \notin {"validate", "update"}
    <3>1. CASE should_stop'
      BY <1>5, <3>1
    <3>2. CASE ~should_stop'
      BY <1>5, <3>2
    <3>. QED  BY <3>1, <3>2
  <2>4. /\ (best_score' = None) <=> (best_state' = None)
        /\ best_state' = None => counter' = 0
    BY <1>6
  <2>5. best_state' # None =>
          /\ best_state'.at_copy <= Len(history')
          /\ counter' = Len(history') - best_state'.at_copy
    <3>1. Len(history') = Len(history) + 1  BY <1>2 DEF L
    <3>2. /\ best_state'.at_copy <= Len(history) + 1
          /\ counter' = Len(history) + 1 - best_state'.at_copy
      BY <1>6 DEF L
    <3>3. best_state'.at_copy \in Nat /\ counter' \in Nat
      BY <1>3, <1>6, SentinelAssumption DEF TypeInv, TypeOK, Snapshot
    <3>4. Len(history) \in Nat
      BY <1>1
    <3>. QED  BY ONLY <3>1, <3>2, <3>3, <3>4
  <2>6. pc' \in {"validate", "update"} => params' = Len(history') + 1
    BY <2>3
  <2>7. /\ counter' <= patience
        /\ should_stop' <=> counter' = patience
    BY <1>6
  <2>. QED  BY <1>3, <2>1, <2>2, <2>4, <2>5, <2>6, <2>7 DEF IInv
<1>7. CASE best_score = None
  <2>1. /\ best_score' = val_loss /\ best_state' = state_dict_copy
        /\ counter' = counter /\ should_stop' = should_stop
    BY <1>7 DEF UpdateTrainingState, ES!Call
  <2>2. counter = 0
    BY <1>7 DEF IInv
  <2>. QED  BY <1>1, <1>4, <1>6, <2>1, <2>2, PatienceAssumption
<1>8. CASE best_score # None /\ ES!is_improved(val_loss)
  <2>1. /\ best_score' = val_loss /\ best_state' = state_dict_copy
        /\ counter' = 0 /\ should_stop' = should_stop
    BY <1>8 DEF UpdateTrainingState, ES!Call
  <2>. QED  BY <1>1, <1>4, <1>6, <2>1, PatienceAssumption
<1>9. CASE best_score # None /\ ~ES!is_improved(val_loss)
  <2>1. /\ counter' = counter + 1
        /\ should_stop' = (should_stop \/ counter + 1 >= patience)
        /\ best_score' = best_score /\ best_state' = best_state
    BY <1>9 DEF UpdateTrainingState, ES!Call
  <2>2. /\ best_state # None
        /\ best_state.at_copy <= L
        /\ counter = L - best_state.at_copy
    BY <1>9 DEF IInv
  <2>3. best_state.at_copy \in Nat
    BY <2>2 DEF IInv, TypeInv, TypeOK, Snapshot
  <2>4. should_stop' <=> counter + 1 = patience
    <3>0. ~should_stop /\ should_stop \in BOOLEAN
      BY <1>1 DEF IInv, TypeInv, TypeOK
    <3>1. should_stop' <=> (counter + 1 >= patience)
      BY <3>0, <2>1, Zenon
    <3>2. (counter + 1 >= patience) <=> (counter + 1 = patience)
      BY <1>1, PatienceAssumption
    <3>. QED  BY <3>1, <3>2
  <2>5. /\ best_state' # None /\ best_score' # None
        /\ best_state'.at_copy <= L + 1
        /\ counter' = L + 1 - best_state'.at_copy
        /\ counter' <= patience
    BY <1>1, <1>9, <2>1, <2>2, <2>3
  <2>. QED  BY <1>6, <2>4, <2>5, <2>1
<1>. QED  BY <1>7, <1>8, <1>9

LEMMA IInvNext == IInv /\ [Next]_vars => IInv'
<1> SUFFICES ASSUME IInv, [Next]_vars PROVE IInv'
  OBVIOUS
<1>1. TypeInv'
  BY TypeInvNext DEF IInv
<1> USE <1>1
<1>2. CASE TrainEpoch
  BY <1>2 DEF TrainEpoch, IInv
<1>3. CASE LoopExhausted
  BY <1>3 DEF LoopExhausted, IInv
<1>4. CASE ValidateEpoch
  BY <1>4 DEF ValidateEpoch, IInv
<1>5. CASE UpdateTrainingState
  BY <1>5, IInvUpdate
<1>6. CASE FinalizeTraining
  BY <1>6 DEF FinalizeTraining, IInv
<1>7. CASE ExportOnnx
  BY <1>7 DEF ExportOnnx, IInv
<1>8. CASE UNCHANGED vars
  BY <1>8 DEF vars, IInv
<1>. QED  BY <1>2, <1>3, <1>4, <1>5, <1>6, <1>7, <1>8 DEF Next

(* EarlyStopping with the break of train() stops exactly `patience`       *)
(* epochs after the epoch of its checkpoint, for every patience >= 1,     *)
(* every loop bound and every sequence of losses, NaN included.           *)
THEOREM StopsPatienceAfterBestHolds == Spec => []StopsPatienceAfterBest
<1>1. IInv => StopsPatienceAfterBest
  BY DEF IInv, TypeInv, TypeOK, Snapshot, StopsPatienceAfterBest
<1>. QED  BY <1>1, IInvInit, IInvNext, PTL DEF Spec

-----------------------------------------------------------------------------
(* The strengthening of LRReductionRate: the bad epochs the scheduler is  *)
(* counting towards its next reduction are epochs too, beyond those each  *)
(* earlier reduction used up.                                              *)
LRInv ==
    /\ TypeInv
    /\ lr_halvings * (sched_patience + 1) + num_bad_epochs <= Len(history)

(* One scheduler.step after one more epoch keeps the budget of LRInv:     *)
(* a reduction needs sched_patience + 1 bad epochs and resets their count. *)
LEMMA SchedulerStepBudget ==
    ASSUME lr_halvings \in 0..lr_floor, num_bad_epochs \in 0..sched_patience,
           NEW L \in Nat,
           lr_halvings * (sched_patience + 1) + num_bad_epochs <= L,
           SchedulerStep(val_loss)
    PROVE  lr_halvings' * (sched_patience + 1) + num_bad_epochs' <= L + 1
<1> DEFINE sp == sched_patience
           P == lr_halvings * (sp + 1)
<1>1. sp \in Nat /\ P \in Nat /\ P + num_bad_epochs <= L
  BY SchedPatienceAssumption DEF sp, P
<1>2. CASE sched_is_better(val_loss, sched_best)
  <2>1. lr_halvings' = lr_halvings /\ num_bad_epochs' = 0
    BY <1>1, <1>2 DEF SchedulerStep, sp
  <2>. QED  BY <1>1, <2>1 DEF sp, P
<1>3. CASE ~sched_is_better(val_loss, sched_best)
           /\ num_bad_epochs + 1 > sp
  <2>1. num_bad_epochs' = 0
    BY <1>3 DEF SchedulerStep, sp
  <2>2. CASE lr_halvings' = lr_halvings
    BY <1>1, <2>1, <2>2 DEF sp, P
  <2>3. CASE lr_halvings' = lr_halvings + 1
    <3>1. lr_halvings' * (sp + 1) = P + (sp + 1)
      BY <1>1, <2>3 DEF P
    <3>. QED  BY <1>1, <1>3, <2>1, <3>1 DEF sp
  <2>. QED  BY <1>3, <2>2, <2>3 DEF SchedulerStep, reduce_lr, sp
<1>4. CASE ~sched_is_better(val_loss, sched_best)
           /\ ~(num_bad_epochs + 1 > sp)
  <2>1. lr_halvings' = lr_halvings /\ num_bad_epochs' = num_bad_epochs + 1
    BY <1>4 DEF SchedulerStep, sp
  <2>. QED  BY <1>1, <1>4, <2>1 DEF sp, P
<1>. QED  BY <1>2, <1>3, <1>4

LEMMA LRInvNext == LRInv /\ [Next]_vars => LRInv'
<1> SUFFICES ASSUME LRInv, [Next]_vars PROVE LRInv'
  OBVIOUS
<1>1. TypeInv'
  BY TypeInvNext DEF LRInv
<1> USE <1>1
<1>2. CASE UpdateTrainingState
  <2>1. /\ lr_halvings \in 0..lr_floor /\ num_bad_epochs \in 0..sched_patience
        /\ history \in Seq(HistoryEntry)
    BY DEF LRInv, TypeInv, TypeOK
  <2>2. Len(history') = Len(history) + 1
    BY <1>2, <2>1 DEF UpdateTrainingState
  <2>3. /\ SchedulerStep(val_loss)
        /\ lr_halvings * (sched_patience + 1) + num_bad_epochs <= Len(history)
        /\ Len(history) \in Nat
    BY <1>2, <2>1 DEF LRInv, UpdateTrainingState
  <2>4. lr_halvings' * (sched_patience + 1) + num_bad_epochs'
          <= Len(history) + 1
    BY <2>1, <2>3, SchedulerStepBudget
  <2>. QED  BY <2>2, <2>4 DEF LRInv
<1>3. CASE ~UpdateTrainingState
  <2>1. UNCHANGED <<lr_halvings, num_bad_epochs, history>>
    BY <1>3 DEF Next, vars, TrainEpoch, LoopExhausted, ValidateEpoch,
                FinalizeTraining, ExportOnnx
  <2>. QED  BY <2>1 DEF LRInv
<1>. QED  BY <1>2, <1>3

(* ReduceLROnPlateau halves the learning rate at most once in every       *)
(* sched_patience + 1 epochs, for every patience, floor and loss sequence. *)
THEOREM LRReductionRateHolds == Spec => []LRReductionRate
<1>1. Init => LRInv
  BY TypeInvInit DEF Init, LRInv
<1>2. LRInv => LRReductionRate
  <2> SUFFICES ASSUME LRInv PROVE LRReductionRate
    OBVIOUS
  <2>1. /\ lr_halvings \in Nat /\ num_bad_epochs \in Nat
        /\ sched_patience \in Nat /\ history \in Seq(HistoryEntry)
    BY DEF LRInv, TypeInv, TypeOK
  <2>. QED  BY <2>1 DEF LRInv, LRReductionRate
<1>. QED  BY <1>1, <1>2, LRInvNext, PTL DEF Spec

-----------------------------------------------------------------------------
(* The strengthening of CheckpointIsBestSeen: EarlyStopping has a best    *)
(* score as soon as there is a history, since its first call always takes *)
(* the first epoch.                                                        *)
CInv ==
    /\ IInv
    /\ best_state = None => Len(history) = 0
    /\ CheckpointIsBestSeen


(* No loss beats itself: min_delta is not negative.                        *)
LEMMA BeatsIrreflexive ==
    ASSUME NEW v \in ValLoss
    PROVE  ~ES!Beats(v, v)
BY MinDeltaAssumption, LossAssumption DEF ES!Beats, ES!FloatLess, ValLoss

(* What does not beat the old best does not beat a new best that beat it. *)
LEMMA BeatsTransfer ==
    ASSUME NEW x \in ValLoss, NEW v \in ValLoss, NEW b \in ValLoss,
           ES!Beats(v, b), ~ES!Beats(x, b)
    PROVE  ~ES!Beats(x, v)
<1>1. v \in Nat /\ b \in Nat /\ v < b - min_delta
  BY LossAssumption, SentinelAssumption DEF ES!Beats, ES!FloatLess, ValLoss
<1>2. CASE x = NaN
  BY <1>2 DEF ES!Beats, ES!FloatLess
<1>3. CASE x # NaN
  <2>1. x \in Nat /\ ~(x < b - min_delta)
    BY <1>1, <1>3, LossAssumption DEF ES!Beats, ES!FloatLess, ValLoss
  <2>. QED  BY <1>1, <2>1, MinDeltaAssumption DEF ES!Beats, ES!FloatLess
<1>. QED  BY <1>2, <1>3

(* The checkpoint part of CInv across one _update_training_state.          *)
LEMMA CInvUpdate ==
    ASSUME CInv, UpdateTrainingState
    PROVE  CInv'
<1> DEFINE L == Len(history)
           e == [train_loss |-> train_loss, val_loss |-> val_loss,
                 learning_rate |-> lr_halvings]
<1>1. IInv'
  BY IInvUpdate DEF CInv
<1>2. /\ pc = "update" /\ params = L + 1 /\ L \in Nat
      /\ val_loss \in ValLoss /\ history \in Seq(HistoryEntry)
      /\ best_score \in ValLoss \cup {None}
      /\ best_state \in {None} \cup Snapshot
  BY DEF CInv, IInv, TypeInv, TypeOK, UpdateTrainingState, L
<1>3. /\ history' = Append(history, e)
      /\ Len(history') = L + 1
      /\ \A i \in 1..L : history'[i] = history[i]
      /\ history'[L + 1].val_loss = val_loss
  BY <1>2 DEF UpdateTrainingState, L, e
<1>4. state_dict_copy \in Snapshot /\ state_dict_copy.at_copy = L + 1
  BY <1>2 DEF state_dict_copy, Snapshot
<1>5. state_dict_copy # None /\ state_dict_copy.at_copy = L + 1
  BY <1>4, SentinelAssumption
<1>6. CASE best_score = None
  <2>1. best_score' = val_loss /\ best_state' = state_dict_copy
    BY <1>6 DEF UpdateTrainingState, ES!Call
  <2>2. L = 0
    BY <1>6 DEF CInv, IInv
  <2>3. ~ES!Beats(val_loss, val_loss)
    BY <1>2, BeatsIrreflexive
  <2>. QED  BY <1>1, <1>3, <1>5, <2>1, <2>2, <2>3
            DEF CInv, CheckpointIsBestSeen
<1>7. CASE best_score # None /\ ES!is_improved(val_loss)
  <2>1. best_score' = val_loss /\ best_state' = state_dict_copy
    BY <1>7 DEF UpdateTrainingState, ES!Call
  <2>2. ES!Beats(val_loss, best_score) /\ best_score \in ValLoss
    BY <1>2, <1>7 DEF ES!is_improved
  <2>3. best_state # None
    BY <1>7 DEF CInv, IInv
  <2>4. \A i \in 1..L : ~ES!Beats(history'[i].val_loss, val_loss)
    <3>0. CheckpointIsBestSeen
      BY DEF CInv
    <3>1. \A i \in 1..L : ~ES!Beats(history[i].val_loss, best_score)
      BY <2>3, <3>0 DEF CheckpointIsBestSeen, L
    <3>2. \A i \in 1..L : history[i].val_loss \in ValLoss
      <4>1. \A i \in 1..L : history[i] \in HistoryEntry
        BY <1>2 DEF L
      <4>. QED  BY <4>1 DEF HistoryEntry
    <3>. QED  BY <1>2, <1>3, <2>2, <3>1, <3>2, BeatsTransfer
  <2>5. ~ES!Beats(history'[L + 1].val_loss, val_loss)
    BY <1>2, <1>3, BeatsIrreflexive
  <2>6. \A i \in 1..L + 1 : ~ES!Beats(history'[i].val_loss, best_score')
    BY <1>2, <2>1, <2>4, <2>5
  <2>. QED  BY <1>1, <1>3, <1>5, <2>1, <2>6 DEF CInv, CheckpointIsBestSeen
<1>8. CASE best_score # None /\ ~ES!is_improved(val_loss)
  <2>1. best_score' = best_score /\ best_state' = best_state
    BY <1>8 DEF UpdateTrainingState, ES!Call
  <2>2. /\ best_state # None
        /\ best_state.at_copy \in 1..L
        /\ best_score = history[best_state.at_copy].val_loss
        /\ \A i \in 1..L : ~ES!Beats(history[i].val_loss, best_score)
    BY <1>8 DEF CInv, IInv, CheckpointIsBestSeen, L
  <2>3. ~ES!Beats(val_loss, best_score)
    BY <1>8 DEF ES!is_improved
  <2>4. \A i \in 1..L + 1 : ~ES!Beats(history'[i].val_loss, best_score')
    BY <1>3, <2>1, <2>2, <2>3
  <2>5. best_score' = history'[best_state'.at_copy].val_loss
    BY <1>3, <2>1, <2>2
  <2>. QED  BY <1>1, <1>3, <2>1, <2>2, <2>4, <2>5
            DEF CInv, CheckpointIsBestSeen
<1>. QED  BY <1>6, <1>7, <1>8

LEMMA CInvNext == CInv /\ [Next]_vars => CInv'
<1> SUFFICES ASSUME CInv, [Next]_vars PROVE CInv'
  OBVIOUS
<1>1. CASE UpdateTrainingState
  BY <1>1, CInvUpdate
<1>2. CASE ~UpdateTrainingState
  <2>1. IInv'
    BY IInvNext DEF CInv
  <2>2. UNCHANGED <<history, best_score, best_state>>
    BY <1>2 DEF Next, vars, TrainEpoch, LoopExhausted, ValidateEpoch,
                FinalizeTraining, ExportOnnx
  <2>. QED  BY <2>1, <2>2 DEF CInv, CheckpointIsBestSeen
<1>. QED  BY <1>1, <1>2

(* The checkpoint EarlyStopping keeps is an epoch of the history whose    *)
(* loss is best_score, and no epoch beat it by more than min_delta, for   *)
(* every patience, min_delta and loss sequence, NaN included.             *)
THEOREM CheckpointIsBestSeenHolds == Spec => []CheckpointIsBestSeen
<1>1. Init => CInv
  BY IInvInit DEF Init, ES!Init, CInv, CheckpointIsBestSeen
<1>2. CInv => CheckpointIsBestSeen
  BY DEF CInv
<1>. QED  BY <1>1, <1>2, CInvNext, PTL DEF Spec

=============================================================================
