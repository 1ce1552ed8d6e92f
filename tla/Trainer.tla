------------------------------- MODULE Trainer -------------------------------
(***************************************************************************)
(* ProductionTrainer of utils/trainer.py, driven as every training script  *)
(* drives it: train(train_loader, val_loader) and then export_onnx(...).   *)
(*                                                                         *)
(* The network is opaque.  Its parameters are abstracted to a version:     *)
(* the number of training passes that have updated them in place.  A      *)
(* pass's loss is an arbitrary value of TrainLossValues or ValLossValues   *)
(* (plus NaN): any sequence of losses is allowed, which over-approximates  *)
(* what gradient descent can produce.                                      *)
(*                                                                         *)
(* The learning rate is kept as the number of times ReduceLROnPlateau has  *)
(* halved it; lr_floor is the number of halvings after which               *)
(* max(lr * 0.5, min_lr) no longer changes it by more than eps.            *)
(***************************************************************************)
EXTENDS Naturals, Sequences

CONSTANTS
    epochs,          \* ProductionTrainer(epochs=...): the loop bound
    patience,        \* ProductionTrainer(patience=...) given to EarlyStopping
    min_delta,       \* EarlyStopping's min_delta in loss-grid units
    sched_patience,  \* ReduceLROnPlateau(patience=5)
    lr_floor,        \* halvings of lr=0.001 until min_lr=1e-6 is reached
    TrainLossValues, \* finite training losses a pass may average to
    ValLossValues,   \* finite validation losses a pass may average to
    NaN, Inf, None

ASSUME EpochsAssumption == epochs \in Nat
ASSUME PatienceAssumption == patience \in Nat \ {0}
ASSUME MinDeltaAssumption == min_delta \in Nat
ASSUME SchedPatienceAssumption == sched_patience \in Nat
ASSUME LRFloorAssumption == lr_floor \in Nat
ASSUME LossAssumption == TrainLossValues \subseteq Nat /\ ValLossValues \subseteq Nat
(* What model.state_dict().copy() is modelled by: whether its tensors     *)
(* share storage with the live parameters, and their version when copied. *)
Snapshot == [shared : BOOLEAN, at_copy : Nat]

ASSUME SentinelAssumption ==
    /\ NaN \notin Nat /\ Inf \notin Nat /\ None \notin Nat
    /\ NaN # Inf /\ NaN # None /\ Inf # None
    /\ None \notin Snapshot

VARIABLES
    pc,              \* where train()/export_onnx() is
    epoch,           \* the loop variable of train()
    params,          \* version of the live parameter tensors
    train_loss,      \* value returned by _train_epoch this epoch
    val_loss,        \* value returned by _validate_epoch this epoch
    history,         \* self.history, one record per epoch
    lr_halvings,     \* optimizer.param_groups[0]['lr'] as halvings of 0.001
    sched_best,      \* ReduceLROnPlateau.best (Inf at construction)
    num_bad_epochs,  \* ReduceLROnPlateau.num_bad_epochs
    counter, best_score, should_stop, best_state,   \* the EarlyStopping
    artifact,        \* parameters serialized by torch.onnx.export
    metadata         \* the side-car written by _save_metadata

ES == INSTANCE EarlyStopping

vars == <<pc, epoch, params, train_loss, val_loss, history, lr_halvings,
          sched_best, num_bad_epochs, counter, best_score, should_stop,
          best_state, artifact, metadata>>

TrainLoss == TrainLossValues \cup {NaN}
ValLoss == ValLossValues \cup {NaN}

(* model.state_dict() holds detached tensors that share storage with the   *)
(* parameters, and dict.copy() copies only the references.  A snapshot    *)
(* therefore records that it is shared, and at_copy, the version the      *)
(* tensors held when it was taken.                                         *)
state_dict_copy == [shared |-> TRUE, at_copy |-> params]

(* What load_state_dict(s) copies into the parameters: the current content *)
(* of shared tensors, or the content of an independent copy.               *)
Contents(s) == IF s.shared THEN params ELSE s.at_copy

(* ProductionTrainer.__init__ and prepare_data have run.                   *)
Init ==
    /\ pc = "train"
    /\ epoch = 0
    /\ params = 0
    /\ train_loss = None
    /\ val_loss = None
    /\ history = <<>>
    /\ lr_halvings = 0
    /\ sched_best = Inf
    /\ num_bad_epochs = 0
    /\ ES!Init
    /\ artifact = None
    /\ metadata = None

-----------------------------------------------------------------------------
(* ReduceLROnPlateau(mode='min', factor=0.5, patience=5, min_lr=1e-6),     *)
(* threshold 1e-4 relative, cooldown 0.                                    *)

(* Mutant: the first metric is always taken as the best, NaN included.    *)
sched_is_better_first(a, best) ==
    \/ best = Inf
    \/ a # NaN /\ a * 10000 < best * 9999

(* is_better: a < best * (1 - 1e-4); NaN is never better; Inf is beaten   *)
(* by every finite loss.                                                   *)
sched_is_better(a, best) ==
    /\ a # NaN
    /\ \/ best = Inf
       \/ a * 10000 < best * 9999

(* _reduce_lr: new_lr = max(old_lr * 0.5, min_lr), set only when it       *)
(* differs from old_lr by more than eps.                                   *)
reduce_lr(h) == IF h < lr_floor THEN h + 1 ELSE h

(* Mutant: num_bad_epochs is not reset after a reduction.                 *)
SchedulerStep_no_reset(metrics) ==
    LET better == sched_is_better(metrics, sched_best)
        bad    == IF better THEN 0 ELSE num_bad_epochs + 1
    IN  /\ sched_best' = IF better THEN metrics ELSE sched_best
        /\ IF bad > sched_patience
              THEN /\ lr_halvings' = reduce_lr(lr_halvings)
                   /\ num_bad_epochs' = bad
              ELSE /\ lr_halvings' = lr_halvings
                   /\ num_bad_epochs' = bad

(* scheduler.step(metrics)                                                 *)
SchedulerStep(metrics) ==
    LET better == sched_is_better(metrics, sched_best)
        bad    == IF better THEN 0 ELSE num_bad_epochs + 1
    IN  /\ sched_best' = IF better THEN metrics ELSE sched_best
        /\ IF bad > sched_patience
              THEN /\ lr_halvings' = reduce_lr(lr_halvings)
                   /\ num_bad_epochs' = 0
              ELSE /\ lr_halvings' = lr_halvings
                   /\ num_bad_epochs' = bad

-----------------------------------------------------------------------------
(* The loop of train(): another epoch while epoch < self.epochs, then one  *)
(* full _train_epoch pass that updates the parameters in place.            *)
TrainEpoch ==
    /\ pc = "train"
    /\ epoch < epochs
    /\ \E l \in TrainLoss : train_loss' = l
    /\ params' = params + 1
    /\ pc' = "validate"
    /\ UNCHANGED <<epoch, val_loss, history, lr_halvings, sched_best,
                   num_bad_epochs, counter, best_score, should_stop,
                   best_state, artifact, metadata>>

(* The for loop runs out of epochs.                                        *)
LoopExhausted ==
    /\ pc = "train"
    /\ epoch >= epochs
    /\ pc' = "finalize"
    /\ UNCHANGED <<epoch, params, train_loss, val_loss, history, lr_halvings,
                   sched_best, num_bad_epochs, counter, best_score,
                   should_stop, best_state, artifact, metadata>>

(* _validate_epoch: eval mode, no_grad; the parameters are not touched.    *)
ValidateEpoch ==
    /\ pc = "validate"
    /\ \E l \in ValLoss : val_loss' = l
    /\ pc' = "update"
    /\ UNCHANGED <<epoch, params, train_loss, history, lr_halvings,
                   sched_best, num_bad_epochs, counter, best_score,
                   should_stop, best_state, artifact, metadata>>

(* _update_training_state: the current lr is read, the three history      *)
(* lists are appended, scheduler.step(val_loss), then early_stopping(...); *)
(* train() breaks out of its loop when that returns True.                  *)
UpdateTrainingState ==
    /\ pc = "update"
    /\ history' = Append(history, [train_loss |-> train_loss,
                                   val_loss |-> val_loss,
                                   learning_rate |-> lr_halvings])
    /\ SchedulerStep(val_loss)
    /\ ES!Call(val_loss, state_dict_copy)
    /\ IF should_stop'
          THEN /\ pc' = "finalize"
               /\ epoch' = epoch
          ELSE /\ pc' = "train"
               /\ epoch' = epoch + 1
    /\ UNCHANGED <<params, train_loss, val_loss, artifact, metadata>>

(* _finalize_training: load_state_dict(best_state) when there is one.      *)
FinalizeTraining ==
    /\ pc = "finalize"
    /\ params' = IF best_state # None THEN Contents(best_state) ELSE params
    /\ pc' = "export"
    /\ UNCHANGED <<epoch, train_loss, val_loss, history, lr_halvings,
                   sched_best, num_bad_epochs, counter, best_score,
                   should_stop, best_state, artifact, metadata>>

(* export_onnx: torch.onnx.export of the current parameters, then          *)
(* _save_metadata with the last history entries and the epoch count.      *)
ExportOnnx ==
    /\ pc = "export"
    /\ artifact' = params
    /\ metadata' =
         [epochs         |-> Len(history),
          finalTrainLoss |-> IF history = <<>> THEN None
                             ELSE history[Len(history)].train_loss,
          finalValLoss   |-> IF history = <<>> THEN None
                             ELSE history[Len(history)].val_loss]
    /\ pc' = "done"
    /\ UNCHANGED <<epoch, params, train_loss, val_loss, history, lr_halvings,
                   sched_best, num_bad_epochs, counter, best_score,
                   should_stop, best_state>>

Next ==
    \/ TrainEpoch
    \/ LoopExhausted
    \/ ValidateEpoch
    \/ UpdateTrainingState
    \/ FinalizeTraining
    \/ ExportOnnx

Spec == Init /\ [][Next]_vars

-----------------------------------------------------------------------------
(* One entry of self.history, a snapshot, and the side-car's content.     *)
HistoryEntry == [train_loss : TrainLoss, val_loss : ValLoss,
                 learning_rate : 0..lr_floor]
Metadata == [epochs : Nat, finalTrainLoss : TrainLoss \cup {None},
             finalValLoss : ValLoss \cup {None}]

(* Every variable holds a value of its Python type.                        *)
TypeOK ==
    /\ pc \in {"train", "validate", "update", "finalize", "export", "done"}
    /\ epoch \in 0..epochs
    /\ params \in Nat
    /\ train_loss \in TrainLoss \cup {None}
    /\ val_loss \in ValLoss \cup {None}
    /\ history \in Seq(HistoryEntry)
    /\ lr_halvings \in 0..lr_floor
    /\ sched_best \in ValLossValues \cup {Inf}
    /\ num_bad_epochs \in 0..sched_patience
    /\ counter \in Nat
    /\ best_score \in ValLoss \cup {None}
    /\ should_stop \in BOOLEAN
    /\ best_state \in {None} \cup Snapshot
    /\ artifact \in Nat \cup {None}
    /\ metadata \in {None} \cup Metadata

(* Early stopping (EarlyStopping.__call__ with the break in train()): the  *)
(* run stops exactly when `patience` epochs have passed since the epoch of *)
(* the best checkpoint, and never runs further past it (spec section 8).   *)
StopsPatienceAfterBest ==
    best_state # None =>
        /\ Len(history) - best_state.at_copy <= patience
        /\ (should_stop <=> Len(history) - best_state.at_copy = patience)

(* The checkpoint EarlyStopping keeps is the epoch whose validation loss   *)
(* is best_score, and no epoch of the history beat it by more than         *)
(* min_delta: what _finalize_training restores is the best model seen.     *)
CheckpointIsBestSeen ==
    best_state # None =>
        /\ best_state.at_copy \in 1..Len(history)
        /\ best_score = history[best_state.at_copy].val_loss
        /\ \A i \in 1..Len(history) : ~ES!Beats(history[i].val_loss, best_score)

(* ReduceLROnPlateau halves the learning rate at most once per             *)
(* sched_patience + 1 epochs: it needs more than sched_patience bad epochs *)
(* and starts counting afresh after each reduction.                        *)
LRReductionRate == lr_halvings * (sched_patience + 1) <= Len(history)

(* Spec 4.4 and 8: the trained model is the best checkpoint's parameters,  *)
(* not the final epoch's.                                                  *)
RestoresBestCheckpoint ==
    pc \in {"export", "done"} /\ best_state # None =>
        params = best_state.at_copy

(* Spec 7: a divergent (NaN) loss halts training; no artifact is exported *)
(* from a run whose history holds a NaN loss.                              *)
DivergenceNotExported ==
    artifact # None =>
        \A i \in 1..Len(history) :
            history[i].train_loss # NaN /\ history[i].val_loss # NaN

=============================================================================
