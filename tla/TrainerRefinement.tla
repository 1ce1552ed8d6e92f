------------------------- MODULE TrainerRefinement -------------------------
(***************************************************************************)
(* ProductionTrainer.train implements the abstract early-stopping         *)
(* specification: the abstract losses are the val_loss column of         *)
(* self.history, the best epoch is the version the kept checkpoint was    *)
(* copied at, stopping is EarlyStopping.should_stop, and training is over *)
(* once _finalize_training is reached.                                     *)
(***************************************************************************)
EXTENDS Trainer

(* EarlyStopping._is_improved in mode 'min', on two losses.                *)
Improves(a, b) == ES!Beats(a, b)

Abs == INSTANCE EarlyStoppingSpec WITH
    Losses   <- ValLoss,
    losses   <- [i \in 1..Len(history) |-> history[i].val_loss],
    best     <- IF best_state = None THEN 0 ELSE best_state.at_copy,
    stopped  <- should_stop,
    finished <- pc \in {"finalize", "export", "done"}

(* The counter-based EarlyStopping, the break and the epoch loop of       *)
(* train() stop exactly where the abstract rule does and keep its best    *)
(* epoch: every step of train() is a step of the abstract rule or leaves  *)
(* its losses, best epoch, stop flag and end of training unchanged.       *)
ImplementsEarlyStoppingSpec == Abs!Spec

=============================================================================
