---------------------------- MODULE EarlyStopping ----------------------------
(***************************************************************************)
(* The EarlyStopping class of utils/trainer.py.  One object is created per *)
(* ProductionTrainer and called once per epoch with the validation loss.  *)
(*                                                                         *)
(* Scores are naturals on a grid whose unit is the training's min_delta    *)
(* resolution, plus the model value NaN: Python compares every float with  *)
(* NaN as False, so NaN never improves and NaN - min_delta is NaN.         *)
(* None is Python's None (no best score / no state yet).                   *)
(*                                                                         *)
(* The trainer only constructs EarlyStopping(patience, mode='min'), so the *)
(* mode 'max' branch of _is_improved is not reachable and is left out.     *)
(***************************************************************************)
EXTENDS Naturals

CONSTANTS
    patience,      \* EarlyStopping(patience=...)
    min_delta,     \* EarlyStopping(min_delta=...) in grid units
    NaN,           \* the float nan
    None           \* Python None

VARIABLES
    counter,       \* self.counter
    best_score,    \* self.best_score : None, a score or NaN
    should_stop,   \* self.should_stop
    best_state     \* self.best_state : None or what state_dict().copy() gave

es_vars == <<counter, best_score, should_stop, best_state>>

(* The object as __init__ leaves it.                                       *)
Init ==
    /\ counter = 0
    /\ best_score = None
    /\ should_stop = FALSE
    /\ best_state = None

(* Python's float "<": False as soon as one side is NaN.                   *)
FloatLess(a, b) == a # NaN /\ b # NaN /\ a < b

(* score < best - min_delta.  A NaN best makes the right-hand side NaN,   *)
(* so nothing beats a NaN best.                                            *)
Beats(score, best) ==
    /\ best # NaN
    /\ FloatLess(score, best - min_delta)

(* Mutant: _is_improved compares as in mode 'max' (score > best+min_delta). *)
is_improved_max(score) ==
    \/ best_score = None
    \/ /\ best_score # NaN
       /\ FloatLess(best_score + min_delta, score)

(* _is_improved in mode 'min'.                                             *)
is_improved(score) ==
    \/ best_score = None
    \/ Beats(score, best_score)

(* Mutant: an improvement records the new best but leaves counter alone.  *)
Call_no_reset(score, snapshot) ==
    \/ /\ best_score = None
       /\ best_score' = score
       /\ best_state' = snapshot
       /\ UNCHANGED <<counter, should_stop>>
    \/ /\ best_score # None
       /\ is_improved(score)
       /\ best_score' = score
       /\ best_state' = snapshot
       /\ UNCHANGED <<counter, should_stop>>
    \/ /\ best_score # None
       /\ ~is_improved(score)
       /\ counter' = counter + 1
       /\ should_stop' = (should_stop \/ counter + 1 >= patience)
       /\ UNCHANGED <<best_score, best_state>>

(* __call__(score, model): snapshot is the value model.state_dict().copy()  *)
(* evaluates to at the time of the call; the caller supplies it.  The      *)
(* method returns should_stop', which is FALSE after the first call.       *)
Call(score, snapshot) ==
    \/ /\ best_score = None
       /\ best_score' = score
       /\ best_state' = snapshot
       /\ UNCHANGED <<counter, should_stop>>
    \/ /\ best_score # None
       /\ is_improved(score)
       /\ best_score' = score
       /\ best_state' = snapshot
       /\ counter' = 0
       /\ UNCHANGED should_stop
    \/ /\ best_score # None
       /\ ~is_improved(score)
       /\ counter' = counter + 1
       /\ should_stop' = (should_stop \/ counter + 1 >= patience)
       /\ UNCHANGED <<best_score, best_state>>

=============================================================================
