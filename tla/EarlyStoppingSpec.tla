-------------------------- MODULE EarlyStoppingSpec --------------------------
(***************************************************************************)
(* What the training loop promises about early stopping (spec sections 2  *)
(* and 8), stated over the sequence of validation losses alone: the       *)
(* retained best epoch is the last one that improved on the best before  *)
(* it, training halts once `patience` epochs have followed it without an  *)
(* improvement or once the epoch budget is spent.                         *)
(*                                                                         *)
(* Improves(a, b) is "loss a improves on best loss b"; the first epoch is *)
(* the best until something improves on it.                               *)
(***************************************************************************)
EXTENDS Naturals, Sequences

CONSTANTS
    epochs,          \* the epoch budget
    patience,        \* epochs without improvement that end training
    Losses,          \* the losses an epoch may report
    Improves(_, _)

VARIABLES
    losses,          \* the validation loss of every epoch so far
    best,            \* index of the retained best epoch, 0 before any
    stopped,         \* early stopping has fired
    finished         \* training is over

avars == <<losses, best, stopped, finished>>

Init ==
    /\ losses = <<>>
    /\ best = 0
    /\ stopped = FALSE
    /\ finished = FALSE

(* One epoch reports loss l.  It becomes the best epoch when it is the    *)
(* first or improves on the loss of the best so far; training ends with   *)
(* it when patience epochs have now followed the best.                    *)
Epoch(l) ==
    /\ ~finished
    /\ Len(losses) < epochs
    /\ losses' = Append(losses, l)
    /\ best' = IF losses = <<>> \/ Improves(l, losses[best])
                THEN Len(losses') ELSE best
    /\ stopped' = (Len(losses') - best' >= patience)
    /\ finished' = stopped'

(* The budget is spent without early stopping.                             *)
Exhausted ==
    /\ ~finished
    /\ Len(losses) = epochs
    /\ finished' = TRUE
    /\ UNCHANGED <<losses, best, stopped>>

ANext == (\E l \in Losses : Epoch(l)) \/ Exhausted

Spec == Init /\ [][ANext]_avars

=============================================================================
