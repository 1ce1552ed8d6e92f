------------------------------ MODULE MCTrainer ------------------------------
(* Small instance of Trainer for TLC.  Losses are on a grid whose unit is  *)
(* min_delta, so a drop of one unit is not an improvement for              *)
(* EarlyStopping while it is one for ReduceLROnPlateau.                    *)
EXTENDS TrainerRefinement

MCTrainLossValues == {1}
MCValLossValues == 0..3
=============================================================================
