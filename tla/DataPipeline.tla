---------------------------- MODULE DataPipeline ----------------------------
(***************************************************************************)
(* The data path of a training script's main(): load_training_data, the   *)
(* choice between the file's records and generate_synthetic_data(2000),   *)
(* normalize_features, ProductionTrainer.prepare_data(val_split=0.2), and  *)
(* the batch loops of the first _train_epoch and _validate_epoch.          *)
(*                                                                         *)
(* Records are counted, not represented: only their number decides the    *)
(* split and the batch sizes.  The train DataLoader has no drop_last, so   *)
(* its last batch holds split % BatchSize samples when that is non-zero.  *)
(***************************************************************************)
EXTENDS Naturals

CONSTANTS
    RecordCounts,    \* lengths the JSON list in the data file may have
    BatchSize,       \* ProductionTrainer(batch_size=32)
    MinRecords,      \* the len(raw_data) >= 100 test
    SyntheticN,      \* generate_synthetic_data(2000)
    Absent,          \* no file at data_path
    Malformed        \* a file json.load rejects

ASSUME CountsAssumption == RecordCounts \subseteq Nat
ASSUME BatchAssumption == BatchSize \in Nat \ {0}
(* The scripts use 100 and 2000; any threshold of at least 2 keeps both  *)
(* loaders non-empty.                                                      *)
ASSUME SizesAssumption ==
    MinRecords \in Nat /\ SyntheticN \in Nat /\ MinRecords >= 2 /\ SyntheticN >= 2

VARIABLES
    pc,          \* where main() is
    file,        \* the data file: Absent, Malformed or its record count
    n,           \* len(features) after the data choice
    split,       \* split_idx = int(len(features) * (1 - val_split))
    batch,       \* index of the next train batch, from 1
    crash        \* the uncaught exception that ended main(), or "none"

vars == <<pc, file, n, split, batch, crash>>

Init ==
    /\ pc = "load"
    /\ file \in {Absent, Malformed} \cup RecordCounts
    /\ n = 0
    /\ split = 0
    /\ batch = 0
    /\ crash = "none"

(* An exception nothing catches: the script ends with a traceback.         *)
Crash(e) ==
    /\ crash' = e
    /\ pc' = "crashed"

(* load_training_data: [] when the path does not exist, json.load         *)
(* otherwise (which raises on a malformed file).                          *)
LoadData ==
    /\ pc = "load"
    /\ IF file = Malformed
          THEN /\ Crash("json")
               /\ UNCHANGED n
          ELSE /\ n' = IF file = Absent THEN 0 ELSE file
               /\ pc' = "choose"
               /\ UNCHANGED crash
    /\ UNCHANGED <<file, split, batch>>

(* Mutant: the file's records are used whenever there are any.            *)
ChooseData_truthy ==
    /\ pc = "choose"
    /\ n' = IF n >= 1 THEN n ELSE SyntheticN
    /\ pc' = "split"
    /\ UNCHANGED <<file, split, batch, crash>>

(* if raw_data and len(raw_data) >= 100: the records, else synthetic data. *)
ChooseData ==
    /\ pc = "choose"
    /\ n' = IF n >= MinRecords THEN n ELSE SyntheticN
    /\ pc' = "split"
    /\ UNCHANGED <<file, split, batch, crash>>

(* normalize_features, the ProductionTrainer, then prepare_data: a        *)
(* permutation and split_idx = int(n * 0.8).                              *)
PrepareData ==
    /\ pc = "split"
    /\ split' = (n * 8) \div 10
    /\ batch' = 1
    /\ pc' = "train"
    /\ UNCHANGED <<file, n, crash>>

(* The size of train batch b: full, or what is left of the split.          *)
BatchLen(b) ==
    IF b * BatchSize <= split THEN BatchSize ELSE split - (b - 1) * BatchSize

(* One iteration of the loop of _train_epoch: the forward pass in train   *)
(* mode, loss, backward, clipping and the optimizer step.  The networks  *)
(* of all four scripts have nn.BatchNorm1d layers, which in train mode    *)
(* raise ValueError on a batch of one sample.                              *)
TrainBatch ==
    /\ pc = "train"
    /\ (batch - 1) * BatchSize < split
    /\ IF BatchLen(batch) = 1
          THEN /\ Crash("batchnorm")
               /\ UNCHANGED batch
          ELSE /\ batch' = batch + 1
               /\ UNCHANGED <<pc, crash>>
    /\ UNCHANGED <<file, n, split>>

(* The loop is over: total_loss / len(train_loader).                      *)
EndTrainPass ==
    /\ pc = "train"
    /\ (batch - 1) * BatchSize >= split
    /\ IF batch = 1
          THEN Crash("zerodiv")
          ELSE /\ pc' = "validate"
               /\ UNCHANGED crash
    /\ UNCHANGED <<file, n, split, batch>>

(* _validate_epoch: eval mode, any batch size, then                       *)
(* total_loss / len(val_loader).                                           *)
ValidatePass ==
    /\ pc = "validate"
    /\ IF n - split = 0
          THEN Crash("zerodiv")
          ELSE /\ pc' = "epoch_done"
               /\ UNCHANGED crash
    /\ UNCHANGED <<file, n, split, batch>>

Next ==
    \/ LoadData
    \/ ChooseData
    \/ PrepareData
    \/ TrainBatch
    \/ EndTrainPass
    \/ ValidatePass

Spec == Init /\ [][Next]_vars

-----------------------------------------------------------------------------
(* Every variable holds a value of its type.                               *)
TypeOK ==
    /\ pc \in {"load", "choose", "split", "train", "validate", "epoch_done",
               "crashed"}
    /\ file \in {Absent, Malformed} \cup RecordCounts
    /\ n \in Nat /\ split \in Nat /\ batch \in Nat
    /\ crash \in {"none", "json", "batchnorm", "zerodiv"}

(* Spec 7 (DataError is recovered by synthetic data): whatever the data   *)
(* file holds, neither loader is empty, so neither average divides by     *)
(* zero.                                                                   *)
NoEmptyLoader == crash # "zerodiv"

(* Spec 7: a data file of well-formed records trains; no training batch  *)
(* is a single sample that BatchNorm1d rejects.                           *)
NoSingletonBatch == crash # "batchnorm"

=============================================================================
