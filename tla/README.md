# Formal models of the ml-analytics training and explanation scripts

This directory holds TLA+ models of the Python code under
`src/backend/src/modules/ml-analytics/training/`. It also holds the TLC
configurations that model-check them and TLAPS proofs about the training loop,
its refinement of the abstract early-stopping rule, the data pipeline, the
export race and the explanation script.
`PROJECT.json` lists every run, every mutant, the map from each definition to the
source lines it models, the findings and the hazards.

## The system

There are two programs. They interact only through files on disk.

* **Training** is one script per model: `train_waste_predictor.py`,
  `train_time_estimator.py`, `train_algorithm_selector.py` and
  `train_anomaly_predictor.py`. Each `main()` does the following:
  1. Loads a JSON list of records (`utils/data_loader.py`). It uses them when
     there are at least 100, and otherwise uses 2000 synthetic rows.
  2. Z-scores the features.
  3. Builds a `ProductionTrainer` (`utils/trainer.py`) and splits the data
     80/20 into `DataLoader`s.
  4. Calls `train`, then `export_onnx`. The latter writes the `.onnx` artifact
     and then a `_metadata.json` side-car.

  `train` runs at most `epochs` epochs. Each epoch does the following:
  1. One training pass (`_train_epoch`).
  2. One validation pass (`_validate_epoch`).
  3. `_update_training_state`, which appends to `history`, steps
     `ReduceLROnPlateau` and calls `EarlyStopping`.

  The loop breaks when early stopping returns True. `_finalize_training` then
  reloads `EarlyStopping.best_state`.
* **Explanation** is `explain_model.py`, one process per request.
  1. It parses the input JSON.
  2. It takes the SHAP path when SHAP and onnxruntime import and the model file
     exists. That path is `load_onnx_model`, `load_background_data` and
     `generate_shap_explanation`.
  3. It falls back to `generate_mock_explanation` when the SHAP path is not
     taken, or when the `try` inside `generate_shap_explanation` fails.
  4. It prints one JSON object, or `{"error": ...}` with exit status 1.

## Modules

| Module | Models | State | Actions |
|---|---|---|---|
| `EarlyStopping` | `EarlyStopping` (trainer.py 27-64) | `counter`, `best_score`, `should_stop`, `best_state` | `Call(score, snapshot)`, i.e. `__call__`; `is_improved` |
| `Trainer` | `ProductionTrainer.train`, its helpers, the scheduler and `export_onnx` | the loop position `pc`, `epoch`, a parameter version `params`, the two losses, `history`, the scheduler's `lr_halvings`/`sched_best`/`num_bad_epochs`, the early stopper (by `INSTANCE`), `artifact`, `metadata` | `TrainEpoch`, `LoopExhausted`, `ValidateEpoch`, `UpdateTrainingState`, `FinalizeTraining`, `ExportOnnx` |
| `DataPipeline` | a script's `main()` up to the first epoch: `load_training_data`, the ≥100 test, `prepare_data`, the batch loops | `file`, `n`, `split`, `batch`, `crash` | `LoadData`, `ChooseData`, `PrepareData`, `TrainBatch`, `EndTrainPass`, `ValidatePass` |
| `Explainer` | `explain_model.py` | `pc`, the inputs fixed at start (input JSON, model type, imports, model file, output width, background argument), `background`, `out`, `exit_code` | `ParseInput`, `SelectPath`, `LoadModel`, `LoadBackground`, `GenerateShap`, `GenerateMock`, `Emit` |
| `EarlyStoppingSpec` | what early stopping promises (spec §2, §8), abstractly | `losses`, `best`, `stopped`, `finished` | `Epoch(l)`, `Exhausted` |
| `TrainerRefinement` | `Trainer` mapped onto `EarlyStoppingSpec` | | |
| `Export` | the files of one model type, shared by training processes (`export_onnx`, `_save_metadata`) and explain processes (`os.path.exists`, `load_onnx_model`) | `path_kind`, per-process `tpc`/`rpc`, `artifact` and `meta` as (run, complete), `result` | `OpenArtifact`, `WriteArtifact`, `OpenMetadata`, `WriteMetadata`, `Crash`, `CheckExists`, `LoadModel` |
| `AnomalyLabels` | the real-data label loop of `train_anomaly_predictor.py` | `raw_data`, `labels_list` | `EncodeRecord` |
| `TrainerProofs`, `TrainerRefinementProofs`, `ExportProofs`, `DataPipelineProofs`, `ExplainerProofs` | TLAPS proofs about `Trainer`, its refinement of `EarlyStoppingSpec`, `Export`, `DataPipeline` and `Explainer` | | |

The `MC*.tla` modules give the finite constants the `.cfg` files use.

### Abstractions

**Trainer**
* The network is opaque. `params` counts the training passes that updated the
  tensors in place.
* A pass returns any value of a small loss set, plus `NaN`. This
  over-approximates what gradient descent can produce.
* Losses are integers on a grid whose unit is `min_delta`.
* `NaN` is a model value. Every comparison with it is false, as in Python.
* `ReduceLROnPlateau` is modelled from its PyTorch semantics:
  * It is "better" when `a < best * (1 - 1e-4)`, i.e. `a*10000 < best*9999`.
  * It reduces when `num_bad_epochs > patience`, then resets `num_bad_epochs`
    to 0 (cooldown is 0).
  * The learning rate is a number of halvings, capped at `lr_floor` because
    `min_lr` stops it.
* `model.state_dict().copy()` is a dict of tensors that share storage with
  the parameters. A snapshot therefore records `shared = TRUE` together with the
  version at the time of the copy. `load_state_dict` of a shared snapshot
  reloads the current contents.

**DataPipeline**
* Only the number of records is kept.
* `int(n * 0.8)` is `(n * 8) \div 10`.
* The train `DataLoader` has no `drop_last`, so its last batch is
  `split % 32` samples when that is non-zero.
* The networks of all four scripts have `nn.BatchNorm1d` layers
  (`train_waste_predictor.py` 32, 38, 44 and the other three scripts at 30
  and 35 or 32 and 37), so a one-sample training batch raises in every
  script; which script runs does not change the data path and is not a
  variable.

**Explainer**
* Features are `1..NF` in sorted-name order.
* The mock coefficients are scaled by 100 to stay integral.
* An order on the features is a set of pairs `<<g, f>>`, `g` before `f`.
  `AbsOrder(c)` is the order of Python's stable `sorted(..., key=abs,
  reverse=True)`: `g` precedes `f` when `|c[g]| > |c[f]|`, or when they tie
  and `g < f` (the stable sort keeps the sorted-name order of ties).
  `NameOrder` is the order of `range(len(feature_names))`.
* `SortBy(S, R)` lists the features of `S` in the order `R`: the feature at
  position `i` is the one that `i - 1` features of `S` precede. A list
  comprehension with an `if` clause keeps the order of the list it walks, so
  `[... for name, contrib in sorted_contribs if contrib > 0]` is
  `SortBy(Positives(c), AbsOrder(c))`, and the SHAP path's comprehension over
  `range(...)` is `SortBy(Positives(c), NameOrder)`. This is written with
  `Cardinality` rather than TLC's `SortSeq` or `SelectSeq`, so that TLAPS can
  reason about it.
* Whether the loaded model has several outputs is fixed at start. It is true of
  the algorithm selector (3 outputs) and the anomaly predictor (5 outputs).

**Export**
* A file is the run whose bytes it holds and whether the write finished.
  `torch.onnx.export` opens the artifact "wb" (so it is truncated first) and
  then writes it; `json.dump` writes into a file `open(..., 'w')` truncated.
  Each is two steps, and a reader between them sees an incomplete file.
* Training before the export is one step (`Trainer` models it). A training
  process may die at any step before it finishes. Nothing in the code
  catches or recovers, so a dead process stays dead.
* The model directory may be empty or hold the complete artifact and side-car
  of an earlier run (`Previous`), which the first `torch.onnx.export` then
  overwrites.
* `path_kind` says whether a directory above `models/onnx` has `.onnx` in
  its name; then `str.replace` also rewrites the directory and `open` raises.
* An explain request is reduced to its exists check and its load. A complete
  artifact is explained with the model of the run that wrote it; an
  incomplete one makes `InferenceSession` raise, and `main()` exits 1.

**AnomalyLabels**
* Label values are scaled by 10. `hadAnomaly` is its truth value.

## Runs

All runs use `CHECK_DEADLOCK FALSE`. Each program terminates, and its final
state has no successor.

### Trainer (`MCTrainer`, which extends `TrainerRefinement`)

The bounds are `epochs = 6`, `patience = 3`, `min_delta = 1`,
`sched_patience = 1`, `lr_floor = 2`, validation losses `0..3` plus NaN, and
training loss `{1}` plus NaN. With these bounds the following all occur:
early stopping, running out of epochs, several LR reductions up to the floor,
NaN before and after a first best, and improvements both above and below
`min_delta`. The run reaches about 740k states in under a minute.

* `trainer_safety` (pass) checks four invariants and the refinement:
  * `TypeOK`.
  * `StopsPatienceAfterBest`: the run stops exactly `patience` epochs after the
    kept checkpoint.
  * `CheckpointIsBestSeen`: the checkpoint is the epoch whose loss is
    `best_score`, and no epoch beat it.
  * `LRReductionRate`: at most one halving per `sched_patience + 1` epochs.
  * `ImplementsEarlyStoppingSpec`: `Trainer` implements `EarlyStoppingSpec`
    under the mapping losses = the `val_loss` column of `history`, best =
    the checkpoint's `at_copy`, stopped = `should_stop`, finished = the loop
    has been left. The abstract spec keeps its best epoch incrementally: an
    epoch becomes the best when it is the first or improves on the loss of
    the best so far. This is a safety property: every step of `train()` is
    an abstract step or leaves the four mapped values unchanged.
* No fairness is assumed and no liveness is checked. The loop is
  `for epoch in range(self.epochs)` over a fixed budget and the rest of a run
  is straight-line code, so that a run ends says nothing about the code.
* `restores_best` (violation), `RestoresBestCheckpoint`: the exported
  parameters are the last epoch's, because the checkpoint is a shallow copy.
* `divergence_exported` (violation), `DivergenceNotExported`: a NaN history is
  exported.

### Export (`MCExport`)

* `export_safety` (pass): two training processes that may die anywhere, both
  path kinds, an empty directory or a previous run's export, two explain
  requests; about 6400 states.
  * `MetadataFollowsArtifact`: the side-car and the artifact never come from
    the same run while that run's artifact is incomplete. With two processes
    this covers their interleaved writes.
  * An explain request is straight-line code, so no liveness property is
    checked and no fairness is assumed.
* `export_unpaired` (violation), `ArtifactHasMatchingMetadata` (when no
  export is in progress, a complete model has its own run's complete
  side-car): one run, which may die, a plain path. TLC's trace starts from an
  empty directory: `torch.onnx.export` opens and completes the artifact, and
  the process dies before `_save_metadata`. The complete model has no
  side-car. Starting from the previous run's files, the same three steps
  leave it beside the previous run's side-car. With `PathKinds =
  {"onnx_dir"}` and `CanCrash = FALSE`, the failing `open` of the side-car
  path ends the run at the same point (finding 9).
* `explain_during_export` (violation), `RequestsNeverFail`: a request passes
  the exists check and then loads the half-rewritten artifact.

### AnomalyLabels (`AnomalyLabels.cfg`)

* `anomaly_quality_label` (violation), `TypeColumnsLabelled`: two records of
  every kind; a `quality_problem` record gets no type column.

### Explainer (`MCExplainer`)

* `explain_paths` (pass):
  * Bounds: 3 features, values `{-1,0,2}` plus a non-numeric value, SHAP values
    `{-1,0,1,2}`, three model types, every background argument, a model file
    that is absent, loadable or unloadable, with one output or several.
    About 128k states.
  * It checks `TypeOK`, `RankedImportancesSorted` and `FailsOnlyOutsideTry`.
    The last one says exactly when a well-formed input makes the script exit
    1: only when `load_onnx_model` raises on an unloadable file, or when a
    loadable model has several outputs and `float(expected_value)` raises.
    Both calls are outside the `try` of `generate_shap_explanation`. Every
    other failure falls back to the mock path.
* `explain_fallback` (pass):
  * No model is on disk and there are 6 features, so the `[:5]` cap matters.
  * It checks `TopContributorsRanked` on the mock path.
    (`RankedImportancesSorted` of this path is already checked by
    `explain_paths`.)
* `explain_uncaught` (violation), `WellFormedInputSucceeds`: the model file is
  valid with several outputs, or invalid. Both `float(expected_value)` and
  `load_onnx_model` raise outside the `try`.

### DataPipeline (`MCDataPipeline`)

* `data_pipeline` (pass), `NoEmptyLoader`:
  * File sizes are 0, 1, 99, 100, 121, 122, 123 and 161, plus an absent file
    and a malformed one.
  * No loader is ever empty, so the average never divides by zero.
  * This rests on the ≥100 test and the synthetic fallback.
* `singleton_batch` (violation), `NoSingletonBatch`: 122 records give a split
  of 97 = 3·32 + 1, and the one-sample batch crashes BatchNorm1d in train mode.

Every property of a passing run has a mutant in `PROJECT.json`: a plausible
bug in a mapped definition that TLC then catches.

## Findings

1. **Best checkpoint not restored.** `EarlyStopping.best_state` is
   `state_dict().copy()`, a shallow copy (trainer.py:42, :49), so the
   exported model is the last epoch's.
2. **NaN losses are not detected.** A diverged run is exported (spec §7
   says it must halt).
3. **Spec §8's "strictly decreasing never stops" contradicts `min_delta`**
   (trainer.py:63). Steps of exactly `min_delta` count as non-improving. This
   is the documented tolerance of the class, so no run restates it.
4. **SHAP path top contributors are in name order**, not ranked
   (explain_model.py:105-114). `GenerateShap` models it; setting
   `ModelFiles = {"valid"}` in `MCExplainer_Fallback.cfg` shows
   `TopContributorsRanked` violated.
5. **Multi-output models always crash the SHAP path**, with exit 1 instead of
   the fallback (explain_model.py:80).
6. **An unloadable model file exits 1** (explain_model.py:194).
7. **A last training batch of size 1 crashes** all four scripts for
   data sizes with `int(0.8 n) % 32 = 1` (trainer.py:149).

8. **A crash between the two export writes** leaves the new complete model
   beside no side-car (first export) or beside the previous run's
   `normParams` (trainer.py:272).
9. **`.replace('.onnx', ...)` rewrites directory names**, and the export then
   always fails after writing the artifact (trainer.py:276).
10. **Two overlapping runs** of one script can leave one run's model beside
    the other's metadata (trainer.py:261). The spec does not address it.
    `MCExport_Unpaired.cfg` with `Trainers <- MCTrainers` and `CanCrash =
    FALSE` shows it: both runs write their model, run 2's model survives, and
    run 1's side-car is written last.
11. **An explain request racing an export exits 1** (explain_model.py:194).
12. **`quality_problem` records get no type label** in the anomaly
    predictor's real-data labels (train_anomaly_predictor.py:157).

## Proofs

Five modules hold proofs: `TrainerProofs`, `TrainerRefinementProofs`,
`ExportProofs`, `DataPipelineProofs` and `ExplainerProofs`. Each is checked with
`tlapm <Module>.tla`. The
`Trainer` proofs hold for every value of the constants, given the named assumptions in `Trainer`:
* the bounds are naturals and `patience ≥ 1`;
* the loss sets are sets of naturals;
* `NaN`, `Inf` and `None` are distinct and are neither numbers nor snapshots.

**`TypeCorrect` (`Spec => []TypeOK`).** It is proved with the inductive
invariant `TypeInv`. This is `TypeOK` plus three facts that hold in the middle
of an epoch:
* the training loss is set at `validate` and `update`;
* the validation loss is set at `update`;
* `epoch < epochs` at both.

The lemmas `CallTyped` and `SchedulerStepTyped` cover the early-stopping call
and the scheduler step. `TypeInvNext` has one step per action.

**`StopsPatienceAfterBestHolds` (`Spec => []StopsPatienceAfterBest`).** The
invariant is not inductive as it stands. Its strengthening `IInv` adds:
* `should_stop` is false while the loop runs;
* `params` equals `Len(history)` at the top of the loop, and one more after
  the training pass;
* `best_score` and `best_state` are None together;
* `counter = Len(history) - best_state.at_copy` once there is a checkpoint;
* `counter ≤ patience`, and `should_stop ⇔ counter = patience`.

The key step is `IInvUpdate`. It covers the three branches of `Call`, which
set a first best, improve, or count a bad epoch. The snapshot taken in
`UpdateTrainingState` has `at_copy = Len(history')` because of the
`params` conjunct. `IInv` was checked by TLC as an invariant before it was
proved.

**`LRReductionRateHolds` (`Spec => []LRReductionRate`).** The strengthening
`LRInv` counts the scheduler's pending bad epochs as epochs too:
`lr_halvings * (sched_patience + 1) + num_bad_epochs <= Len(history)`. The
lemma `SchedulerStepBudget` shows one `scheduler.step` after one more epoch
keeps that budget: a reduction needs `num_bad_epochs + 1 > sched_patience`
and resets the count to 0.

**`CheckpointIsBestSeenHolds` (`Spec => []CheckpointIsBestSeen`).** The
strengthening `CInv` adds to `IInv` that there is a checkpoint as soon as
there is a history, since the first call always takes the first epoch. Two
lemmas about `Beats` carry it: no loss beats itself (`min_delta ≥ 0`), and
whatever does not beat the old best does not beat a new best that beat it.

**`MetadataFollowsArtifactHolds` (`ExportProofs`).** For any sets of
training processes and requests, with crashes and either path kind. The
invariant `IInv` says that a half-written artifact belongs to a process that
is still writing it or died doing so, and that the side-car is not that
process's; that the side-car's writer has left its artifact write behind it;
and that a request past its exists check saw a file. A half-written file
always belongs to one of the processes: the previous run's files are
complete. It assumes that `None` is not a file state and that `Previous` is
not one of the processes.

**`TrainerImplementsEarlyStopping` (`TrainerRefinementProofs`).** This is
`Spec => ImplementsEarlyStoppingSpec`, i.e.
`Spec => Abs!Init /\ [][Abs!ANext]_Abs!avars`, under the mapping of
`TrainerRefinement`. The invariant is `RInv`, which is `CInv` plus
`LoopEpoch`: inside the loop, `epoch = Len(history)`. TLC checked `RInv`
on the `MCTrainer` instance before it was proved. The step mapping is:
* `UpdateTrainingState` is `Epoch(val_loss)`, by the lemma `UpdateRefines`:
  * the mapped losses gain `val_loss` (lemma `AppendMapped`);
  * the checkpoint moves to the new epoch exactly when the history was empty
    or `_is_improved` holds, and `_is_improved` against `best_score` is
    `Improves` against the loss of the best epoch, by `CheckpointIsBestSeen`;
  * `should_stop'` is `counter' = patience`, and since
    `counter' = Len(history') - at_copy' ≤ patience` that is the abstract
    test `Len(losses') - best' ≥ patience` (lemma `CounterAtPatience`);
  * the loop is left exactly when `should_stop'` holds.
* `LoopExhausted` is `Exhausted`: `epoch ≥ epochs`, `epoch ≤ epochs` and
  `LoopEpoch` give `Len(losses) = epochs`.
* Every other step leaves the mapped state unchanged.

**`NoEmptyLoaderHolds` (`DataPipelineProofs`).** For every record count,
batch size and threshold, given `SizesAssumption`: the threshold and the
synthetic row count are at least 2 (the scripts use 100 and 2000). The
invariant adds to `NoEmptyLoader` that the data in use has at least 2 rows
once it is chosen, and that from the first epoch on, `split` is
`(n * 8) \div 10` and the batch size is positive. With `n ≥ 2` both
`split` and `n - split` are positive.

**`FailsOnlyOutsideTryHolds`, `ExplainerTypeCorrect`,
`RankedImportancesSortedHolds` and `TopContributorsRankedHolds`
(`ExplainerProofs`).** They hold for every feature count, value set and
model configuration. They assume `InputAssumption`: the two malformed-input
sentinels are not feature maps. The inductive invariant `IInv` is `TypeOK`
plus:
* the state each stage implies: SHAP and onnxruntime imported and the file
  present from `load` on, a loadable file from `background` on;
* that `exit_code` is unset until `done`;
* `FailsOnlyOutsideTry`;
* that an explanation is `MockOut(c)` for some integer contributions `c`, or
  `ShapResult(c)` and the model file is valid. `TypeOK` alone is not
  inductive: it says nothing of how the result was built, and the proof of
  each result property needs that.

The sorting argument is generic, over any set `S` of features and any
strict total order `R` on it (`StrictTotal`):
* `PositionRange`, `PositionStrict` and `PositionBijective`: the position of
  a feature is a bijection from `S` onto `1..Cardinality(S)` that respects
  `R`;
* `SortBySorted`: `SortBy(S, R)` lists every member of `S` once, in order `R`;
* `AbsOrderTotal` and `NameOrderTotal`: both orders are strict total orders;
* `RankingSorted`: the ranked list has length `NF`, holds every feature once,
  and is sorted by descending magnitude;
* `TakePrefix` and `TakeSortedTop`: the `[:5]` prefix of a list sorted by an
  order that respects a key `k` holds the (up to) five members with the
  largest keys, in descending order;
* `ResultTyped` and `MockTop`: both result objects have the type `Result`,
  and the mock result's two top lists are top lists for the keys `c` and
  `-c`.

These use `FS_Interval`, `FS_Subset`, `FS_AddElement`, `FS_RemoveElement`
and `FS_Injection` from `FiniteSetTheorems`.

`TopContributorsRankedHolds` assumes `"valid" \notin ModelFiles`: no file on
disk that `load_onnx_model` accepts. With a valid model the SHAP path builds
both top lists in name order, not by magnitude, and the property is false
(finding 4 above). The assumption generalises the `explain_fallback` run, whose
`ModelFiles` is `{"absent"}`. The proof picks the `c` with `out = MockOut(c)`
and applies `MockTop`.

### Only model-checked

Every property of a passing run is also proved. No liveness property is
stated: the training loop is bounded by its epoch budget and an explain
request is straight-line code, so that they end is not a question about the
code. (Liveness and `ENABLED` would in any case be beyond the TLAPS backends
used here.) `AnomalyLabels` has only a violation run.

## Not modelled yet, and the plan

1. **Feature order and normalization between trainer and explainer.** The
   explainer feeds raw features in sorted-name order. The model was trained on
   z-scored features in its declared order. This is a fixed fact about two
   lists of names, with no state to explore: a test shows it better.
2. **The label encodings of the algorithm selector and the time estimator**
   (`algo_map.get(..., 0)`, `min(t / 180, 1.0)`): data transformations with no
   control state.
3. **Out of scope:**
   * `normalize_features` and `save_metadata` in data_loader.py: pure
     arithmetic, and the latter is unused.
   * The synthetic generators and the architectures: numeric, no control state.
   * Seeding and device selection.
