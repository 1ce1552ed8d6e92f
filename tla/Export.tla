------------------------------- MODULE Export -------------------------------
(***************************************************************************)
(* The files one model type lives in, and the processes that touch them:   *)
(* training runs (a train_*.py main() ending in export_onnx) and           *)
(* explain_model.py requests that load the artifact.                       *)
(*                                                                         *)
(* export_onnx writes output_path with torch.onnx.export, which opens the *)
(* file "wb" (truncating it) and then writes the serialized model; then   *)
(* _save_metadata opens metadata_path "w" and json.dump writes into it.   *)
(* Neither write goes through a temporary file and a rename, and nothing   *)
(* locks the paths.  A file is modelled by the run whose content it holds *)
(* and whether that content is complete.                                   *)
(*                                                                         *)
(* The training before the export is one step here; Trainer models it.   *)
(* A training process may die at any point (an exception, a kill, an      *)
(* out-of-memory); nothing in the code recovers, so a dead run stays dead. *)
(* The files may already hold the model and side-car of an earlier run.   *)
(***************************************************************************)
EXTENDS Naturals

CONSTANTS
    Trainers,        \* training processes; each is one run, named by its id
    Requests,        \* explain_model.py processes
    PathKinds,       \* "plain", or "onnx_dir": a directory above the model
                     \* file has ".onnx" in its name
    CanCrash,        \* whether training processes may die
    Previous,        \* the earlier run whose export may already be on disk
    None

ASSUME PathAssumption == PathKinds \subseteq {"plain", "onnx_dir"}
ASSUME CrashAssumption == CanCrash \in BOOLEAN
ASSUME PreviousAssumption == Previous \notin Trainers

(* The content of a file: which run wrote it, and whether the write ended. *)
FileState == [run : Trainers \cup {Previous}, complete : BOOLEAN]

ASSUME NoneAssumption == None \notin FileState

VARIABLES
    path_kind,   \* the kind of output_path every run uses
    tpc,         \* tpc[t]: where training process t is
    artifact,    \* the .onnx file: None or a FileState
    meta,        \* the _metadata.json file: None or a FileState
    rpc,         \* rpc[r]: where explain request r is
    result       \* result[r]: how request r ended

vars == <<path_kind, tpc, artifact, meta, rpc, result>>

Init ==
    /\ path_kind \in PathKinds
    /\ tpc = [t \in Trainers |-> "training"]
    /\ \/ artifact = None /\ meta = None
       \/ /\ artifact = [run |-> Previous, complete |-> TRUE]
          /\ meta = [run |-> Previous, complete |-> TRUE]
    /\ rpc = [r \in Requests |-> "start"]
    /\ result = [r \in Requests |-> None]

-----------------------------------------------------------------------------
(* Training processes.                                                     *)

(* Mutant: the export is not awaited; the metadata is saved while the     *)
(* model is still being written.                                           *)
OpenArtifact_unawaited(t) ==
    /\ tpc[t] = "training"
    /\ artifact' = [run |-> t, complete |-> FALSE]
    /\ tpc' = [tpc EXCEPT ![t] = "saving_metadata"]
    /\ UNCHANGED <<path_kind, meta, rpc, result>>

(* torch.onnx.export opens output_path for writing: the old content is     *)
(* gone and t's model is not written yet.                                  *)
OpenArtifact(t) ==
    /\ tpc[t] = "training"
    /\ artifact' = [run |-> t, complete |-> FALSE]
    /\ tpc' = [tpc EXCEPT ![t] = "writing_artifact"]
    /\ UNCHANGED <<path_kind, meta, rpc, result>>

(* The serialized model is written and the file closed.                    *)
WriteArtifact(t) ==
    /\ tpc[t] = "writing_artifact"
    /\ artifact' = [run |-> t, complete |-> TRUE]
    /\ tpc' = [tpc EXCEPT ![t] = "saving_metadata"]
    /\ UNCHANGED <<path_kind, meta, rpc, result>>

(* _save_metadata: metadata_path = output_path.replace('.onnx',            *)
(* '_metadata.json') also rewrites a ".onnx" in a directory name, and      *)
(* open(metadata_path, 'w') then raises FileNotFoundError, which nothing   *)
(* catches.  Otherwise the file is opened and truncated.                   *)
OpenMetadata(t) ==
    /\ tpc[t] = "saving_metadata"
    /\ IF path_kind = "onnx_dir"
          THEN /\ tpc' = [tpc EXCEPT ![t] = "dead"]
               /\ UNCHANGED meta
          ELSE /\ meta' = [run |-> t, complete |-> FALSE]
               /\ tpc' = [tpc EXCEPT ![t] = "writing_metadata"]
    /\ UNCHANGED <<path_kind, artifact, rpc, result>>

(* json.dump finishes and the with block closes the file; main() returns. *)
WriteMetadata(t) ==
    /\ tpc[t] = "writing_metadata"
    /\ meta' = [run |-> t, complete |-> TRUE]
    /\ tpc' = [tpc EXCEPT ![t] = "finished"]
    /\ UNCHANGED <<path_kind, artifact, rpc, result>>

(* The process dies wherever it is; the files keep what was written.      *)
Crash(t) ==
    /\ CanCrash
    /\ tpc[t] \in {"training", "writing_artifact", "saving_metadata",
                   "writing_metadata"}
    /\ tpc' = [tpc EXCEPT ![t] = "dead"]
    /\ UNCHANGED <<path_kind, artifact, meta, rpc, result>>

-----------------------------------------------------------------------------
(* Explain requests (explain_model.py main() with SHAP and onnxruntime     *)
(* installed).                                                             *)

(* os.path.exists(args.model_path): no file means the mock explanation.   *)
CheckExists(r) ==
    /\ rpc[r] = "start"
    /\ IF artifact = None
          THEN /\ rpc' = [rpc EXCEPT ![r] = "done"]
               /\ result' = [result EXCEPT ![r] = "mock"]
          ELSE /\ rpc' = [rpc EXCEPT ![r] = "load"]
               /\ UNCHANGED result
    /\ UNCHANGED <<path_kind, tpc, artifact, meta>>

(* load_onnx_model: InferenceSession parses whatever the file holds now;  *)
(* a truncated or half-written model raises and main() exits 1.  A        *)
(* complete one is explained with the model of the run that wrote it.     *)
LoadModel(r) ==
    /\ rpc[r] = "load"
    /\ rpc' = [rpc EXCEPT ![r] = "done"]
    /\ result' = [result EXCEPT ![r] =
                    IF artifact.complete THEN artifact.run ELSE "error"]
    /\ UNCHANGED <<path_kind, tpc, artifact, meta>>

Next ==
    \/ \E t \in Trainers :
          \/ OpenArtifact(t) \/ WriteArtifact(t) \/ OpenMetadata(t)
          \/ WriteMetadata(t) \/ Crash(t)
    \/ \E r \in Requests : CheckExists(r) \/ LoadModel(r)

Spec == Init /\ [][Next]_vars

-----------------------------------------------------------------------------
(* Every variable holds a value of its type.                               *)
TypeOK ==
    /\ path_kind \in PathKinds
    /\ tpc \in [Trainers -> {"training", "writing_artifact", "saving_metadata",
                             "writing_metadata", "finished", "dead"}]
    /\ artifact \in {None} \cup FileState
    /\ meta \in {None} \cup FileState
    /\ rpc \in [Requests -> {"start", "load", "done"}]
    /\ result \in [Requests -> {None, "mock", "error", Previous} \cup Trainers]

(* No training process is between its first write and its exit.            *)
Quiescent == \A t \in Trainers : tpc[t] \in {"training", "finished", "dead"}

(* The side-car never describes a model that is not on disk in full: when *)
(* the metadata and the artifact come from the same run, the artifact is  *)
(* complete (export_onnx writes the model before _save_metadata).          *)
MetadataFollowsArtifact ==
    meta # None /\ artifact # None /\ meta.run = artifact.run =>
        artifact.complete

(* Spec 3: an artifact is paired 1:1 with its metadata: whenever no       *)
(* export is in progress, a complete model on disk has the complete       *)
(* side-car of the same run beside it (the normParams a caller needs to   *)
(* feed it).                                                               *)
ArtifactHasMatchingMetadata ==
    Quiescent /\ artifact # None /\ artifact.complete =>
        /\ meta # None
        /\ meta.complete
        /\ meta.run = artifact.run

(* Spec 7: every internal failure of the explanation engine is absorbed  *)
(* into a valid result; a request that found the model file is never     *)
(* failed by what the file holds.                                          *)
RequestsNeverFail == \A r \in Requests : result[r] # "error"

=============================================================================
