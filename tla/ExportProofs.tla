---------------------------- MODULE ExportProofs ----------------------------
(***************************************************************************)
(* Proof that export_onnx's write order keeps the side-car from ever      *)
(* describing a half-written model, for any number of training processes *)
(* and requests, with crashes and either kind of output path.             *)
(***************************************************************************)
EXTENDS Export, TLAPS

(* A half-written file's writer is one of the training processes (the    *)
(* earlier run's files on disk are complete), and a process that owns the *)
(* half-written artifact has not written metadata.                         *)
IInv ==
    /\ TypeOK
    (* a half-written artifact belongs to a run still writing it, or to   *)
    (* one that died doing so, and the side-car is not that run's         *)
    /\ artifact # None /\ ~artifact.complete =>
          /\ artifact.run \in Trainers
          /\ tpc[artifact.run] \in {"writing_artifact", "dead"}
          /\ (meta # None => meta.run # artifact.run)
    (* the side-car of one of these runs: the run has left the export of  *)
    (* its model behind it                                                 *)
    /\ meta # None /\ meta.run \in Trainers =>
          tpc[meta.run] \in {"writing_metadata", "finished", "dead"}
    (* a request past its exists check saw a file, and files never vanish *)
    /\ \A r \in Requests : rpc[r] = "load" => artifact # None

-----------------------------------------------------------------------------
(* The initial state, with no files or the earlier run's complete pair,   *)
(* satisfies the invariant.                                                *)
LEMMA IInvInit == Init => IInv
<1> SUFFICES ASSUME Init PROVE IInv
    OBVIOUS
<1>1. /\ tpc \in [Trainers -> {"training", "writing_artifact", "saving_metadata",
                               "writing_metadata", "finished", "dead"}]
      /\ rpc \in [Requests -> {"start", "load", "done"}]
      /\ result \in [Requests -> {None, "mock", "error", Previous} \cup Trainers]
      /\ path_kind \in PathKinds
      /\ \A r \in Requests : rpc[r] # "load"
    BY DEF Init
<1>2. CASE artifact = None /\ meta = None
    BY <1>1, <1>2 DEF IInv, TypeOK
<1>3. CASE /\ artifact = [run |-> Previous, complete |-> TRUE]
           /\ meta = [run |-> Previous, complete |-> TRUE]
    <2>1. artifact \in FileState /\ meta \in FileState
        BY <1>3 DEF FileState
    <2>2. artifact.complete /\ meta.run \notin Trainers
        BY <1>3, PreviousAssumption
    <2> QED
        BY <1>1, <2>1, <2>2 DEF IInv, TypeOK
<1> QED
    BY <1>2, <1>3 DEF Init

(* Every step of a training process or a request preserves the invariant. *)
LEMMA IInvNext == IInv /\ [Next]_vars => IInv'
<1> SUFFICES ASSUME IInv, [Next]_vars PROVE IInv'
    OBVIOUS
<1> USE NoneAssumption, PreviousAssumption DEF IInv, TypeOK, FileState
<1>1. ASSUME NEW t \in Trainers, OpenArtifact(t) PROVE IInv'
    <2>1. artifact' = [run |-> t, complete |-> FALSE]
        BY <1>1 DEF OpenArtifact
    <2>2. artifact' \in FileState
        BY <2>1
    <2>3. artifact' # None
        BY <2>2, NoneAssumption
    <2>4. meta # None => meta.run # t
        BY <1>1 DEF OpenArtifact
    <2> QED
        BY <1>1, <2>1, <2>2, <2>3, <2>4 DEF OpenArtifact
<1>2. ASSUME NEW t \in Trainers, WriteArtifact(t) PROVE IInv'
    <2>1. artifact' = [run |-> t, complete |-> TRUE]
        BY <1>2 DEF WriteArtifact
    <2>2. artifact' \in FileState
        BY <2>1
    <2>3. artifact' # None
        BY <2>2, NoneAssumption
    <2>4. artifact'.complete
        BY <2>1
    <2> QED
        BY <1>2, <2>2, <2>3, <2>4 DEF WriteArtifact
<1>3. ASSUME NEW t \in Trainers, OpenMetadata(t) PROVE IInv'
    <2>1. CASE path_kind = "onnx_dir"
        BY <1>3, <2>1 DEF OpenMetadata
    <2>2. CASE path_kind # "onnx_dir"
        <3>1. meta' = [run |-> t, complete |-> FALSE]
            BY <1>3, <2>2 DEF OpenMetadata
        <3>2. meta' \in FileState
            BY <3>1
        <3>3. meta' # None
            BY <3>2, NoneAssumption
        <3>4. artifact # None /\ ~artifact.complete => artifact.run # t
            BY <1>3 DEF OpenMetadata
        <3> QED
            BY <1>3, <2>2, <3>1, <3>2, <3>3, <3>4 DEF OpenMetadata
    <2> QED
        BY <2>1, <2>2
<1>4. ASSUME NEW t \in Trainers, WriteMetadata(t) PROVE IInv'
    BY <1>4 DEF WriteMetadata
<1>5. ASSUME NEW t \in Trainers, Crash(t) PROVE IInv'
    BY <1>5 DEF Crash
<1>6. ASSUME NEW r \in Requests, CheckExists(r) PROVE IInv'
    BY <1>6 DEF CheckExists
<1>7. ASSUME NEW r \in Requests, LoadModel(r) PROVE IInv'
    BY <1>7 DEF LoadModel
<1>8. CASE UNCHANGED vars
    BY <1>8 DEF vars
<1> QED
    BY <1>1, <1>2, <1>3, <1>4, <1>5, <1>6, <1>7, <1>8 DEF Next

(* export_onnx's order (model, then side-car) keeps the side-car from     *)
(* ever naming a model that is not completely on disk, whatever the       *)
(* number of concurrent runs and wherever they die.                        *)
THEOREM MetadataFollowsArtifactHolds == Spec => []MetadataFollowsArtifact
<1>1. IInv => MetadataFollowsArtifact
    BY NoneAssumption DEF IInv, TypeOK, MetadataFollowsArtifact
<1> QED
    BY IInvInit, IInvNext, <1>1, PTL DEF Spec

=============================================================================
