------------------------- MODULE DataPipelineProofs -------------------------
(* Proofs about DataPipeline for every record count, batch size and        *)
(* threshold the assumptions of DataPipeline allow.                        *)
EXTENDS DataPipeline, TLAPS

(* Inductive strengthening of NoEmptyLoader: once the data is chosen      *)
(* there are at least two samples, and from the split on, split is        *)
(* int(0.8 n) and the train loop has started at batch 1.                   *)
IInv ==
    /\ TypeOK
    /\ NoEmptyLoader
    /\ pc \in {"split", "train", "validate", "epoch_done"} => n >= 2
    /\ pc \in {"train", "validate", "epoch_done"} =>
          split = (n * 8) \div 10 /\ batch >= 1

USE CountsAssumption, BatchAssumption, SizesAssumption

LEMMA IInvInit == Init => IInv
  BY DEF Init, IInv, TypeOK, NoEmptyLoader

LEMMA IInvNext == IInv /\ [Next]_vars => IInv'
  <1> SUFFICES ASSUME IInv, [Next]_vars PROVE IInv'
    OBVIOUS
  <1> USE DEF IInv, TypeOK, NoEmptyLoader
  <1>1. CASE LoadData
    <2>1. CASE file = Malformed
      BY <1>1, <2>1 DEF LoadData, Crash
    <2>2. CASE file # Malformed
      <3>1. n' \in Nat
        <4>1. CASE file = Absent
          BY <1>1, <2>2, <4>1 DEF LoadData
        <4>2. CASE file # Absent
          <5>1. file \in RecordCounts
            BY <2>2, <4>2
          <5>2. n' = file
            BY <1>1, <2>2, <4>2 DEF LoadData
          <5> QED
            BY <5>1, <5>2
        <4> QED
          BY <4>1, <4>2
      <3> QED
        BY <1>1, <2>2, <3>1 DEF LoadData
    <2> QED
      BY <2>1, <2>2
  <1>2. CASE ChooseData
    BY <1>2 DEF ChooseData
  <1>3. CASE PrepareData
    BY <1>3 DEF PrepareData
  <1>4. CASE TrainBatch
    BY <1>4 DEF TrainBatch, Crash
  <1>5. CASE EndTrainPass
    <2>1. split >= 1
      BY <1>5 DEF EndTrainPass
    <2>2. batch # 1
      BY <1>5, <2>1 DEF EndTrainPass
    <2> QED
      BY <1>5, <2>2 DEF EndTrainPass, Crash
  <1>6. CASE ValidatePass
    <2>1. n - split # 0
      BY <1>6 DEF ValidatePass
    <2> QED
      BY <1>6, <2>1 DEF ValidatePass, Crash
  <1>7. CASE UNCHANGED vars
    BY <1>7 DEF vars
  <1> QED
    BY <1>1, <1>2, <1>3, <1>4, <1>5, <1>6, <1>7 DEF Next

(* Spec 7: whatever the data file holds (absent, malformed, empty or any  *)
(* number of records), neither the train nor the validation loader of the *)
(* first epoch is empty, so neither average divides by zero.              *)
THEOREM NoEmptyLoaderHolds == Spec => []NoEmptyLoader
  <1>1. IInv => NoEmptyLoader
    BY DEF IInv
  <1> QED
    BY IInvInit, IInvNext, <1>1, PTL DEF Spec
=============================================================================
