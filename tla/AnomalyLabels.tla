---------------------------- MODULE AnomalyLabels ----------------------------
(***************************************************************************)
(* The label vectors train_anomaly_predictor.py builds from real records  *)
(* (the for loop of main()).  AnomalyPredictorNN's five outputs are       *)
(* [RiskScore, P(HighWaste), P(SlowProd), P(MachineIssue),                 *)
(* P(QualityProblem)]: column c of a label vector is the target of the    *)
(* c-th type of ANOMALY_TYPES.  Label values are scaled by 10 (0.8 is 8). *)
(***************************************************************************)
EXTENDS Naturals, Sequences, TLC

CONSTANTS
    NRecords,        \* len(raw_data)
    None             \* a record without 'anomalyType'

ANOMALY_TYPES == <<"high_waste", "slow_production", "machine_issue",
                   "quality_problem">>

(* The fields of a record the loop reads: r.get('hadAnomaly', 0) as a     *)
(* truth value and r.get('anomalyType').                                   *)
Record == [hadAnomaly : BOOLEAN,
           anomalyType : {ANOMALY_TYPES[c] : c \in 1..4} \cup {None}]

(* The elif chain: the column each anomaly type sets to 1.0.              *)
TypeColumn == ("high_waste" :> 1) @@ ("slow_production" :> 2)
                @@ ("machine_issue" :> 3)

(* label_vec for one record: risk 0.8 and its type's column with an       *)
(* anomaly, risk 0.1 otherwise.                                            *)
LabelVec(r) ==
    [k \in 0..4 |->
        IF k = 0 THEN (IF r.hadAnomaly THEN 8 ELSE 1)
        ELSE IF /\ r.hadAnomaly
                /\ r.anomalyType \in DOMAIN TypeColumn
                /\ TypeColumn[r.anomalyType] = k
             THEN 10
             ELSE 0]

VARIABLES
    raw_data,        \* the records json.load returned
    labels_list      \* the label vectors built so far

vars == <<raw_data, labels_list>>

(* The file held at least 100 records, so the real-data branch is taken;  *)
(* the records are abstracted to their NRecords last ones.                 *)
Init ==
    /\ raw_data \in [1..NRecords -> Record]
    /\ labels_list = <<>>

(* One iteration of `for r in raw_data`.                                   *)
EncodeRecord ==
    /\ Len(labels_list) < NRecords
    /\ labels_list' = Append(labels_list, LabelVec(raw_data[Len(labels_list) + 1]))
    /\ UNCHANGED raw_data

Spec == Init /\ [][EncodeRecord]_vars

-----------------------------------------------------------------------------
(* Every anomaly type ANOMALY_TYPES names is a training target: a record  *)
(* with an anomaly of the c-th type gets 1.0 in the output column of that *)
(* type (the model's docstring and its four-way type head).               *)
TypeColumnsLabelled ==
    \A j \in 1..Len(labels_list), c \in 1..4 :
        raw_data[j].hadAnomaly /\ raw_data[j].anomalyType = ANOMALY_TYPES[c] =>
            labels_list[j][c] = 10

=============================================================================
