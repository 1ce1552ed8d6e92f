----------------------------- MODULE MCExplainer -----------------------------
(* Finite instances of Explainer for TLC.                                  *)
EXTENDS Explainer

(* --model_type values: two with their own mock rule, one without.         *)
MCModelTypes == {"waste_predictor", "time_estimator", "algorithm_selector"}

(* Feature values and SHAP values: signs, a zero, and ties in |value|.     *)
MCInputVals == {-1, 0, 2}
MCShapVals == {-1, 0, 1, 2}
=============================================================================
