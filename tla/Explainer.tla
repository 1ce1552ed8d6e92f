------------------------------ MODULE Explainer ------------------------------
(***************************************************************************)
(* One run of explain_model.py: main() parses the input, tries the SHAP    *)
(* path (load_onnx_model, load_background_data, generate_shap_explanation) *)
(* and falls back to generate_mock_explanation, then prints one JSON      *)
(* object, or an {"error": ...} object with exit status 1.                 *)
(*                                                                         *)
(* Features are named 1..NF in the order sorted() puts their names in.    *)
(* Everything the process does not decide itself is fixed by Init: the    *)
(* input JSON, the --model_type argument, which imports succeeded, the    *)
(* model file on disk and whether the model has one output or several.   *)
(* What the SHAP library computes is a choice inside the action that      *)
(* calls it.  Contributions are integers: the mock coefficients 0.01,     *)
(* 0.05 and 0.02 are scaled by 100.                                       *)
(***************************************************************************)
EXTENDS Integers, Sequences, FiniteSets

CONSTANTS
    NF,              \* number of keys of the input object
    InputVals,       \* numeric feature values the input may hold
    ShapVals,        \* values KernelExplainer.shap_values may return
    ModelTypes,      \* --model_type arguments
    BgArgs,          \* what --background_data names
    ModelFiles,      \* what args.model_path may be on disk
    OutputShapes,    \* TRUE: a model with several outputs may be loaded
    NonNumeric,      \* a JSON value float() rejects (a string, null)
    BadJson,         \* an --input_data that json.loads rejects
    NotObject,       \* valid JSON that is not an object (a list, a number)
    ErrorJson,       \* the {"error": ...} object main() prints on failure
    None

ASSUME NFAssumption == NF \in Nat \ {0}
ASSUME ValsAssumption == InputVals \subseteq Int /\ ShapVals \subseteq Int
ASSUME BgAssumption == BgArgs \subseteq {"none", "missing", "readable", "unreadable"}
ASSUME ModelFileAssumption == ModelFiles \subseteq {"absent", "valid", "invalid"}
ASSUME OutputShapeAssumption == OutputShapes \subseteq BOOLEAN

(* The [:5] of both topContributors lists.                                *)
TopK == 5

Feat == 1..NF

Inputs == {BadJson, NotObject} \cup [Feat -> InputVals \cup {NonNumeric}]

(* The two inputs json.loads rejects or that are not objects are not      *)
(* objects of features.                                                     *)
ASSUME InputAssumption ==
    \A x \in {BadJson, NotObject} : x \notin [Feat -> InputVals \cup {NonNumeric}]

(* Every value of the object converts with float().                       *)
WellFormed(x) == x \in [Feat -> InputVals]

Result == [contrib : [Feat -> Int], ranked : Seq(Feat),
           positive : Seq(Feat), negative : Seq(Feat), isMock : BOOLEAN]

VARIABLES
    pc,              \* where main() is
    input,           \* args.input_data as json.loads sees it
    model_type,      \* args.model_type
    shap_ok,         \* SHAP_AVAILABLE
    onnx_ok,         \* ONNX_AVAILABLE
    model_file,      \* args.model_path on disk: absent, valid or invalid
    multi_output,    \* the model's output has more than one column
    bg_arg,          \* args.background_data
    background,      \* the background matrix: zeros or the CSV's rows
    out,             \* the JSON object printed, None before
    exit_code        \* the process exit status, None while running

vars == <<pc, input, model_type, shap_ok, onnx_ok, model_file, multi_output,
          bg_arg, background, out, exit_code>>

Abs(n) == IF n < 0 THEN -n ELSE n

(* sorted(..., key=lambda x: abs(x[1]), reverse=True) is stable: g comes  *)
(* before f when |c[g]| is larger, or equal and g came first.             *)
AbsDesc(c, g, f) ==
    \/ Abs(c[g]) > Abs(c[f])
    \/ Abs(c[g]) = Abs(c[f]) /\ g < f

(* The order sorted() puts the features in, as a set of pairs <<g, f>>   *)
(* with g before f; and the order of range(len(feature_names)).            *)
AbsOrder(c) == {p \in Feat \X Feat : AbsDesc(c, p[1], p[2])}
NameOrder == {p \in Feat \X Feat : p[1] < p[2]}

(* The features of S listed in the order R: Python's sort is stable and   *)
(* AbsDesc breaks ties by name, and a comprehension with an if clause     *)
(* keeps the order of the list it walks, so the feature at position i is  *)
(* the one of S with i - 1 features of S before it.                       *)
Position(S, R, f) == Cardinality({g \in S : <<g, f>> \in R}) + 1

SortBy(S, R) ==
    [i \in 1..Cardinality(S) |-> CHOOSE f \in S : Position(S, R, f) = i]

(* The features a comprehension's "if contrib > 0" or "< 0" keeps.        *)
Positives(c) == {f \in Feat : c[f] > 0}
Negatives(c) == {f \in Feat : c[f] < 0}

(* Mutant: the slice keeps one entry too many.                             *)
Take_extra(s) == IF Len(s) <= TopK + 1 THEN s ELSE SubSeq(s, 1, TopK + 1)

(* list[:TopK]                                                             *)
Take(s) == IF Len(s) <= TopK THEN s ELSE SubSeq(s, 1, TopK)

(* generate_mock_explanation's coefficient for one feature value.         *)
MockContribution(mt, v) ==
    CASE mt = "waste_predictor" -> IF v > 0 THEN v ELSE 0
      [] mt = "time_estimator"  -> 5 * v
      [] OTHER                  -> 2 * v

(* Mutant: the importance sort keys on the signed contribution.           *)
SignedOrder(c) ==
    {p \in Feat \X Feat : \/ c[p[1]] > c[p[2]]
                          \/ c[p[1]] = c[p[2]] /\ p[1] < p[2]}

MockResult_signed(mt, x) ==
    LET c == [f \in Feat |-> MockContribution(mt, x[f])]
        R == SignedOrder(c)
    IN  [contrib  |-> c,
         ranked   |-> SortBy(Feat, R),
         positive |-> Take(SortBy(Positives(c), R)),
         negative |-> Take(SortBy(Negatives(c), R)),
         isMock   |-> TRUE]

(* The result generate_mock_explanation builds: both top lists are taken  *)
(* from sorted_contribs, the features ranked by |contribution|.           *)
MockResult(mt, x) ==
    LET c == [f \in Feat |-> MockContribution(mt, x[f])]
        R == AbsOrder(c)
    IN  [contrib  |-> c,
         ranked   |-> SortBy(Feat, R),
         positive |-> Take(SortBy(Positives(c), R)),
         negative |-> Take(SortBy(Negatives(c), R)),
         isMock   |-> TRUE]

(* The result of generate_shap_explanation for shap values c: the ranking *)
(* is sorted by |c|, but the top lists walk range(len(...)), i.e. the     *)
(* features in name order.                                                 *)
ShapResult(c) ==
    [contrib  |-> c,
     ranked   |-> SortBy(Feat, AbsOrder(c)),
     positive |-> Take(SortBy(Positives(c), NameOrder)),
     negative |-> Take(SortBy(Negatives(c), NameOrder)),
     isMock   |-> FALSE]

-----------------------------------------------------------------------------
(* A Python exception reaches one of main()'s two handlers: print an      *)
(* error object and sys.exit(1).                                           *)
Fail ==
    /\ out' = ErrorJson
    /\ exit_code' = 1
    /\ pc' = "done"

Init ==
    /\ pc = "parse"
    /\ input \in Inputs
    /\ model_type \in ModelTypes
    /\ shap_ok \in BOOLEAN
    /\ onnx_ok \in BOOLEAN
    /\ model_file \in ModelFiles
    /\ multi_output \in OutputShapes
    /\ bg_arg \in BgArgs
    /\ background = None
    /\ out = None
    /\ exit_code = None

(* json.loads(args.input_data); a JSONDecodeError exits 1.                 *)
ParseInput ==
    /\ pc = "parse"
    /\ IF input = BadJson
          THEN Fail
          ELSE /\ pc' = "select"
               /\ UNCHANGED <<out, exit_code>>
    /\ UNCHANGED <<input, model_type, shap_ok, onnx_ok, model_file,
                   multi_output, bg_arg, background>>

(* if SHAP_AVAILABLE and ONNX_AVAILABLE and os.path.exists(model_path).   *)
SelectPath ==
    /\ pc = "select"
    /\ pc' = IF shap_ok /\ onnx_ok /\ model_file # "absent"
                THEN "load" ELSE "mock"
    /\ UNCHANGED <<input, model_type, shap_ok, onnx_ok, model_file,
                   multi_output, bg_arg, background, out, exit_code>>

(* load_onnx_model: ort.InferenceSession raises on a file that is not a   *)
(* valid model, outside generate_shap_explanation's try.                  *)
LoadModel ==
    /\ pc = "load"
    /\ IF model_file = "valid"
          THEN /\ pc' = "background"
               /\ UNCHANGED <<out, exit_code>>
          ELSE Fail
    /\ UNCHANGED <<input, model_type, shap_ok, onnx_ok, model_file,
                   multi_output, bg_arg, background>>

(* Mutant: the --background_data path is passed on instead of its rows.  *)
LoadBackground_path ==
    /\ pc = "background"
    /\ background' = bg_arg
    /\ pc' = "shap"
    /\ UNCHANGED <<input, model_type, shap_ok, onnx_ok, model_file,
                   multi_output, bg_arg, out, exit_code>>

(* load_background_data when the path exists; it returns None on any     *)
(* error, and generate_shap_explanation then uses np.zeros((10, n)).      *)
LoadBackground ==
    /\ pc = "background"
    /\ background' = IF bg_arg = "readable" THEN "csv" ELSE "zeros"
    /\ pc' = "shap"
    /\ UNCHANGED <<input, model_type, shap_ok, onnx_ok, model_file,
                   multi_output, bg_arg, out, exit_code>>

(* Mutant: main() lets the error returned from the try end the process.  *)
GenerateShap_uncaught ==
    /\ pc = "shap"
    /\ \/ /\ ~WellFormed(input)
          /\ Fail
       \/ /\ WellFormed(input)
          /\ Fail
       \/ /\ WellFormed(input)
          /\ \E c \in [Feat -> ShapVals] :
                IF multi_output
                   THEN Fail
                   ELSE /\ out' = ShapResult(c)
                        /\ pc' = "emit"
                        /\ UNCHANGED exit_code
    /\ UNCHANGED <<input, model_type, shap_ok, onnx_ok, model_file,
                   multi_output, bg_arg, background>>

(* generate_shap_explanation and main()'s handling of its result.  Only   *)
(* KernelExplainer(...) and shap_values(...) are inside the try: an error *)
(* there returns (None, str(e)) and main() falls back to the mock path.  *)
(* input_data.keys(), the float32 array, and float(expected_value) - which *)
(* raises TypeError for a model with several outputs - are outside it.   *)
GenerateShap ==
    /\ pc = "shap"
    /\ \/ /\ ~WellFormed(input)
          /\ Fail
       \/ /\ WellFormed(input)
          /\ pc' = "mock"
          /\ UNCHANGED <<out, exit_code>>
       \/ /\ WellFormed(input)
          /\ \E c \in [Feat -> ShapVals] :
                IF multi_output
                   THEN Fail
                   ELSE /\ out' = ShapResult(c)
                        /\ pc' = "emit"
                        /\ UNCHANGED exit_code
    /\ UNCHANGED <<input, model_type, shap_ok, onnx_ok, model_file,
                   multi_output, bg_arg, background>>

(* generate_mock_explanation: input_data.keys() and float(v) raise on a   *)
(* malformed object.                                                       *)
GenerateMock ==
    /\ pc = "mock"
    /\ IF WellFormed(input)
          THEN /\ out' = MockResult(model_type, input)
               /\ pc' = "emit"
               /\ UNCHANGED exit_code
          ELSE Fail
    /\ UNCHANGED <<input, model_type, shap_ok, onnx_ok, model_file,
                   multi_output, bg_arg, background>>

(* result["modelType"], result["modelPath"], print(json.dumps(result)).   *)
Emit ==
    /\ pc = "emit"
    /\ exit_code' = 0
    /\ pc' = "done"
    /\ UNCHANGED <<input, model_type, shap_ok, onnx_ok, model_file,
                   multi_output, bg_arg, background, out>>

Next ==
    \/ ParseInput
    \/ SelectPath
    \/ LoadModel
    \/ LoadBackground
    \/ GenerateShap
    \/ GenerateMock
    \/ Emit

Spec == Init /\ [][Next]_vars

-----------------------------------------------------------------------------
(* The elements of a sequence, and a sequence ordered by Op.              *)
Elems(s) == {s[i] : i \in 1..Len(s)}
SortedBy(s, Op(_, _)) == \A i, j \in 1..Len(s) : i < j => Op(s[i], s[j])

(* An explanation object has been built.                                   *)
Explained == out \notin {None, ErrorJson}

(* Every variable holds a value of its Python type.                        *)
TypeOK ==
    /\ pc \in {"parse", "select", "load", "background", "shap", "mock",
               "emit", "done"}
    /\ input \in Inputs
    /\ model_type \in ModelTypes
    /\ shap_ok \in BOOLEAN /\ onnx_ok \in BOOLEAN
    /\ multi_output \in OutputShapes
    /\ model_file \in ModelFiles
    /\ bg_arg \in BgArgs
    /\ background \in {None, "zeros", "csv"}
    /\ out \in {None, ErrorJson} \cup Result
    /\ exit_code \in {None, 0, 1}

(* Spec 3: featureImportance (rankedImportances) lists every feature once *)
(* and is sorted by descending |contribution|, on both paths.              *)
RankedImportancesSorted ==
    Explained =>
        /\ Len(out.ranked) = NF
        /\ Elems(out.ranked) = Feat
        /\ SortedBy(out.ranked, LAMBDA g, f :
                        Abs(out.contrib[g]) >= Abs(out.contrib[f]))

(* Spec 3: topContributors.positive holds the (up to) TopK largest        *)
(* positive contributions in descending order, and negative the TopK most *)
(* negative ones, most negative first.                                     *)
TopContributorsRanked ==
    Explained =>
        LET c == out.contrib
            Top(s, Good(_), Key(_)) ==
                /\ \A i \in 1..Len(s) : Good(s[i])
                /\ SortedBy(s, LAMBDA g, f : Key(g) >= Key(f))
                /\ Len(s) = IF Cardinality({f \in Feat : Good(f)}) < TopK
                               THEN Cardinality({f \in Feat : Good(f)})
                               ELSE TopK
                /\ \A f \in Feat \ Elems(s) :
                       Good(f) => \A i \in 1..Len(s) : Key(f) <= Key(s[i])
        IN  /\ Top(out.positive, LAMBDA f : c[f] > 0, LAMBDA f : c[f])
            /\ Top(out.negative, LAMBDA f : c[f] < 0, LAMBDA f : -c[f])

(* Spec 4.3 and 7: a failure of the SHAP path is absorbed by the fallback; *)
(* a well-formed input never ends in exit status 1.                       *)
WellFormedInputSucceeds ==
    pc = "done" /\ WellFormed(input) => exit_code = 0

(* Spec 4.3: the fallback absorbs every failure inside the try; with a    *)
(* well-formed input the process exits 1 only through one of the two      *)
(* calls outside it: load_onnx_model on a file that is not a valid model, *)
(* or float(expected_value) on a model with several outputs.              *)
FailsOnlyOutsideTry ==
    pc = "done" /\ WellFormed(input) /\ exit_code = 1 =>
        /\ shap_ok /\ onnx_ok
        /\ \/ model_file = "invalid"
           \/ model_file = "valid" /\ multi_output

=============================================================================
