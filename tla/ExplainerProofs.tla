-------------------------- MODULE ExplainerProofs --------------------------
(* Proofs about Explainer for every number of features and every set of   *)
(* input and SHAP values: the ranking both paths build is a permutation    *)
(* of the features sorted by descending |contribution|, and a well-formed *)
(* input fails only through the two calls outside the try.                 *)
EXTENDS Explainer, FiniteSetTheorems, TLAPS

(* R, a set of pairs <<g, f>> read "g before f", is a strict total order  *)
(* on S.                                                                   *)
StrictTotal(S, R) ==
    /\ \A f \in S : <<f, f>> \notin R
    /\ \A f, g, h \in S : <<f, g>> \in R /\ <<g, h>> \in R => <<f, h>> \in R
    /\ \A f, g \in S : f # g => <<f, g>> \in R \/ <<g, f>> \in R

LEMMA FeatFinite == IsFiniteSet(Feat) /\ Cardinality(Feat) = NF
  BY NFAssumption, FS_Interval DEF Feat

(* Every set of features is finite.                                        *)
LEMMA FeatSubsetFinite ==
  ASSUME NEW S \in SUBSET Feat
  PROVE  IsFiniteSet(S) /\ Cardinality(S) \in Nat
  BY FeatFinite, FS_Subset, FS_CardinalityType

(* A member of S has a position in 1..Cardinality(S).                      *)
LEMMA PositionRange ==
  ASSUME NEW S \in SUBSET Feat, NEW R, StrictTotal(S, R), NEW f \in S
  PROVE  Position(S, R, f) \in 1..Cardinality(S)
  <1> DEFINE B == {g \in S : <<g, f>> \in R}
  <1>1. B \subseteq S \ {f}
    BY DEF StrictTotal
  <1>2. IsFiniteSet(S \ {f}) /\ Cardinality(S \ {f}) = Cardinality(S) - 1
    BY FeatSubsetFinite, FS_RemoveElement
  <1>3. IsFiniteSet(B) /\ Cardinality(B) <= Cardinality(S) - 1
    BY <1>1, <1>2, FS_Subset
  <1>4. Cardinality(B) \in Nat /\ Cardinality(S) \in Nat
    BY <1>3, FeatSubsetFinite, FS_CardinalityType
  <1> QED
    BY <1>3, <1>4 DEF Position

(* A member of S that comes before another has a smaller position.         *)
LEMMA PositionStrict ==
  ASSUME NEW S \in SUBSET Feat, NEW R, StrictTotal(S, R),
         NEW f \in S, NEW h \in S, <<f, h>> \in R
  PROVE  Position(S, R, f) < Position(S, R, h)
  <1> DEFINE Bf == {g \in S : <<g, f>> \in R}
             Bh == {g \in S : <<g, h>> \in R}
  <1>1. Bf \cup {f} \subseteq Bh
    BY DEF StrictTotal
  <1>2. f \notin Bf
    BY DEF StrictTotal
  <1>3. IsFiniteSet(Bf) /\ IsFiniteSet(Bh)
    BY FeatSubsetFinite, FS_Subset
  <1>4. Cardinality(Bf \cup {f}) = Cardinality(Bf) + 1
    BY <1>2, <1>3, FS_AddElement
  <1>5. Cardinality(Bf \cup {f}) <= Cardinality(Bh)
    BY <1>1, <1>3, FS_Subset
  <1>6. Cardinality(Bf) \in Nat /\ Cardinality(Bh) \in Nat
    BY <1>3, FS_CardinalityType
  <1> QED
    BY <1>4, <1>5, <1>6 DEF Position

(* Every position 1..Cardinality(S) is taken by exactly one member of S.   *)
LEMMA PositionBijective ==
  ASSUME NEW S \in SUBSET Feat, NEW R, StrictTotal(S, R),
         NEW i \in 1..Cardinality(S)
  PROVE  \E f \in S : /\ Position(S, R, f) = i
                      /\ \A h \in S : Position(S, R, h) = i => h = f
  <1> DEFINE r == [f \in S |-> Position(S, R, f)]
             N == 1..Cardinality(S)
  <1>1. r \in [S -> N]
    BY PositionRange
  <1>2. \A f, h \in S : f # h => Position(S, R, f) # Position(S, R, h)
    <2> SUFFICES ASSUME NEW f \in S, NEW h \in S, f # h
                 PROVE  Position(S, R, f) # Position(S, R, h)
      OBVIOUS
    <2>1. Position(S, R, f) \in N /\ Position(S, R, h) \in N
      BY PositionRange
    <2>2. CASE <<f, h>> \in R
      <3>1. Position(S, R, f) < Position(S, R, h)
        BY <2>2, PositionStrict
      <3> QED
        BY <2>1, <3>1
    <2>3. CASE <<h, f>> \in R
      <3>1. Position(S, R, h) < Position(S, R, f)
        BY <2>3, PositionStrict
      <3> QED
        BY <2>1, <3>1
    <2> QED
      BY <2>2, <2>3 DEF StrictTotal
  <1>3. r \in Injection(S, N)
    BY <1>1, <1>2 DEF Injection, IsInjective
  <1>4. IsFiniteSet(N) /\ Cardinality(N) = Cardinality(S)
    <2>1. Cardinality(S) \in Nat
      BY FeatSubsetFinite
    <2> QED
      BY <2>1, FS_Interval DEF N
  <1>5. r \in Surjection(S, N)
    BY <1>3, <1>4, FS_Injection
  <1> QED
    BY <1>2, <1>5 DEF Surjection

(* SortBy(S, R) lists every member of S once, in the order R.             *)
LEMMA SortBySorted ==
  ASSUME NEW S \in SUBSET Feat, NEW R, StrictTotal(S, R)
  PROVE  LET s == SortBy(S, R) IN
         /\ s \in Seq(S)
         /\ Len(s) = Cardinality(S)
         /\ Elems(s) = S
         /\ \A i, j \in 1..Len(s) : i < j => <<s[i], s[j]>> \in R
  <1> DEFINE s == SortBy(S, R)
             N == 1..Cardinality(S)
  <1>1. \A i \in N : s[i] \in S /\ Position(S, R, s[i]) = i
    BY PositionBijective DEF SortBy
  <1>2. Cardinality(S) \in Nat
    BY FeatSubsetFinite
  <1>3. s \in [N -> S] /\ s \in Seq(S) /\ Len(s) = Cardinality(S)
    BY <1>1, <1>2 DEF SortBy
  <1>4. Elems(s) = S
    <2>1. ASSUME NEW f \in S PROVE s[Position(S, R, f)] = f
      <3>1. Position(S, R, f) \in N
        BY PositionRange
      <3> QED
        BY <1>1, <3>1, PositionBijective
    <2> QED
      BY <1>1, <1>3, <2>1, PositionRange DEF Elems
  <1>5. ASSUME NEW i \in N, NEW j \in N, i < j
        PROVE  <<s[i], s[j]>> \in R
    <2>1. s[i] \in S /\ s[j] \in S /\ Position(S, R, s[i]) = i
          /\ Position(S, R, s[j]) = j
      BY <1>1
    <2>2. <<s[j], s[i]>> \notin R
      BY <1>5, <2>1, PositionStrict
    <2>3. s[i] # s[j]
      BY <1>5, <2>1
    <2> QED
      BY <2>1, <2>2, <2>3 DEF StrictTotal
  <1> QED
    BY <1>3, <1>4, <1>5

(* The ranking both paths build, by descending |c|, stable.                *)
Ranking(c) == SortBy(Feat, AbsOrder(c))

(* The stable order by descending |c| is a strict total order on any set   *)
(* of features, and so is the order of the feature names.                  *)
LEMMA AbsOrderTotal ==
  ASSUME NEW c \in [Feat -> Int], NEW S \in SUBSET Feat
  PROVE  StrictTotal(S, AbsOrder(c))
  BY DEF StrictTotal, AbsOrder, AbsDesc, Abs, Feat

LEMMA NameOrderTotal ==
  ASSUME NEW S \in SUBSET Feat
  PROVE  StrictTotal(S, NameOrder)
  BY DEF StrictTotal, NameOrder, Feat

(* The ranking lists every feature once, by descending |contribution|.    *)
LEMMA RankingSorted ==
  ASSUME NEW c \in [Feat -> Int]
  PROVE  /\ Ranking(c) \in Seq(Feat)
         /\ Len(Ranking(c)) = NF
         /\ Elems(Ranking(c)) = Feat
         /\ SortedBy(Ranking(c), LAMBDA g, f : Abs(c[g]) >= Abs(c[f]))
  <1> DEFINE s == Ranking(c)
  <1>1. /\ s \in Seq(Feat)
        /\ Len(s) = NF
        /\ Elems(s) = Feat
        /\ \A i, j \in 1..Len(s) : i < j => <<s[i], s[j]>> \in AbsOrder(c)
    BY AbsOrderTotal, SortBySorted, FeatFinite DEF Ranking
  <1>2. ASSUME NEW i \in 1..Len(s), NEW j \in 1..Len(s), i < j
        PROVE  Abs(c[s[i]]) >= Abs(c[s[j]])
    <2>1. s[i] \in Feat /\ s[j] \in Feat /\ AbsDesc(c, s[i], s[j])
      BY <1>1, <1>2 DEF AbsOrder
    <2>2. c[s[i]] \in Int /\ c[s[j]] \in Int
      BY <2>1
    <2> QED
      BY <2>1, <2>2 DEF AbsDesc, Abs
  <1> QED
    BY <1>1, <1>2 DEF SortedBy

(* list[:TopK] is the prefix of length min(len, TopK).                      *)
LEMMA TakePrefix ==
  ASSUME NEW S, NEW s \in Seq(S)
  PROVE  /\ Take(s) \in Seq(S)
         /\ Len(Take(s)) = IF Len(s) <= TopK THEN Len(s) ELSE TopK
         /\ \A i \in 1..Len(Take(s)) : Take(s)[i] = s[i]
  BY DEF Take, TopK

(* What topContributors promises of one list t: its entries are in G,     *)
(* sorted by descending key k, it is as long as [:TopK] allows, and every  *)
(* member of G left out has a key no larger than any entry.                *)
TopList(t, G, k) ==
    /\ \A i \in 1..Len(t) : t[i] \in G
    /\ SortedBy(t, LAMBDA g, f : k[g] >= k[f])
    /\ Len(t) = IF Cardinality(G) < TopK THEN Cardinality(G) ELSE TopK
    /\ \A f \in Feat \ Elems(t) : f \in G => \A i \in 1..Len(t) : k[f] <= k[t[i]]

(* Taking the first TopK of the members of G listed in an order that      *)
(* respects the key k gives the TopK largest keys in descending order.    *)
LEMMA TakeSortedTop ==
  ASSUME NEW G \in SUBSET Feat, NEW R, StrictTotal(G, R),
         NEW k \in [Feat -> Int],
         \A g, f \in G : <<g, f>> \in R => k[g] >= k[f]
  PROVE  TopList(Take(SortBy(G, R)), G, k)
  <1> DEFINE s == SortBy(G, R)
             t == Take(s)
  <1>1. /\ s \in Seq(G) /\ Len(s) = Cardinality(G) /\ Elems(s) = G
        /\ \A i, j \in 1..Len(s) : i < j => <<s[i], s[j]>> \in R
    BY SortBySorted
  <1>2. /\ t \in Seq(G)
        /\ Len(t) = IF Len(s) <= TopK THEN Len(s) ELSE TopK
        /\ \A i \in 1..Len(t) : t[i] = s[i]
    BY <1>1, TakePrefix
  <1>3. Len(t) <= Len(s) /\ Len(s) \in Nat
    BY <1>1, <1>2 DEF TopK
  <1>4. \A i \in 1..Len(t) : t[i] \in G
    BY <1>2
  <1>5. SortedBy(t, LAMBDA g, f : k[g] >= k[f])
    <2> SUFFICES ASSUME NEW i \in 1..Len(t), NEW j \in 1..Len(t), i < j
                 PROVE  k[t[i]] >= k[t[j]]
      BY DEF SortedBy
    <2>1. <<s[i], s[j]>> \in R /\ s[i] \in G /\ s[j] \in G
      BY <1>1, <1>3
    <2> QED
      BY <1>2, <2>1
  <1>6. Len(t) = IF Cardinality(G) < TopK THEN Cardinality(G) ELSE TopK
    BY <1>1, <1>2 DEF TopK
  <1>7. ASSUME NEW f \in Feat \ Elems(t), f \in G, NEW i \in 1..Len(t)
        PROVE  k[f] <= k[t[i]]
    <2>1. PICK j \in 1..Len(s) : s[j] = f
      BY <1>1, <1>7 DEF Elems
    <2>2. j > Len(t)
      <3> SUFFICES ASSUME j <= Len(t) PROVE FALSE
        BY <1>3, <2>1
      <3>1. j \in 1..Len(t) /\ t[j] = f
        BY <1>2, <2>1
      <3> QED
        BY <1>7, <3>1 DEF Elems
    <2>3. <<s[i], s[j]>> \in R /\ s[i] \in G
      BY <1>1, <1>3, <1>7, <2>1, <2>2
    <2> QED
      BY <1>2, <1>7, <2>1, <2>3
  <1> QED
    BY <1>4, <1>5, <1>6, <1>7 DEF TopList

-----------------------------------------------------------------------------
(* The object generate_mock_explanation returns for contributions c: both *)
(* top lists are taken from the ranking by |c|.                            *)
MockOut(c) ==
    [contrib  |-> c,
     ranked   |-> Ranking(c),
     positive |-> Take(SortBy(Positives(c), AbsOrder(c))),
     negative |-> Take(SortBy(Negatives(c), AbsOrder(c))),
     isMock   |-> TRUE]

(* Inductive invariant: every variable is typed, the path taken so far,   *)
(* a failure only where the code raises, and an explanation that is the   *)
(* mock result or, with a loadable model only, the SHAP result.           *)
IInv ==
    /\ TypeOK
    /\ pc \in {"load", "background", "shap"} =>
          shap_ok /\ onnx_ok /\ model_file # "absent"
    /\ pc \in {"background", "shap"} => model_file = "valid"
    /\ pc # "done" => exit_code = None
    /\ FailsOnlyOutsideTry
    /\ Explained => \E c \in [Feat -> Int] :
                       \/ out = MockOut(c)
                       \/ out = ShapResult(c) /\ model_file = "valid"

(* A mock coefficient times an integer value is an integer.               *)
LEMMA MockContributionInt ==
  ASSUME NEW mt, NEW v \in Int
  PROVE  MockContribution(mt, v) \in Int
  BY DEF MockContribution

(* The input sentinels are not well-formed objects.                        *)
LEMMA SentinelsMalformed == ~WellFormed(BadJson) /\ ~WellFormed(NotObject)
  BY InputAssumption DEF WellFormed

(* Both result objects are JSON of the shape Result describes.             *)
LEMMA ResultTyped ==
  ASSUME NEW c \in [Feat -> Int]
  PROVE  MockOut(c) \in Result /\ ShapResult(c) \in Result
  <1>1. Ranking(c) \in Seq(Feat)
    BY RankingSorted
  <1>2. ASSUME NEW G \in SUBSET Feat, NEW R, StrictTotal(G, R)
        PROVE  Take(SortBy(G, R)) \in Seq(Feat)
    <2>1. SortBy(G, R) \in Seq(Feat)
      <3>1. SortBy(G, R) \in Seq(G)
        BY <1>2, SortBySorted
      <3> QED
        BY <3>1, <1>2
    <2> QED
      BY <2>1, TakePrefix
  <1>3. Positives(c) \in SUBSET Feat /\ Negatives(c) \in SUBSET Feat
    BY DEF Positives, Negatives
  <1>4. /\ StrictTotal(Positives(c), AbsOrder(c))
        /\ StrictTotal(Negatives(c), AbsOrder(c))
        /\ StrictTotal(Positives(c), NameOrder)
        /\ StrictTotal(Negatives(c), NameOrder)
    BY <1>3, AbsOrderTotal, NameOrderTotal
  <1> QED
    BY <1>1, <1>2, <1>3, <1>4 DEF MockOut, ShapResult, Result, Ranking

(* The mock path's two top lists are the TopK largest positive and the    *)
(* TopK most negative contributions, in order.                             *)
LEMMA MockTop ==
  ASSUME NEW c \in [Feat -> Int]
  PROVE  /\ TopList(MockOut(c).positive, Positives(c), c)
         /\ TopList(MockOut(c).negative, Negatives(c), [f \in Feat |-> -c[f]])
  <1>1. TopList(Take(SortBy(Positives(c), AbsOrder(c))), Positives(c), c)
    <2>1. StrictTotal(Positives(c), AbsOrder(c))
      BY AbsOrderTotal DEF Positives
    <2>2. \A g, f \in Positives(c) : <<g, f>> \in AbsOrder(c) => c[g] >= c[f]
      BY DEF Positives, AbsOrder, AbsDesc, Abs
    <2> QED
      BY <2>1, <2>2, TakeSortedTop DEF Positives
  <1>2. TopList(Take(SortBy(Negatives(c), AbsOrder(c))), Negatives(c),
                [f \in Feat |-> -c[f]])
    <2> DEFINE k == [f \in Feat |-> -c[f]]
    <2>1. StrictTotal(Negatives(c), AbsOrder(c))
      BY AbsOrderTotal DEF Negatives
    <2>2. \A g, f \in Negatives(c) : <<g, f>> \in AbsOrder(c) => k[g] >= k[f]
      BY DEF Negatives, AbsOrder, AbsDesc, Abs, k
    <2>3. k \in [Feat -> Int]
      BY DEF k
    <2> QED
      BY <2>1, <2>2, <2>3, TakeSortedTop DEF Negatives
  <1> QED
    BY <1>1, <1>2 DEF MockOut


LEMMA IInvInit == Init => IInv
  BY DEF Init, IInv, TypeOK, Inputs, FailsOnlyOutsideTry, Explained

(* The state the code never changes after Init keeps its type.            *)
FixedTyped ==
    /\ input \in Inputs /\ model_type \in ModelTypes
    /\ shap_ok \in BOOLEAN /\ onnx_ok \in BOOLEAN
    /\ multi_output \in OutputShapes /\ model_file \in ModelFiles
    /\ bg_arg \in BgArgs

LEMMA IInvNext == IInv /\ [Next]_vars => IInv'
  <1> SUFFICES ASSUME IInv, [Next]_vars PROVE IInv'
    OBVIOUS
  <1> USE DEF IInv, TypeOK
  <1>1. CASE ParseInput
    <2>1. CASE input = BadJson
      BY <1>1, <2>1, SentinelsMalformed
         DEF ParseInput, Fail, FailsOnlyOutsideTry, Explained
    <2>2. CASE input # BadJson
      BY <1>1, <2>2 DEF ParseInput, FailsOnlyOutsideTry, Explained
    <2> QED
      BY <2>1, <2>2
  <1>2. CASE SelectPath
    BY <1>2 DEF SelectPath, FailsOnlyOutsideTry, Explained
  <1>3. CASE LoadModel
    <2>1. CASE model_file = "valid"
      BY <1>3, <2>1 DEF LoadModel, FailsOnlyOutsideTry, Explained
    <2>2. CASE model_file # "valid"
      <3>1. model_file = "invalid" /\ shap_ok /\ onnx_ok
        BY <1>3, <2>2, ModelFileAssumption DEF LoadModel
      <3> QED
        BY <1>3, <2>2, <3>1 DEF LoadModel, Fail, FailsOnlyOutsideTry, Explained
    <2> QED
      BY <2>1, <2>2
  <1>4. CASE LoadBackground
    BY <1>4 DEF LoadBackground, FailsOnlyOutsideTry, Explained
  <1>5. CASE GenerateShap
    <2>1. model_file = "valid" /\ shap_ok /\ onnx_ok
      BY <1>5 DEF GenerateShap
    <2>2. CASE ~WellFormed(input) /\ Fail
      BY <1>5, <2>2 DEF GenerateShap, Fail, FailsOnlyOutsideTry, Explained
    <2>3. CASE WellFormed(input) /\ pc' = "mock" /\ UNCHANGED <<out, exit_code>>
      BY <1>5, <2>3 DEF GenerateShap, FailsOnlyOutsideTry, Explained
    <2>4. ASSUME NEW c \in [Feat -> ShapVals],
                 WellFormed(input),
                 IF multi_output
                    THEN Fail
                    ELSE /\ out' = ShapResult(c)
                         /\ pc' = "emit"
                         /\ UNCHANGED exit_code
          PROVE  IInv'
      <3>1. CASE multi_output
        BY <1>5, <2>1, <2>4, <3>1 DEF GenerateShap, Fail, FailsOnlyOutsideTry,
                                      Explained
      <3>2. CASE ~multi_output
        <4>1. out' = ShapResult(c) /\ pc' = "emit" /\ exit_code' = exit_code
          BY <2>4, <3>2
        <4>2. c \in [Feat -> Int]
          BY ValsAssumption
        <4>3. out' \in Result
          BY <4>1, <4>2, ResultTyped
        <4>4. /\ FixedTyped' /\ background' = background
              /\ model_file' = model_file /\ pc = "shap"
          BY <1>5 DEF GenerateShap, FixedTyped
        <4> QED
          <5>1. \E d \in [Feat -> Int] : out' = ShapResult(d) /\ model_file' = "valid"
            BY <2>1, <4>1, <4>2, <4>4
          <5> QED
            BY <2>1, <4>1, <4>3, <4>4, <5>1 DEF FixedTyped, FailsOnlyOutsideTry
    <3> QED
        BY <3>1, <3>2
    <2> QED
      BY <1>5, <2>2, <2>3, <2>4 DEF GenerateShap
  <1>6. CASE GenerateMock
    <2>1. CASE WellFormed(input)
      <3> DEFINE c == [f \in Feat |-> MockContribution(model_type, input[f])]
      <3>1. out' = MockResult(model_type, input) /\ pc' = "emit"
            /\ exit_code' = exit_code
        BY <1>6, <2>1 DEF GenerateMock
      <3>2. c \in [Feat -> Int]
        <4>1. input \in [Feat -> Int]
          BY <2>1, ValsAssumption DEF WellFormed
        <4> QED
          BY <4>1, MockContributionInt
      <3>3. out' = MockOut(c)
        BY <3>1 DEF MockResult, MockOut, Ranking
      <3>4. out' \in Result
        BY <3>2, <3>3, ResultTyped
      <3>5. FixedTyped' /\ background' = background /\ pc = "mock"
        BY <1>6 DEF GenerateMock, FixedTyped
      <3> QED
        <4>1. \E d \in [Feat -> Int] : out' = MockOut(d)
          BY <3>2, <3>3
        <4> QED
          BY <3>1, <3>4, <3>5, <4>1 DEF FixedTyped, FailsOnlyOutsideTry
    <2>2. CASE ~WellFormed(input)
      BY <1>6, <2>2 DEF GenerateMock, Fail, FailsOnlyOutsideTry, Explained
    <2> QED
      BY <2>1, <2>2
  <1>7. CASE Emit
    BY <1>7 DEF Emit, FailsOnlyOutsideTry, Explained
  <1>8. CASE UNCHANGED vars
    BY <1>8 DEF vars, FailsOnlyOutsideTry, Explained
  <1> QED
    BY <1>1, <1>2, <1>3, <1>4, <1>5, <1>6, <1>7, <1>8 DEF Next

(* Spec 4.3: for every number of features, every input and every model    *)
(* file, a well-formed input ends in exit status 1 only after             *)
(* load_onnx_model rejected the file or float(expected_value) met a model *)
(* with several outputs: every other failure of the SHAP path falls back. *)
THEOREM FailsOnlyOutsideTryHolds == Spec => []FailsOnlyOutsideTry
  <1>1. IInv => FailsOnlyOutsideTry
    BY DEF IInv
  <1> QED
    BY IInvInit, IInvNext, <1>1, PTL DEF Spec

(* Every variable of main() keeps its type on every path, and the object  *)
(* printed is either the error object or a result whose lists are lists   *)
(* of feature names, for every number of features.                         *)
THEOREM ExplainerTypeCorrect == Spec => []TypeOK
  <1>1. IInv => TypeOK
    BY DEF IInv
  <1> QED
    BY IInvInit, IInvNext, <1>1, PTL DEF Spec

(* Spec 3: on both paths, for every number of features and every integer  *)
(* contribution, rankedImportances (featureImportance) lists every feature *)
(* exactly once, by descending |contribution|.                            *)
THEOREM RankedImportancesSortedHolds == Spec => []RankedImportancesSorted
  <1>1. ASSUME NEW c \in [Feat -> Int]
        PROVE  /\ MockOut(c).contrib = c /\ MockOut(c).ranked = Ranking(c)
               /\ ShapResult(c).contrib = c /\ ShapResult(c).ranked = Ranking(c)
    BY DEF MockOut, ShapResult, Ranking
  <1>2. IInv => RankedImportancesSorted
    <2> SUFFICES ASSUME IInv, Explained PROVE RankedImportancesSorted
      BY DEF RankedImportancesSorted
    <2>1. PICK c \in [Feat -> Int] : out.contrib = c /\ out.ranked = Ranking(c)
      BY <1>1 DEF IInv
    <2>2. /\ Len(Ranking(c)) = NF
          /\ Elems(Ranking(c)) = Feat
          /\ SortedBy(Ranking(c), LAMBDA g, f : Abs(c[g]) >= Abs(c[f]))
      BY RankingSorted
    <2> QED
      BY <2>1, <2>2 DEF RankedImportancesSorted, SortedBy
  <1> QED
    BY IInvInit, IInvNext, <1>2, PTL DEF Spec

(* The two TopList facts of the mock result are the two halves of         *)
(* TopContributorsRanked.                                                   *)
LEMMA MockTopContributors ==
  ASSUME NEW c \in [Feat -> Int], out = MockOut(c)
  PROVE  TopContributorsRanked
  <1>1. out.contrib = c
    BY DEF MockOut
  <1>2. TopList(out.positive, Positives(c), c)
    BY MockTop
  <1>3. TopList(out.negative, Negatives(c), [f \in Feat |-> -c[f]])
    BY MockTop
  <1>4. \A i \in 1..Len(out.positive) : out.positive[i] \in Feat
    BY <1>2 DEF TopList, Positives
  <1>5. \A i \in 1..Len(out.negative) : out.negative[i] \in Feat
    BY <1>3 DEF TopList, Negatives
  <1> QED
    BY <1>1, <1>2, <1>3, <1>4, <1>5
       DEF TopContributorsRanked, TopList, Positives, Negatives, SortedBy

(* Spec 3, on every run that cannot load a model: for every number of     *)
(* features and all integer contributions, topContributors.positive holds *)
(* the TopK largest positive contributions in descending order and        *)
(* negative the TopK most negative, most negative first.  With a valid    *)
(* model the SHAP path lists both in name order (finding 4), so the       *)
(* theorem assumes no model file main() could load.                       *)
THEOREM TopContributorsRankedHolds ==
  ASSUME "valid" \notin ModelFiles
  PROVE  Spec => []TopContributorsRanked
  <1>1. IInv => TopContributorsRanked
    <2> SUFFICES ASSUME IInv PROVE TopContributorsRanked
      OBVIOUS
    <2>1. CASE ~Explained
      BY <2>1 DEF TopContributorsRanked
    <2>2. CASE Explained
      <3>1. PICK c \in [Feat -> Int] : out = MockOut(c)
        BY <2>2 DEF IInv, TypeOK
      <3> QED
        BY <3>1, MockTopContributors
    <2> QED
      BY <2>1, <2>2
  <1> QED
    BY IInvInit, IInvNext, <1>1, PTL DEF Spec

=============================================================================
