\* No model on disk: the mock path alone, with more features than the
\* [:5] of the top lists keeps.
CONSTANTS
    NF = 6
    InputVals <- MCInputVals
    ShapVals <- MCShapVals
    ModelTypes <- MCModelTypes
    BgArgs = {"none", "missing", "readable", "unreadable"}
    ModelFiles = {"absent"}
    OutputShapes = {FALSE}
    NonNumeric = NonNumeric
    BadJson = BadJson
    NotObject = NotObject
    ErrorJson = ErrorJson
    None = None
INIT Init
NEXT Next
INVARIANTS
    TopContributorsRanked
CHECK_DEADLOCK FALSE
