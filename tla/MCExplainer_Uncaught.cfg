\* A model file that loads and has several outputs, or that does not load.
CONSTANTS
    NF = 3
    InputVals <- MCInputVals
    ShapVals <- MCShapVals
    ModelTypes <- MCModelTypes
    BgArgs = {"none", "missing", "readable", "unreadable"}
    ModelFiles = {"valid", "invalid"}
    OutputShapes = {TRUE}
    NonNumeric = NonNumeric
    BadJson = BadJson
    NotObject = NotObject
    ErrorJson = ErrorJson
    None = None
INIT Init
NEXT Next
INVARIANTS
    WellFormedInputSucceeds
CHECK_DEADLOCK FALSE
