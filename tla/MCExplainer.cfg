\* Both paths, every model file and both output shapes: the only failures
\* of a well-formed input are the two calls outside the try.
CONSTANTS
    NF = 3
    InputVals <- MCInputVals
    ShapVals <- MCShapVals
    ModelTypes <- MCModelTypes
    BgArgs = {"none", "missing", "readable", "unreadable"}
    ModelFiles = {"absent", "valid", "invalid"}
    OutputShapes = {FALSE, TRUE}
    NonNumeric = NonNumeric
    BadJson = BadJson
    NotObject = NotObject
    ErrorJson = ErrorJson
    None = None
INIT Init
NEXT Next
INVARIANTS
    TypeOK
    RankedImportancesSorted
    FailsOnlyOutsideTry
CHECK_DEADLOCK FALSE
