\* One run that does not die, requests during the export.
CONSTANTS
    t1 = t1
    t2 = t2
    r1 = r1
    r2 = r2
    Trainers = {t1}
    Requests <- MCRequests
    PathKinds = {"plain"}
    CanCrash = FALSE
    Previous = p0
    p0 = p0
    None = None
SPECIFICATION Spec
INVARIANT
    RequestsNeverFail
CHECK_DEADLOCK FALSE
