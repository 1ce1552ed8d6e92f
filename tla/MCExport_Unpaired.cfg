\* One training run that may die, over a previous run's export.
CONSTANTS
    t1 = t1
    t2 = t2
    r1 = r1
    r2 = r2
    Trainers = {t1}
    Requests <- MCRequests
    PathKinds = {"plain"}
    CanCrash = TRUE
    Previous = p0
    p0 = p0
    None = None
SPECIFICATION Spec
INVARIANT
    ArtifactHasMatchingMetadata
CHECK_DEADLOCK FALSE
