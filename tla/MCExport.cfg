\* Two overlapping training runs that may die, two requests, both path kinds,
\* over no files or a previous run's export.
CONSTANTS
    t1 = t1
    t2 = t2
    r1 = r1
    r2 = r2
    Trainers <- MCTrainers
    Requests <- MCRequests
    PathKinds = {"plain", "onnx_dir"}
    CanCrash = TRUE
    Previous = p0
    p0 = p0
    None = None
SPECIFICATION Spec
INVARIANTS
    MetadataFollowsArtifact
CHECK_DEADLOCK FALSE
