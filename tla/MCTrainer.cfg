\* The training loop with early stopping, the plateau scheduler and export,
\* against the abstract early-stopping rule.
CONSTANTS
    epochs = 6
    patience = 3
    min_delta = 1
    sched_patience = 1
    lr_floor = 2
    TrainLossValues <- MCTrainLossValues
    ValLossValues <- MCValLossValues
    NaN = NaN
    Inf = Inf
    None = None
SPECIFICATION Spec
INVARIANTS
    TypeOK
    StopsPatienceAfterBest
    CheckpointIsBestSeen
    LRReductionRate
PROPERTIES
    ImplementsEarlyStoppingSpec
CHECK_DEADLOCK FALSE
