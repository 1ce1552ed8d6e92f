\* Data files near the split % 32 = 1 boundary.
CONSTANTS
    RecordCounts <- MCRecordCounts
    BatchSize = 32
    MinRecords = 100
    SyntheticN = 2000
    Absent = Absent
    Malformed = Malformed
INIT Init
NEXT Next
INVARIANTS
    NoSingletonBatch
CHECK_DEADLOCK FALSE
