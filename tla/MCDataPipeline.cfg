\* Every kind of data file, every script.
CONSTANTS
    RecordCounts <- MCRecordCounts
    BatchSize = 32
    MinRecords = 100
    SyntheticN = 2000
    Absent = Absent
    Malformed = Malformed
INIT Init
NEXT Next
INVARIANTS
    NoEmptyLoader
CHECK_DEADLOCK FALSE
