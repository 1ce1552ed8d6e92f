\* Two real records of every kind.
CONSTANTS
    NRecords = 2
    None = None
INIT Init
NEXT EncodeRecord
INVARIANT
    TypeColumnsLabelled
CHECK_DEADLOCK FALSE
