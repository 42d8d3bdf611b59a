\* A job's log with characters of one byte and of two, read two bytes at a time.
SPECIFICATION OutSpec
CONSTANTS
    Alphabet = {"a", "n", "h", "t"}
    MaxBytes = 2
    MaxLog = 6
INVARIANTS
    NoGaps
CHECK_DEADLOCK FALSE
