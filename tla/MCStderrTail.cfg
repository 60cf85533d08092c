CONSTANTS
    Limit = 4
    MaxBytes = 8

SPECIFICATION TailSpec
INVARIANT TailIsLongestFit
