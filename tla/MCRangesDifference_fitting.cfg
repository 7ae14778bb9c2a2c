SPECIFICATION Spec
CONSTANTS
    W = 6
    FROM <- FromFitting
    EXCLUDE <- ExcludeFitting
INVARIANTS
    Difference
    RefusesUnsorted
    ResultSorted
\* The function returns.
CHECK_DEADLOCK FALSE
