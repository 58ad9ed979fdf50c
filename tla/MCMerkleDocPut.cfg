CONSTANTS
    Node = {n1, n2}
    Field = {name, points}
    CounterField = {points}
    Value = {1}
    NilVal = 0
    InitVal <- MCInitVal
    Nobody = Nobody
    MaxBlocks = 3
    MaxTxnRetries = 2
SPECIFICATION Spec
CONSTRAINT OneMergeAtATime
SYMMETRY NodeSymmetry
CHECK_DEADLOCK FALSE
INVARIANTS
    MergedIsApplied
    CountersNeverLose
