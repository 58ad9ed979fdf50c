CONSTANTS
    Node = {n1, n2}
    Field = {name}
    CounterField = {}
    Value = {1, 2, 3}
    NilVal = 2
    InitVal <- MCInitVal
    Nobody = Nobody
    MaxBlocks = 3
    MaxTxnRetries = 2
SPECIFICATION Spec
CONSTRAINT OneMergeAtATime
ACTION_CONSTRAINT WholeSyncs
SYMMETRY NodeSymmetry
CHECK_DEADLOCK FALSE
INVARIANT MergeNeverFails
