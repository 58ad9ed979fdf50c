CONSTANTS
    Node = {n1, n2, n3}
    Field = {points}
    CounterField = {points}
    Value = {1}
    NilVal = 0
    InitVal <- MCInitVal
    Nobody = Nobody
    MaxBlocks = 4
    MaxTxnRetries = 2
SPECIFICATION Spec
CONSTRAINT UpdatesOnly
ACTION_CONSTRAINT WholeSyncs
SYMMETRY NodeSymmetry
CHECK_DEADLOCK FALSE
INVARIANT CountersConverge
