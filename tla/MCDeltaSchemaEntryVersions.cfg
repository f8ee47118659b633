\* Reads of the latest and of a named version on each kind of attachment.
SPECIFICATION Spec
CONSTANTS
    Txn = {t1, t2}
    MaxVersion = 2
    MaxTime = 0
    MaxClauses = 2
    NamedVersion = {1, 2}
    AttachedVersion = 2
    AttachedTimestamp = 0
SYMMETRY TxnSymmetry
INVARIANTS
    TypeOK
    RepeatableRead
    FreshSnapshot
\* Every transaction has begun and the bounds are reached: the system may stop.
CHECK_DEADLOCK FALSE
