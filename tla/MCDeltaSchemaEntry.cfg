\* Reads of the latest version and by timestamp on each kind of attachment.
SPECIFICATION Spec
CONSTANTS
    Txn = {t1, t2}
    MaxVersion = 2
    MaxTime = 1
    MaxClauses = 2
    NamedVersion = {}
    AttachedVersion = 2
    AttachedTimestamp = 1
SYMMETRY TxnSymmetry
INVARIANTS
    OneHistory
    OnePinnedVersion
    TimestampExact
PROPERTIES
    BindsOnce
\* Every transaction has begun and the bounds are reached: the system may stop.
CHECK_DEADLOCK FALSE
