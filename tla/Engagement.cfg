SPECIFICATION FairSpec
CONSTANTS
    n1 = n1  n2 = n2  t1 = t1  t2 = t2
    Workers = {w1, w2}
    Notes = {n1, n2}
    Admitted = {n1, n2}
    Taps = {t1, t2}
    Zaps = {z1}
    Kind <- KindOf
    Target <- TargetOne
    Parent <- ParentTwo
    MaxAttempts = 2
    BatchLimit = 1
    MaxDeliveries = 4
    MaxFaults = 1
    None = None
INVARIANT TypeOK
INVARIANT TapCountedBounded
INVARIANT NoTapLost
INVARIANT ReplyCountedOnce
INVARIANT NoZapLost

CHECK_DEADLOCK FALSE
PROPERTY MissingIsResolved
