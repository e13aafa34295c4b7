SPECIFICATION FairSpec
CONSTANTS
    u1 = u1  u2 = u2  r1 = r1  r2 = r2
    Uuid = {u1}
    Replica = {r1, r2}
    MaxRetry = 0
    MaxCrashes = 2
    MaxRebalances = 1
    MaxLostAcks = 1
    MaxFalseNegatives = 1
    MaxReviews = 1
CHECK_DEADLOCK FALSE
INVARIANTS TypeOK PendingIsQueued
PROPERTIES AnnouncedIsDecided ImplementsLifecycle
