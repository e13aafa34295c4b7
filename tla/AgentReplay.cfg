SPECIFICATION Spec
CONSTANTS
    u1 = u1  u2 = u2  r1 = r1  r2 = r2
    Uuid = {u1}
    Replica = {r1}
    MaxRetry = 0
    MaxCrashes = 1
    MaxRebalances = 0
    MaxLostAcks = 0
    MaxFalseNegatives = 0
    MaxReviews = 1
CHECK_DEADLOCK FALSE
PROPERTY ApprovalsStand
