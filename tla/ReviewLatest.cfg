SPECIFICATION Spec
CONSTANTS
    t1 = t1  t2 = t2  t3 = t3
    Request = {t1, t2}
    NoRequest = NoRequest
    Before = {"human-review"}
    MaxAgentWrites = 0
CHECK_DEADLOCK FALSE
INVARIANT LastReviewIsShown
