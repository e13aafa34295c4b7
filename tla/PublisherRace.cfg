SPECIFICATION Spec
CONSTANTS
    a = a  b = b  x = x  y = y  u1 = u1  u2 = u2  u3 = u3  w1 = w1  w2 = w2
    Item = {a}
    KeyOf <- SameKey
    Malformed = {}
    Unstorable = {}
    Batch <- OneItem
    Worker = {w1, w2}
    Uuid = {u1, u2, u3}
    NoRow = NoRow
    MaxRetry = 0
    Concurrency = 1
    MaxPosts = 2
    MaxCrashes = 1
    MaxRebalances = 1
    MaxLostCommits = 1
    MaxFalseNegatives = 1
SYMMETRY Symmetry
CHECK_DEADLOCK FALSE
INVARIANTS TypeOK NothingLost SettledIsAnswered OrphansHaveACause RetriesEnd
PROPERTY DecidedRowsSurvive
