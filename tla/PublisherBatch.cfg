SPECIFICATION FairSpec
CONSTANTS
    a = a  b = b  x = x  y = y  u1 = u1  u2 = u2  u3 = u3  w1 = w1  w2 = w2
    Item = {a, b, x, y}
    KeyOf <- SameKey
    Malformed = {y}
    Unstorable = {x}
    Batch <- MixedBatches
    Worker = {w1}
    Uuid = {u1, u2}
    NoRow = NoRow
    MaxRetry = 1
    Concurrency = 2
    MaxPosts = 1
    MaxCrashes = 0
    MaxRebalances = 0
    MaxLostCommits = 1
    MaxFalseNegatives = 1
CHECK_DEADLOCK FALSE
INVARIANT RetriesEnd
PROPERTIES EveryRequestAnswered TopicDrains
