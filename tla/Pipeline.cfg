SPECIFICATION PipelineFairSpec
CONSTANTS
    a = a  u1 = u1  u2 = u2  w1 = w1  r1 = r1  r2 = r2
    Item = {a}
    KeyOf <- OneKey
    Malformed = {}
    Unstorable = {}
    Batch <- OneItem
    Worker = {w1}
    Uuid = {u1, u2}
    NoRow = NoRow
    Replica = {r1, r2}
    MaxRetry = 0
    Concurrency = 1
    MaxPosts = 1
    MaxFalseNegatives = 1
    PublisherCrashes = 1
    PublisherRebalances = 0
    PublisherLostCommits = 1
    MaxCrashes = 0
    MaxRebalances = 0
    MaxLostAcks = 1
    MaxReviews = 1
CHECK_DEADLOCK FALSE
INVARIANTS TableAgrees RequestsHeld OneRowJudged
PROPERTIES EveryRequestAnswered DecidesOnce PipelineImplementsLifecycle
