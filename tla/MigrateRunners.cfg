SPECIFICATION FairSpec
CONSTANTS
    r1 = r1  r2 = r2  r3 = r3
    Runner = {r1, r2, r3}
    NoRunner = NoRunner
    Last = 3
    MaxKills = 2
    MaxDrops = 1
CHECK_DEADLOCK FALSE
INVARIANTS TypeOK NoCollision SuccessMeansMigrated AppliedInOrder TimeoutsExplained
PROPERTY EveryRunnerEnds
