SPECIFICATION Spec
CONSTANTS
    Value <- Cents
    Day <- Dates
    Currency = {"BRL", "brl"}
    Iso = {"BRL"}
    Null = Null
    Today = 1000
    Submission = 1001
    MaxRuns = 2
CHECK_DEADLOCK FALSE
INVARIANTS TypeOK VerdictFollowsPolicy RunsAccounted
PROPERTY BackfillNeverErases
