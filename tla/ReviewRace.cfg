SPECIFICATION Spec
CONSTANTS
    t1 = t1  t2 = t2  t3 = t3
    Request = {t1, t2, t3}
    NoRequest = NoRequest
    Before = {"human-review", "auto-rejected", "auto-approved", "pending"}
    MaxAgentWrites = 1
SYMMETRY Symmetry
CHECK_DEADLOCK FALSE
INVARIANTS TypeOK DecisionsAudited NeverVanishes RefusedForCause TransitionsFollowReviews
PROPERTIES ApprovalFinal ReviewIsAtomic
