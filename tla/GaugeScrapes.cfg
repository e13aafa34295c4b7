SPECIFICATION Spec
CONSTANTS
    s1 = s1  s2 = s2  s3 = s3  s4 = s4
    Scrape = {s1, s2, s3, s4}
    Interval = 2
    Patience = 5
    MaxTime = 12
SYMMETRY Symmetry
CHECK_DEADLOCK FALSE
INVARIANTS TypeOK BoundedLoad AnswersAreFresh
