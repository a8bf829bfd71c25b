SPECIFICATION Spec
CONSTANTS
    c1 = c1
    c2 = c2
    t1 = t1
    Conns = {c1, c2}
    All <- MCAll
    Course <- MCCourse
    Asks <- MCAsks
    MaxAsks <- MCMaxAsks
    MaxRuns = 2
INVARIANT
    RunTellsItsResults
CHECK_DEADLOCK FALSE
