\* One opportunity listed at two boards: runs, merges that arrive late and more
\* than once, delayed and lost reconciliations; one board is stopped and
\* enabled again.
CONSTANTS
    Opps = {o1}
    Sources = {s1, s2}
    DualDB = FALSE
    Stoppable = {s2}
    MaxTime = 2
    MaxQueue = 3
    MaxDue = 2
SPECIFICATION Spec
INVARIANTS
    
    
    InactiveJustified
    ScrapedIsKept
    
