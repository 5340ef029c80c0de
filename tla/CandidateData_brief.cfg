\* One interview that is over, a brief being generated for it and an erasure.
CONSTANTS
    LastSession = 1
    Running = {}
    Requests = {c1, c2}
    Reissues = {}
    Stuck = {}
    RetentionLimit = 1

SPECIFICATION DataSpec

INVARIANT ErasedHasNoBrief

\* An erased session may have nothing left to be done for it.
CHECK_DEADLOCK FALSE
