\* Intakes: two workers and one upload over one intake, two attempts, one mishap.
\* Sweep: three wallets, the second one failing, two undelivered checkouts, a page of
\* three. An operation takes up to three units, the passes have two, the sweep three: a
\* call that looks at its time is over below the lock's ten, one that does not may not be.
\* Data: two sessions, one of them running at first, one the realtime service cannot erase,
\* a page of two, one request beside the sweep, one reissued invitation. Notices: two
\* dispatchers, a claim that goes stale within the horizon, and a retry window beyond it.
CONSTANTS
    i1 = i1  w1 = w1  w2 = w2  u1 = u1  n1 = n1
    Intakes = {i1}
    Workers = {w1, w2}
    Uploads = {u1}
    IntakeAttempts = 2
    IntakeFaults = 1
    LastWallet = 3
    FailingWallets = {2}
    LastEvent = 2
    PageLimit = 3
    MaxPages = 3
    EntryBudget = 2
    SweepBudget = 3
    LockTimeout = 10
    OperationTime = 3
    MaxCrashes = 1
    MaxManual = 2
    MaxDeletions = 1
    LastSession = 2
    Running = {2}
    Requests = {w1}
    Reissues = {n1}
    Stuck = {1}
    RetentionLimit = 2
    Dispatchers = {w1, w2}
    StaleClaim = 1
    RetryWindow = 2
    DispatchLife = 1
    NoticeHorizon = 4
    MaxAttempts = 3

SPECIFICATION BackgroundSpec

INVARIANTS
    IntakesInv
    
    DataInv
    

PROPERTIES
    IntakesSettle
    EveryWalletIsSwept
    ExpiredDataIsErased

\* Every intake may be settled, with nobody left to submit another.
CHECK_DEADLOCK FALSE
