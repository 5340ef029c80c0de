\* Team: two users, three webhooks, two revisions of the wizard, three requests. Purchases:
\* two checkouts and two runs of the price script over two prices, one death. Plan: two
\* syncs, two changes of the subscription, a period and an age of one. Leads: two runs of
\* the operations over three events, one failure. Tests: two tabs, two tests allowed.
CONSTANTS
    a1 = a1  a2 = a2  b1 = b1  b2 = b2  c1 = c1  c2 = c2  f1 = f1  f2 = f2
    Users = {f1, f2}
    Creator = f1
    MaxEvents = 3
    MaxRevision = 2
    MaxRequests = 3
    TeamRoles = {"owner", "admin"}
    Buyers = {a1, a2}
    PriceRuns = {b1, b2}
    Amounts = {c1, c2}
    MaxPrices = 2
    MaxCheckouts = 2
    MaxDeaths = 1
    Syncs = {a1, a2}
    MaxChanges = 2
    Period = 1
    MaxAge = 1
    PlanHorizon = 2
    LeadRuns = {a1, a2}
    MaxLeadEvents = 3
    MaxFailures = 1
    Tabs = {a1, a2}
    LiveTestLimit = 2
    TestAccessTtl = 2
    TestRuntimeTtl = 3
    CleanupGrace = 1
    MaxRooms = 4
    TestHorizon = 5

SPECIFICATION ConsoleSpec
SYMMETRY MCSymmetry

INVARIANTS
    OrganizationInv
    PurchasesInv
    PlanInv
    LeadsInv
    LiveTestsInv

PROPERTY
    ProgressIsKept

\* Every component is bounded.
CHECK_DEADLOCK FALSE
