\* Publication: two calls over two drafts of two roles, room for one. Generation: up to
\* three questions of the model for two or three. Builder: two calls in flight, one answer
\* lost. Room: two starts, three connections, two attempts of a recovery. Reviews: two
\* updates at a time. Calls: two teammates, two submissions of the form. Demo: two visitors,
\* room for one, a day that turns in between.
CONSTANTS
    a1 = a1  a2 = a2  b1 = b1  b2 = b2  c1 = c1  c2 = c2  e1 = e1  e2 = e2  f1 = f1  f2 = f2
    Drafts = {a1, a2}
    Jobs = {b1, b2}
    Snapshots = {c1, c2}
    Requests = {e1, e2}
    RoleLimit = 1
    WaiverLimit = 1
    MinQuestions = 2
    MaxQuestions = 3
    ModelIds <- MCModelIds
    PayloadLength = 3
    ModelGuardrails <- MCModelGuardrails
    RequiredGuardrails = 6
    GuardrailLimit = 12
    Calls = {f1, f2}
    TargetQuestions = 2
    LostAnswers = 1
    MaxStarts = 2
    MaxGenerations = 3
    MaxTries = 2
    Reviews = {f1}
    Updates = {a1, a2}
    ReviewNotes = {b1, b2}
    MaxReviewEvents = 4
    Teammates = {a1, a2}
    CallTimes = {b1, b2}
    CallGuests = {f1}
    Submissions = {c1, c2}
    Demos = {a1, a2}
    ConcurrentCap = 1
    DailyCap = 1
    AccessTtl = 4
    RuntimeTtl = 2
    HandoffTtl = 1
    Day = 3
    DemoHorizon = 4

SPECIFICATION ScreensSpec
SYMMETRY MCSymmetry

INVARIANTS
    PublicationInv
    GenerationInv
    BuilderInv
    RoomInv
    CallsInv
    DemoInv

PROPERTIES
    ReviewsDoNotCollide

\* A draft is generated once; a candidate who has left is gone.
CHECK_DEADLOCK FALSE
