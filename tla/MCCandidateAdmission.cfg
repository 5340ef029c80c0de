\* Two requests at a time over one attempt, or one over two attempts, with crashes and lost
\* answers; two credits.
CONSTANTS
    s1 = s1  s2 = s2  r1 = r1  r2 = r2  eur = eur
    Sessions = {s1, s2}
    Requests = {r1, r2}
    NoAttempt = NoAttempt
    RoomStatuses = {"starting", "completed"}
    Payments = {}
    LegacyPayments = {}
    FreeLot = FreeLot
    Currencies = {eur}
    NoCurrency = NoCurrency
    PackCredits <- MCNoPayment
    UnitAmountCents <- MCNoPayment
    ChargeAmountCents <- MCNoPayment
    Currency <- MCNoPayment
    RefundAmounts = {}
    FIRST_FIVE_CREDITS = 2
    FIRST_FIVE_EXPIRY_DAYS = 2
    PAID_CREDIT_EXPIRY_DAYS = 1
    RESERVATION_TTL_HOURS = 1
    MaxLag = 2
    Horizon = 1

SPECIFICATION MCAdmissionSpec
SYMMETRY MCSymmetry

INVARIANTS
    AdmissionInv
    EndedIsSettled

PROPERTY
    TerminalIsFinal

\* Requests and time are bounded.
CHECK_DEADLOCK FALSE
