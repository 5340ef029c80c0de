\* One free credit, one pack of two, two sessions: every lot can be spent to
\* its last credit while another session waits.
CONSTANTS
    s1 = s1  s2 = s2  p1 = p1  eur = eur
    Sessions = {s1, s2}
    Payments = {p1}
    LegacyPayments = {}
    FreeLot = FreeLot
    Currencies = {eur}
    NoCurrency = NoCurrency
    PackCredits <- MCPackCredits
    UnitAmountCents <- MCUnitAmountCents
    ChargeAmountCents <- MCChargeAmountCents
    Currency <- MCCurrency
    RefundAmounts <- MCRefundAmounts
    FIRST_FIVE_CREDITS = 1
    FIRST_FIVE_EXPIRY_DAYS = 1
    PAID_CREDIT_EXPIRY_DAYS = 2
    RESERVATION_TTL_HOURS = 1
    MaxLag = 1
    Horizon = 2
SPECIFICATION FairSpec
INVARIANTS TypeOK CountersMatchSessions BooksBalance
PROPERTIES SettledForGood SweepsLeaveAConsistentWallet WhatIsDueIsDone
CHECK_DEADLOCK FALSE
