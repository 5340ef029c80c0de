\* A payment refunded while an enquiry is open; nothing fails.
CONSTANTS
    s1 = s1  p1 = p1  p2 = p2  eur = eur  usd = usd  w1 = w1  w2 = w2
    Sessions = {}
    Payments = {p1}
    LegacyPayments = {p1}
    FreeLot = FreeLot
    Currencies = {eur, usd}
    NoCurrency = NoCurrency
    PackCredits <- MCPackCredits
    UnitAmountCents <- MCUnitAmountCents
    ChargeAmountCents <- MCChargeAmountCents
    Currency <- MCCurrency
    RefundAmounts <- MCFullRefund
    FIRST_FIVE_CREDITS = 1
    FIRST_FIVE_EXPIRY_DAYS = 1
    PAID_CREDIT_EXPIRY_DAYS = 2
    RESERVATION_TTL_HOURS = 1
    MaxLag = 0
    Horizon = 0
    Workers = {w1}
    EventTypes <- MCMoneyOut
    Verdict <- MCVerdict
    IgnoredBefore = {}
    MaxMishaps = 0
SPECIFICATION FairWebhookSpec
PROPERTIES RefundedIsTakenBack
CHECK_DEADLOCK FALSE
