\* A refund and a dispute of a payment whose credits are being spent, or a dispute archived
\* before it had a handler; two concurrent deliveries in any order.
CONSTANTS
    s1 = s1  p1 = p1  p2 = p2  eur = eur  usd = usd  w1 = w1  w2 = w2
    Sessions = {s1}
    Payments = {p1, p2}
    LegacyPayments = {p1}
    FreeLot = FreeLot
    Currencies = {eur, usd}
    NoCurrency = NoCurrency
    PackCredits <- MCPackCredits
    UnitAmountCents <- MCUnitAmountCents
    ChargeAmountCents <- MCChargeAmountCents
    Currency <- MCCurrency
    RefundAmounts <- MCFullRefund
    FIRST_FIVE_CREDITS = 1
    FIRST_FIVE_EXPIRY_DAYS = 1
    PAID_CREDIT_EXPIRY_DAYS = 2
    RESERVATION_TTL_HOURS = 1
    MaxLag = 0
    Horizon = 0
    Workers = {w1, w2}
    EventTypes <- MCBoth
    Verdict <- MCVerdict
    IgnoredBefore = {p1}
    MaxMishaps = 1
SPECIFICATION WebhooksSpec
INVARIANTS WebhookInv OneSettlementCurrency
PROPERTIES DeliveredIsCredited MoneyOutIsBlocked FrozenIsTold
CHECK_DEADLOCK FALSE
