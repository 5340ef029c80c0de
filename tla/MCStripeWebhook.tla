--------------------------- MODULE MCStripeWebhook ---------------------------
(* Small instances of StripeWebhook for TLC.                               *)
EXTENDS StripeWebhook, TLC

CONSTANTS s1, p1, p2, eur, usd, w1, w2

\* Packs of two credits at 60 cents each, taxed 20 %, in two currencies.
MCPackCredits == [p \in Payments |-> 2]
MCUnitAmountCents == [p \in Payments |-> 120]
MCChargeAmountCents == [p \in Payments |-> 144]
MCCurrency == [p \in Payments |-> IF p = p1 THEN eur ELSE usd]
MCVerdict == [p \in Payments |-> "ok"]

\* Everything.
MCFullRefund == {144}

\* The subscriptions a run looks at.  `refund.created` is handled as
\* `charge.refunded` is, and a duplicate delivery stands for it.
MCCheckout == CheckoutTypes \cup UncollectedTypes
MCMoneyOut == {"charge.refunded"} \cup DisputeTypes
MCBoth == MCCheckout \cup MCMoneyOut

=============================================================================
