--------------------------- MODULE MCCreditLedger ---------------------------
(* Small instances of CreditLedger for TLC.                                *)
EXTENDS CreditLedger, TLC

CONSTANTS s1, s2, p1, eur

\* One pack of two credits at 60 cents each, taxed 20 %.
MCPackCredits == p1 :> 2
MCUnitAmountCents == p1 :> 120
MCChargeAmountCents == p1 :> 144
MCCurrency == p1 :> eur
\* Nothing Stripe would send for one credit, one credit, two, everything.
MCRefundAmounts == {60, 120, 144}

=============================================================================
