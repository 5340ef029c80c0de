------------------------------ MODULE MCWebhooks ------------------------------
(***************************************************************************)
(* StripeWebhook for TLC.  Either two buyers pay in two currencies, or the *)
(* money of one of them goes back while its credits are being spent.       *)
(***************************************************************************)
EXTENDS MCStripeWebhook

VARIABLE flow

webhooksVars == <<webhookVars, flow>>

\* Of the buyer whose money goes back, the payment's own event has been missed: the
\* browser's return makes the credits, if nothing has made them before.
Missed ==
    /\ flow = "moneyout"
    /\ stripe = [p \in Payments |-> IF p = p1 THEN [NewPayment EXCEPT !.checkout = "paid"]
                                    ELSE NewPayment]
    /\ sent = {}

WebhooksInit ==
    \/ /\ flow \in {"checkout", "moneyout"}
       /\ WebhookInit
       /\ IF flow = "checkout" THEN sent = {} ELSE db = Legacy
    \/ /\ Missed
       /\ Init
       /\ db = Fresh
       /\ answered = {}
       /\ archive = [e \in Events |-> "none"]
       /\ delivery = [w \in Workers |-> Idle]
       /\ told = {}
       /\ mishaps = 0

\* One delivery beside the recovery and the browser's return; or two deliveries
\* of what follows a payment at once.
WebhooksNext ==
    /\ WebhookNext
    /\ IF flow = "checkout"
       THEN /\ \A p \in Payments : stripe'[p].refunded = 0 /\ stripe'[p].dispute = "none"
            /\ delivery'[w2] = Idle
            /\ db'.reservations = db.reservations
       ELSE \A p \in Payments : stripe'[p].checkout = stripe[p].checkout
    /\ UNCHANGED flow

WebhooksSpec == WebhooksInit /\ [][WebhooksNext]_webhooksVars /\ WebhookFairness

\* Of the buyers whose checkout is delivered: money that arrived becomes credits or a row
\* in an operator's queue (stripe-webhook.ts, stripe-fulfilment.ts).
DeliveredIsCredited == flow = "checkout" => PaidBecomesCredit
=============================================================================
