---------------------------- MODULE StripeWebhook ----------------------------
(***************************************************************************)
(* The Stripe webhook pipeline of packages/billing, on top of the ledger:  *)
(* stripe-webhook.ts archives an event before it acts, dispatches it to    *)
(* stripe-fulfilment.ts or stripe-refunds.ts, and settles its status; the  *)
(* missed-event pass and the backfill of the billing sweep, and the        *)
(* browser's return from Checkout, reach the same functions.               *)
(*                                                                         *)
(* A delivery is a process of its own: it archives, re-reads the object    *)
(* from Stripe, runs one ledger transaction and settles, with anything of  *)
(* the others in between, and it can throw or die at every step.  Stripe   *)
(* redelivers what was not answered 2xx, in any order.                     *)
(***************************************************************************)
EXTENDS CreditLedger

CONSTANTS
    Workers,        \* concurrent deliveries
    EventTypes,     \* the types the endpoint is subscribed to
    Verdict,        \* what fulfilment finds in a paid session of a payment
    IgnoredBefore,  \* legacy payments whose dispute was archived `ignored`
    MaxMishaps      \* bound: failed, dead or duplicate deliveries

CheckoutTypes == {"checkout.session.completed", "checkout.session.async_payment_succeeded"}
UncollectedTypes == {"checkout.session.async_payment_failed", "checkout.session.expired"}
RefundTypes == {"refund.created", "charge.refunded"}
DisputeTypes == {"charge.dispute.created", "charge.dispute.closed"}
refundAndDisputeEventTypes == RefundTypes \cup DisputeTypes

Verdicts == {"ok", "unknown_pack", "amount_mismatch", "missing_metadata", "no_payment_intent"}

ASSUME WebhookAssumption ==
    /\ Verdict \in [Payments -> Verdicts]
    /\ IgnoredBefore \subseteq LegacyPayments
    /\ MaxMishaps \in Nat

VARIABLES
    stripe,     \* what Stripe's API answers about each payment
    sent,       \* events Stripe has emitted
    answered,   \* those it was answered 2xx for
    archive,    \* status of each StripeWebhookEvent row
    delivery,   \* what each delivery in progress holds in memory
    told,       \* payments whose freeze the recruiter was notified of
    mishaps     \* how many deliveries went wrong so far

webhookVars == <<db, clock, stripe, sent, answered, archive, delivery, told, mishaps>>

-----------------------------------------------------------------------------
(* A refund event names the cumulative amount it brought the charge to, so *)
(* that two refunds of one charge are two events.                          *)

Events ==
    [type : EventTypes \ RefundTypes, payment : Payments, amount : {0}]
        \cup [type : EventTypes \cap RefundTypes, payment : Payments, amount : RefundAmounts]

EventsOf(types, p, amount) ==
    {e \in Events : e.type \in types /\ e.payment = p /\ e.amount = amount}

StripeObject == [checkout : {"open", "deferred", "paid", "no_payment_required", "failed"},
                 refunded : RefundAmounts \cup {0},
                 dispute : {"none", "open", "won", "lost"}]

ArchivedStatus == {"none", "received", "processed", "ignored", "needs_admin", "failed"}

Idle == [pc |-> "idle"]

InFlight(e) == \E w \in Workers : delivery[w] # Idle /\ delivery[w].event = e

-----------------------------------------------------------------------------
(* What a handler does to the ledger, and what it answers.                 *)

\* payment_status of a session that was not collected is `unpaid`, whatever
\* the reason.
paymentStatus(checkout) ==
    IF checkout \in {"open", "deferred", "failed"} THEN "unpaid" ELSE checkout

\* Mistake for the checks to catch: a completed session is taken for a paid one.
fulfillCreditCheckout_NotReRead(d, p, checkout) ==
    IF Verdict[p] # "ok" THEN Verdict[p]
    ELSE IF p \in PaidLots(d) THEN "already_granted"
    ELSE IF CurrencyAccepted(d, p) THEN "granted" ELSE "currency_mismatch"

\* fulfillCreditCheckout: the session as Stripe shows it, then the pack and
\* the amounts, then the ledger's own refusals.
fulfillCreditCheckout(d, p, checkout) ==
    IF paymentStatus(checkout) = "unpaid" THEN "not_paid"
    ELSE IF paymentStatus(checkout) # "paid" THEN "needs_admin"
    ELSE IF Verdict[p] # "ok" THEN Verdict[p]
    ELSE IF p \in PaidLots(d) THEN "already_granted"
    ELSE IF CurrencyAccepted(d, p) THEN "granted" ELSE "currency_mismatch"

\* Mistake for the checks to catch: a refused grant is filed as settled.
archiveStatusForFulfilment_Closed(outcome) ==
    IF outcome = "needs_admin" THEN outcome ELSE "processed"

archiveStatusForFulfilment(outcome) ==
    IF outcome \in {"granted", "already_granted", "not_paid", "no_payment_intent"}
    THEN "processed" ELSE "needs_admin"

\* Mistake for the checks to catch: a refund or a dispute nobody settled is
\* filed as settled.
archiveStatusFor_Closed(outcome) == "processed"

archiveStatusFor(outcome) ==
    IF outcome \in {"applied", "already_applied"} THEN "processed" ELSE "needs_admin"

\* The ledger's side of a fulfilment: the first purchase opens the wallet.
Fulfilled(d, p, checkout, t) ==
    LET opened == IF d.wallet.exists THEN d ELSE ensureWallet(d, t, PAID_CREDIT_EXPIRY_DAYS)
    IN CASE fulfillCreditCheckout(d, p, checkout) = "granted" ->
              grantPurchasedCreditLot(opened, p, t)
         [] fulfillCreditCheckout(d, p, checkout) = "currency_mismatch" -> opened
         [] OTHER -> d

\* handleDisputeEvent and handleRefundEvent: the event's type picks the
\* transition, the object read from Stripe its disposition and its amount.
LedgerAfter(d, e, seen, t) ==
    CASE e.type \in CheckoutTypes -> Fulfilled(d, e.payment, seen.checkout, t)
      [] e.type \in RefundTypes -> revokeUnconsumedLot(d, e.payment, seen.refunded)
      [] e.type = "charge.dispute.created" -> freezeLotForDispute(d, e.payment)
      [] e.type = "charge.dispute.closed" ->
           IF seen.dispute \in {"won", "lost"} /\ ResolveOutcome(d, e.payment) = "applied"
           THEN resolveDisputeOnLot(d, e.payment, seen.dispute, t) ELSE d
      [] OTHER -> d

Answer(d, e, seen) ==
    CASE e.type \in CheckoutTypes ->
           archiveStatusForFulfilment(fulfillCreditCheckout(d, e.payment, seen.checkout))
      [] e.type \in UncollectedTypes -> "processed"
      [] e.type \in RefundTypes ->
           archiveStatusFor(RevokeOutcome(d, e.payment, seen.refunded))
      [] e.type = "charge.dispute.created" -> archiveStatusFor(FreezeOutcome(d, e.payment))
      [] e.type = "charge.dispute.closed" ->
           IF seen.dispute \in {"won", "lost"}
           THEN archiveStatusFor(ResolveOutcome(d, e.payment)) ELSE "needs_admin"
      [] OTHER -> "ignored"

settleStatus(prior, computed) == IF prior = "needs_admin" THEN prior ELSE computed

-----------------------------------------------------------------------------
(* A delivery.                                                             *)

Mishap == mishaps < MaxMishaps /\ mishaps' = mishaps + 1

\* Mistake for the checks to catch: the row is written when the event settles.
Received_Late(row) == row

Received(row) == IF row = "none" THEN "received" ELSE row

\* The upsert: it reads the row's prior status.  Stripe delivers what was not
\* answered; a delivery of anything else is a duplicate.
Archive(w, e) ==
    /\ delivery[w] = Idle
    /\ e \in sent
    /\ \/ e \notin answered /\ ~InFlight(e) /\ UNCHANGED mishaps
       \/ (e \in answered \/ InFlight(e)) /\ Mishap
    /\ archive' = [archive EXCEPT ![e] = Received(@)]
    /\ delivery' = [delivery EXCEPT
          ![w] = [pc |-> "archived", event |-> e, prior |-> Received(archive[e])]]
    /\ UNCHANGED <<db, clock, stripe, sent, answered, told>>

\* reprocessIgnoredStripeEvents: the sweep dispatches a row itself.
Reprocess(w, e) ==
    /\ delivery[w] = Idle /\ ~InFlight(e)
    /\ archive[e] = "ignored" /\ e.type \in refundAndDisputeEventTypes
    /\ delivery' = [delivery EXCEPT
          ![w] = [pc |-> "archived", event |-> e, prior |-> "ignored"]]
    /\ UNCHANGED <<db, clock, stripe, sent, answered, archive, told, mishaps>>

\* The object is read again from Stripe before anything is decided.
Retrieve(w) ==
    /\ delivery[w].pc = "archived"
    /\ delivery' = [delivery EXCEPT
          ![w] = [pc |-> "read", event |-> @.event, prior |-> @.prior,
                  seen |-> stripe[@.event.payment]]]
    /\ UNCHANGED <<db, clock, stripe, sent, answered, archive, told, mishaps>>

\* Mistake for the checks to catch: the rows are looked at after the freeze.
OwesNotice_AskedLate(d, e) ==
    /\ e.type = "charge.dispute.created"
    /\ FreezeOutcome(freezeLotForDispute(d, e.payment), e.payment) = "applied"

\* A freeze that blocked something owes the recruiter a notice.
OwesNotice(d, e) ==
    e.type = "charge.dispute.created" /\ FreezeOutcome(d, e.payment) = "applied"

\* One ledger transaction.
Act(w, t) ==
    LET e == delivery[w].event
        seen == delivery[w].seen
    IN /\ delivery[w].pc = "read"
       /\ db' = LedgerAfter(db, e, seen, t)
       /\ delivery' = [delivery EXCEPT
             ![w] = [pc |-> IF OwesNotice(db, e) THEN "frozen" ELSE "acted", event |-> e,
                     prior |-> @.prior, computed |-> Answer(db, e, seen)]]
       /\ UNCHANGED <<clock, stripe, sent, answered, archive, told, mishaps>>

\* notifyFreeze swallows what the notifier throws.
NotifyFreeze(w) ==
    /\ delivery[w].pc = "frozen"
    /\ \/ told' = told \cup {delivery[w].event.payment} /\ UNCHANGED mishaps
       \/ told' = told /\ Mishap
    /\ delivery' = [delivery EXCEPT ![w].pc = "acted"]
    /\ UNCHANGED <<db, clock, stripe, sent, answered, archive>>

\* The last update, and the 2xx.
Settle(w) ==
    LET e == delivery[w].event
    IN /\ delivery[w].pc = "acted"
       /\ archive' = [archive EXCEPT
             ![e] = settleStatus(delivery[w].prior, delivery[w].computed)]
       /\ answered' = answered \cup {e}
       /\ delivery' = [delivery EXCEPT ![w] = Idle]
       /\ UNCHANGED <<db, clock, stripe, sent, told, mishaps>>

\* The handler throws (Stripe or Postgres unreachable): `failed`, and a 500.
Throw(w) ==
    LET e == delivery[w].event
    IN /\ delivery[w].pc \in {"archived", "read"}
       /\ Mishap
       /\ archive' = [archive EXCEPT ![e] = settleStatus(delivery[w].prior, "failed")]
       /\ delivery' = [delivery EXCEPT ![w] = Idle]
       /\ UNCHANGED <<db, clock, stripe, sent, answered, told>>

\* The process dies, or the row cannot be updated: nothing more is written.
Die(w) ==
    /\ delivery[w] # Idle
    /\ Mishap
    /\ delivery' = [delivery EXCEPT ![w] = Idle]
    /\ UNCHANGED <<db, clock, stripe, sent, answered, archive, told>>

\* The sweep's missed-event pass fulfils a checkout whose delivery keeps
\* failing, and archives nothing; so does the browser's return.  A session read
\* as paid stays paid, so reading it and granting are one step here.
RecoverCheckout(e, t) ==
    /\ e \in sent \ answered
    /\ e.type \in CheckoutTypes
    /\ db' = Fulfilled(db, e.payment, stripe[e.payment].checkout, t)
    /\ UNCHANGED <<clock, stripe, sent, answered, archive, delivery, told, mishaps>>

CheckoutReturn(p, t) ==
    /\ db' = Fulfilled(db, p, stripe[p].checkout, t)
    /\ UNCHANGED <<clock, stripe, sent, answered, archive, delivery, told, mishaps>>

Handle(w) ==
    \/ Retrieve(w) \/ NotifyFreeze(w) \/ Settle(w)
    \/ \E t \in RecentClocks : Act(w, t)

-----------------------------------------------------------------------------
(* Stripe, and the rest of the program.                                    *)

\* Stripe moves one payment on and emits the events the endpoint subscribes to.
Moves(p, object, types) ==
    /\ stripe' = [stripe EXCEPT ![p] = object]
    /\ sent' = sent \cup EventsOf(types \ RefundTypes, p, 0)
                     \cup EventsOf(types \cap RefundTypes, p, object.refunded)
    /\ UNCHANGED <<db, clock, answered, archive, delivery, told, mishaps>>

\* A session completes paid, unpaid (a deferred method) or free of charge, or
\* is abandoned until it expires.
CloseCheckout(p) ==
    /\ stripe[p].checkout = "open"
    /\ \/ \E outcome \in {"paid", "deferred", "no_payment_required"} :
             Moves(p, [stripe[p] EXCEPT !.checkout = outcome], {"checkout.session.completed"})
       \/ Moves(p, [stripe[p] EXCEPT !.checkout = "failed"], {"checkout.session.expired"})

SettleDeferred(p) ==
    /\ stripe[p].checkout = "deferred"
    /\ \/ Moves(p, [stripe[p] EXCEPT !.checkout = "paid"],
                {"checkout.session.async_payment_succeeded"})
       \/ Moves(p, [stripe[p] EXCEPT !.checkout = "failed"],
                {"checkout.session.async_payment_failed"})

\* One refund, two events.  A charge under an early-warning enquiry can be
\* refunded too, so an open dispute forbids nothing.
Refund(p, amount) ==
    /\ stripe[p].checkout = "paid" /\ stripe[p].dispute # "lost"
    /\ amount > stripe[p].refunded
    /\ Moves(p, [stripe[p] EXCEPT !.refunded = amount], RefundTypes)

OpenDispute(p) ==
    /\ stripe[p].checkout = "paid" /\ stripe[p].dispute = "none"
    /\ Moves(p, [stripe[p] EXCEPT !.dispute = "open"], {"charge.dispute.created"})

CloseDispute(p, disposition) ==
    /\ stripe[p].dispute = "open"
    /\ Moves(p, [stripe[p] EXCEPT !.dispute = disposition], {"charge.dispute.closed"})

\* Interviews spend the credits meanwhile.
SpendCredits(t) ==
    /\ \E s \in Sessions :
          \/ ReserveCreditForSession(s, t)
          \/ CaptureReservationForSession(s)
          \/ ReleaseReservationForSession(s, t)
    /\ UNCHANGED <<stripe, sent, answered, archive, delivery, told, mishaps>>

-----------------------------------------------------------------------------

\* Nothing happened yet, or payments of an older version were granted, some of
\* whose disputes arrived before a handler for them existed.
NewPayment == [checkout |-> "open", refunded |-> 0, dispute |-> "none"]

Past(ignored) ==
    {e \in Events : e.payment \in ignored /\ e.type = "charge.dispute.created"}

WebhookInit ==
    /\ Init
    /\ \/ /\ db = Fresh
          /\ stripe = [p \in Payments |-> NewPayment]
          /\ sent = {}
       \/ \E ignored \in SUBSET IgnoredBefore :
          /\ db = Legacy
          /\ stripe = [p \in Payments |->
                [NewPayment EXCEPT !.checkout = IF p \in LegacyPayments THEN "paid" ELSE @,
                                   !.dispute = IF p \in ignored THEN "open" ELSE @]]
          /\ sent = Past(ignored)
    /\ answered = sent
    /\ archive = [e \in Events |-> IF e \in sent THEN "ignored" ELSE "none"]
    /\ delivery = [w \in Workers |-> Idle]
    /\ told = {}
    /\ mishaps = 0

WebhookNext ==
    \/ \E w \in Workers :
          \/ Handle(w) \/ Throw(w) \/ Die(w)
          \/ \E e \in Events : Archive(w, e) \/ Reprocess(w, e)
    \/ \E t \in RecentClocks :
          \/ \E e \in Events : RecoverCheckout(e, t)
          \/ \E p \in Payments : CheckoutReturn(p, t)
          \/ SpendCredits(t)
    \/ \E p \in Payments :
          \/ CloseCheckout(p) \/ SettleDeferred(p)
          \/ \E amount \in RefundAmounts : Refund(p, amount)
          \/ OpenDispute(p)
          \/ \E disposition \in {"won", "lost"} : CloseDispute(p, disposition)

WebhookSpec == WebhookInit /\ [][WebhookNext]_webhookVars

\* A request that is being handled goes on; Stripe redelivers what was not
\* answered, in whatever order, as long as something was not; the hourly sweep
\* runs its backfill.  Nothing else is promised: not that a buyer pays, comes
\* back or spends, nor that a dispute is closed.
Redeliver == \E w \in Workers, e \in sent \ answered : Archive(w, e)

Backfill == \E w \in Workers, e \in answered : Reprocess(w, e)

WebhookFairness ==
    /\ \A w \in Workers : WF_webhookVars(Handle(w))
    /\ WF_webhookVars(Redeliver)
    /\ WF_webhookVars(Backfill)

FairWebhookSpec == WebhookSpec /\ WebhookFairness

-----------------------------------------------------------------------------
(* Safety.                                                                 *)

\* Every row, answer and delivery has its type.
WebhookTypeOK ==
    /\ TypeOK
    /\ stripe \in [Payments -> StripeObject]
    /\ sent \subseteq Events /\ answered \subseteq sent
    /\ archive \in [Events -> ArchivedStatus]
    /\ \A w \in Workers : delivery[w] = Idle \/ delivery[w].event \in sent
    /\ told \subseteq Payments
    /\ mishaps \in 0 .. MaxMishaps

\* "Archive first, then act": whatever crashed, a lot that was frozen or
\* revoked has the row of the event that did it.
ArchivedBeforeActing ==
    \A p \in Payments :
        /\ db.lots[p].status = "frozen" =>
              \E e \in EventsOf(DisputeTypes, p, 0) : archive[e] # "none"
        /\ db.lots[p].status = "revoked" =>
              \E e \in Events : /\ e.payment = p /\ archive[e] # "none"
                               /\ e.type \in refundAndDisputeEventTypes

\* A lot is only ever the credit of a payment Stripe collected, in whichever
\* order its events, its recovery and the browser's return arrive.
OnlyPaidIsCredited == \A p \in PaidLots(db) : stripe[p].checkout = "paid"

\* What every state keeps to, the types above included.
WebhookInv == WebhookTypeOK /\ ArchivedBeforeActing /\ OnlyPaidIsCredited

-----------------------------------------------------------------------------
(* Liveness.                                                               *)

\* The operator's queue (`make billing-admin-queue`) lists the rows that are
\* `needs_admin` and those that are `failed`.
Queued(types, p) ==
    \E e \in Events : /\ e.payment = p /\ e.type \in types
                     /\ archive[e] \in {"needs_admin", "failed"}

\* Money that arrived becomes credits or a row in an operator's queue, although
\* deliveries fail; a paid session without a payment intent is filed as
\* processed on purpose (archiveStatusForFulfilment).
PaidBecomesCredit ==
    \A p \in Payments :
        stripe[p].checkout = "paid" /\ Verdict[p] # "no_payment_intent"
            ~> p \in PaidLots(db) \/ Queued(CheckoutTypes, p)

FullyRefunded(p) == stripe[p].refunded > 0 /\ IsFullRefund(p, stripe[p].refunded)

\* A fully refunded payment has no spendable credits, or a queued row.
RefundedIsTakenBack ==
    \A p \in Payments :
        FullyRefunded(p) ~> db.lots[p].status # "active" \/ Queued(RefundTypes, p)

\* It holds of a payment nobody ever disputed.
UndisputedRefundIsTakenBack ==
    \A p \in Payments :
        FullyRefunded(p)
            ~> \/ db.lots[p].status # "active" \/ Queued(RefundTypes, p)
               \/ stripe[p].dispute # "none"

\* A lost dispute has no spendable credits, or a queued row.
LostIsBlocked ==
    \A p \in Payments :
        stripe[p].dispute = "lost"
            ~> db.lots[p].status # "active" \/ Queued(DisputeTypes, p)

\* Money that went back is not interviewed with: nothing spendable is left of a
\* payment that was refunded or lost, unless an operator has it in the queue.
MoneyOutIsBlocked == UndisputedRefundIsTakenBack /\ LostIsBlocked

\* The recruiter is told of a freeze (notifyFreeze: "Amendment 16's guarantee"),
\* whichever delivery or backfill applied it.  A crash right after the freeze or
\* a failing notifier does lose the notice: no later attempt repeats it.
FrozenIsTold ==
    \A p \in Payments :
        db.lots[p].status = "frozen" ~> p \in told \/ mishaps > 0

=============================================================================
