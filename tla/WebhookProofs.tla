---------------------------- MODULE WebhookProofs ----------------------------
(***************************************************************************)
(* Proofs about StripeWebhook, for any number of payments, of concurrent   *)
(* deliveries and of deliveries that fail, and any subscription of the     *)
(* endpoint.                                                               *)
(*                                                                         *)
(* What a delivery does to the ledger is a composition of the primitives   *)
(* CreditLedgerProofs is about, so the ledger stays consistent and what    *)
(* was settled stays so.  What the pipeline adds: a delivery that is under *)
(* way has its event's row, and a session it has read as paid stays paid,  *)
(* whatever the others do before it acts.                                  *)
(***************************************************************************)
EXTENDS StripeWebhook, CreditLedgerProofs

-----------------------------------------------------------------------------
(* The inductive invariant.                                                *)

\* A row that was written.
Filed == ArchivedStatus \ {"none"}

DeliveryRow ==
    {Idle}
    \cup [pc : {"archived"}, event : Events, prior : Filed]
    \cup [pc : {"read"}, event : Events, prior : Filed, seen : StripeObject]
    \cup [pc : {"frozen", "acted"}, event : Events, prior : Filed, computed : Filed]

\* What a delivery under way may count on when it acts and when it settles.
DeliveryIsTrue(x) ==
    x # Idle => /\ x.event \in sent
                /\ archive[x.event] # "none"
                /\ x.pc = "read" /\ x.seen.checkout = "paid" =>
                      stripe[x.event.payment].checkout = "paid"

WebhookRows ==
    /\ stripe \in [Payments -> StripeObject]
    /\ sent \subseteq Events /\ answered \subseteq sent
    /\ archive \in [Events -> ArchivedStatus]
    /\ delivery \in [Workers -> DeliveryRow]
    /\ told \subseteq Payments
    /\ mishaps \in 0 .. MaxMishaps

\* A row is the row of an event Stripe sent.
FiledIsSent == \A x \in Events : archive[x] # "none" => x \in sent

WebhookIInv ==
    /\ IInv /\ OneSettlementCurrency
    /\ WebhookRows /\ FiledIsSent
    /\ \A w \in Workers : DeliveryIsTrue(delivery[w])
    /\ ArchivedBeforeActing /\ OnlyPaidIsCredited

-----------------------------------------------------------------------------
(* What the ledger's primitives do not do: no lot is frozen or revoked but *)
(* by a dispute or a refund.                                               *)

NothingTaken(d, e) ==
    \A p \in Payments :
       e.lots[p].status \in {"frozen", "revoked"} => d.lots[p].status = e.lots[p].status

LEMMA TakesTwice ==
    ASSUME NEW d, NEW e, NEW f, NothingTaken(d, e), NothingTaken(e, f)
    PROVE  NothingTaken(d, f)
  BY DEF NothingTaken

LEMMA ReleaseTakesNothing ==
    ASSUME NEW d, Consistent(d), NEW S
    PROVE  NothingTaken(d, releaseReservationRow(d, S))
<1> DEFINE e == releaseReservationRow(d, S)
<1>1. d.lots \in [Lots -> LotRow] /\ Payments \subseteq Lots
  BY ConsistentParts DEF Lots
<1>2. e.lots = [l \in Lots |-> [d.lots[l] EXCEPT !.reserved = @ - Cardinality(HeldOn(d, S, l))]]
  BY DEF releaseReservationRow
<1> HIDE DEF e
<1>3. \A l \in Lots : e.lots[l].status = d.lots[l].status
  BY <1>1, <1>2 DEF LotRow
<1> QED
  BY <1>1, <1>3 DEF NothingTaken, e

LEMMA ExpireTakesNothing ==
    ASSUME NEW d, Consistent(d), NEW t
    PROVE  NothingTaken(d, expireDueLotsInTx(d, t))
<1> DEFINE e == expireDueLotsInTx(d, t)
<1>1. d.lots \in [Lots -> LotRow] /\ Payments \subseteq Lots
  BY ConsistentParts DEF Lots
<1>2. e.lots = [l \in Lots |->
                  IF l \in DueLots(d, t) THEN [d.lots[l] EXCEPT !.status = "expired"] ELSE d.lots[l]]
  BY DEF expireDueLotsInTx
<1> HIDE DEF e
<1>3. \A l \in Lots : e.lots[l].status \in {d.lots[l].status, "expired"}
  BY <1>1, <1>2 DEF LotRow
<1> QED
  BY <1>1, <1>3 DEF NothingTaken, e

LEMMA SweepTakesNothing ==
    ASSUME NEW d, Consistent(d), NEW t
    PROVE  NothingTaken(d, Sweep(d, t))
<1> DEFINE e == releaseReservationRow(d, DueHolds(d, t))
<1>1. DueHolds(d, t) \in SUBSET Held(d)
  BY DEF DueHolds, Held
<1>2. Consistent(e) /\ NothingTaken(d, e)
  BY <1>1, ReleaseKeepsConsistent, ReleaseTakesNothing
<1>3. Sweep(d, t) = expireDueLotsInTx(e, t)
  BY DEF Sweep, releaseExpiredReservationsInTx
<1> HIDE DEF e
<1>4. NothingTaken(e, expireDueLotsInTx(e, t))
  BY <1>2, ExpireTakesNothing
<1> QED
  BY <1>2, <1>3, <1>4, TakesTwice

\* One lot whose row is written otherwise.
LEMMA OneRowTakesNothing ==
    ASSUME NEW d, Consistent(d), NEW e, NEW l \in Lots, NEW row,
           e.lots = [d.lots EXCEPT ![l] = row],
           row.status \in {d.lots[l].status, "active", "exhausted"}
    PROVE  NothingTaken(d, e)
<1>1. d.lots \in [Lots -> LotRow] /\ Payments \subseteq Lots
  BY ConsistentParts DEF Lots
<1>2. e.lots[l] = row /\ \A m \in Lots : m # l => e.lots[m] = d.lots[m]
  BY <1>1
<1> QED
  BY <1>1, <1>2 DEF NothingTaken

LEMMA HoldTakesNothing ==
    ASSUME NEW d, Consistent(d), NEW s, NEW l \in Lots, NEW t
    PROVE  NothingTaken(d, Hold(d, s, l, t))
<1> DEFINE row == [d.lots[l] EXCEPT !.reserved = @ + 1]
<1>1. d.lots[l] \in LotRow
  BY ConsistentParts
<1>2. row.status = d.lots[l].status
  BY <1>1 DEF LotRow
<1>3. Hold(d, s, l, t).lots = [d.lots EXCEPT ![l] = row]
  BY DEF Hold
<1> HIDE DEF row
<1> QED
  BY <1>2, <1>3, OneRowTakesNothing

LEMMA CaptureTakesNothing ==
    ASSUME NEW d, Consistent(d), NEW s \in Sessions
    PROVE  NothingTaken(d, captureReservationForSession(d, s))
<1> DEFINE l == d.reservations[s].lot
<1>1. d.reservations[s] \in ReservationRow
  BY ConsistentParts
<1>2. l \in Lots
  BY <1>1 DEF ReservationRow
<1>3. d.lots[l] \in LotRow
  BY <1>2, ConsistentParts
<1>4. Consume(d.lots[l]).status \in {d.lots[l].status, "exhausted"}
  BY <1>3 DEF Consume, LotRow
<1>5. captureReservationForSession(d, s).lots = [d.lots EXCEPT ![l] = Consume(d.lots[l])]
  BY DEF captureReservationForSession
<1> QED
  BY <1>2, <1>4, <1>5, OneRowTakesNothing

LEMMA GrantTakesNothing ==
    ASSUME NEW d, Consistent(d), NEW t
    PROVE  /\ \A ttl : NothingTaken(d, ensureWallet(d, t, ttl))
           /\ \A p \in Payments : NothingTaken(d, grantPurchasedCreditLot(d, p, t))
<1>1. ASSUME NEW ttl PROVE NothingTaken(d, ensureWallet(d, t, ttl))
  <2>1. FreeLot \in Lots /\ NewLot(FIRST_FIVE_CREDITS, t + ttl).status = "active"
    BY DEF Lots, NewLot
  <2>2. ensureWallet(d, t, ttl).lots
           = [d.lots EXCEPT ![FreeLot] = NewLot(FIRST_FIVE_CREDITS, t + ttl)]
    BY DEF ensureWallet
  <2> QED
    BY <2>1, <2>2, OneRowTakesNothing
<1>2. ASSUME NEW p \in Payments PROVE NothingTaken(d, grantPurchasedCreditLot(d, p, t))
  <2> DEFINE row == NewLot(PackCredits[p], t + PAID_CREDIT_EXPIRY_DAYS)
  <2>1. p \in Lots /\ row.status = "active"
    BY DEF Lots, NewLot
  <2>2. grantPurchasedCreditLot(d, p, t).lots = [d.lots EXCEPT ![p] = row]
    BY DEF grantPurchasedCreditLot
  <2> HIDE DEF row
  <2> QED
    BY <2>1, <2>2, OneRowTakesNothing
<1> QED
  BY <1>1, <1>2

\* Interviews spend what there is: nothing is bought and nothing taken.
LEMMA SpendingTakesNothing ==
    ASSUME IInv, NEW t \in RecentClocks, SpendCredits(t)
    PROVE  /\ IInv' /\ Continues(db, db')
           /\ SamePurchases(db, db') /\ NothingTaken(db, db')
<1>1. Consistent(db) /\ t \in Nat /\ clock \in Nat
  BY DEF IInv, RecentClocks
<1>2. PICK s \in Sessions :
          \/ ReserveCreditForSession(s, t)
          \/ CaptureReservationForSession(s)
          \/ ReleaseReservationForSession(s, t)
  BY DEF SpendCredits
<1>3. LedgerStep(t)
  BY <1>2 DEF LedgerStep
<1>4. IInv' /\ Continues(db, db')
  BY <1>3, StepInvariant, StepContinues DEF Follows
<1>5. CASE ReserveCreditForSession(s, t)
  <2> DEFINE swept == Sweep(db, t)
  <2>1. \/ \E l \in selectLotForReservation(swept, t) : db' = Hold(swept, s, l, t)
        \/ db' = swept
    BY <1>5 DEF ReserveCreditForSession, Commit
  <2>2. /\ Consistent(swept) /\ swept.reservations[s] = db.reservations[s]
        /\ SamePurchases(db, swept) /\ NothingTaken(db, swept)
    BY <1>1, <1>5, SweepKeepsConsistent, SweepContinues, SweepTakesNothing
       DEF ReserveCreditForSession
  <2>3. swept.reservations[s].status # "captured"
    BY <1>5, <2>2 DEF ReserveCreditForSession
  <2> HIDE DEF swept
  <2>4. ASSUME NEW l \in selectLotForReservation(swept, t)
        PROVE  /\ SamePurchases(db, Hold(swept, s, l, t))
               /\ NothingTaken(db, Hold(swept, s, l, t))
    <3>1. l \in Lots /\ swept.lots[l].status # "none"
      BY DEF selectLotForReservation, EligibleLots, isLotEligible, isLotClockActive
    <3>2. SamePurchases(swept, Hold(swept, s, l, t)) /\ NothingTaken(swept, Hold(swept, s, l, t))
      BY <2>2, <2>3, <3>1, HoldContinues, HoldTakesNothing
    <3> QED
      BY <2>2, <3>2, TakesTwice DEF SamePurchases
  <2> QED
    BY <1>4, <2>1, <2>2, <2>4
<1>6. CASE CaptureReservationForSession(s)
  <2>1. db' = captureReservationForSession(db, s) /\ db.reservations[s].status = "held"
    BY <1>6 DEF CaptureReservationForSession, Commit
  <2> QED
    BY <1>1, <1>4, <2>1, CaptureContinues, CaptureTakesNothing
<1>7. CASE ReleaseReservationForSession(s, t)
  <2> DEFINE r == releaseReservationRow(db, {s})
  <2>1. {s} \in SUBSET Held(db)
    BY <1>7 DEF ReleaseReservationForSession, Held
  <2>2. Consistent(r) /\ SamePurchases(db, r) /\ NothingTaken(db, r)
    BY <1>1, <2>1, ReleaseKeepsConsistent, ReleaseContinues, ReleaseTakesNothing
  <2>3. db' = expireDueLotsInTx(r, t)
    BY <1>7 DEF ReleaseReservationForSession, releaseReservationForSession, Commit
  <2> HIDE DEF r
  <2>4. SamePurchases(r, db') /\ NothingTaken(r, db')
    BY <2>2, <2>3, ExpireContinues, ExpireTakesNothing
  <2> QED
    BY <1>4, <2>2, <2>4, TakesTwice DEF SamePurchases
<1> QED
  BY <1>2, <1>5, <1>6, <1>7
-----------------------------------------------------------------------------
(* What a handler does to the ledger.                                      *)

LEMMA NothingHappened ==
    ASSUME NEW d, Consistent(d)
    PROVE  Continues(d, d) /\ SamePurchases(d, d) /\ NothingTaken(d, d)
<1>1. \A l \in Lots : d.lots[l].consumed >= d.lots[l].consumed
  BY ConsistentParts DEF LotRow
<1> QED
  BY <1>1 DEF Continues, ChargedStayCharged, SamePurchases, NothingTaken

\* Who bought after a step, and in which currency.
LEMMA CurrencyKept ==
    ASSUME NEW d, NEW e, Follows(d, e),
           d.wallet.settlementCurrency # NoCurrency =>
              \A p \in PaidLots(d) : Currency[p] = d.wallet.settlementCurrency
    PROVE  e.wallet.settlementCurrency # NoCurrency =>
              \A p \in PaidLots(e) : Currency[p] = e.wallet.settlementCurrency
<1>1. CASE SamePurchases(d, e)
  BY <1>1 DEF SamePurchases
<1>2. ASSUME NEW p \in Payments, Buys(d, e, p)
      PROVE  \A q \in PaidLots(e) : Currency[q] = e.wallet.settlementCurrency
  BY <1>2 DEF Buys, CanGrant, CurrencyAccepted
<1> QED
  BY <1>1, <1>2 DEF Follows

\* A session credits its own payment at most, and only if it is paid.
LEMMA Fulfilling ==
    ASSUME NEW d, Consistent(d), NEW p \in Payments, NEW t \in Nat, NEW checkout
    PROVE  LET e == Fulfilled(d, p, checkout, t)
           IN /\ Consistent(e) /\ Follows(d, e) /\ NothingTaken(d, e)
              /\ PaidLots(e) \subseteq PaidLots(d) \cup {p}
              /\ PaidLots(e) # PaidLots(d) => checkout = "paid"
<1> DEFINE opened == IF d.wallet.exists THEN d ELSE ensureWallet(d, t, PAID_CREDIT_EXPIRY_DAYS)
<1> DEFINE outcome == fulfillCreditCheckout(d, p, checkout)
<1> DEFINE e == Fulfilled(d, p, checkout, t)
<1>1. PAID_CREDIT_EXPIRY_DAYS \in Nat
  BY LedgerAssumption
<1>2. /\ Consistent(opened) /\ opened.wallet.exists
      /\ Continues(d, opened) /\ SamePurchases(d, opened) /\ NothingTaken(d, opened)
  <2>1. CASE d.wallet.exists
    BY <2>1, NothingHappened
  <2>2. CASE ~d.wallet.exists
    <3>1. opened = ensureWallet(d, t, PAID_CREDIT_EXPIRY_DAYS)
      BY <2>2
    <3>2. Consistent(opened)
      BY <1>1, <2>2, <3>1, EnsureWalletKeepsConsistent
    <3>3. Continues(d, opened) /\ SamePurchases(d, opened)
      BY <2>2, <3>1, EnsureWalletContinues
    <3>4. NothingTaken(d, opened)
      BY <3>1, GrantTakesNothing
    <3>5. d.wallet \in WalletRow
      BY ConsistentParts
    <3>6. opened.wallet.exists
      BY <3>1, <3>5 DEF ensureWallet, WalletRow
    <3> QED
      BY <3>2, <3>3, <3>4, <3>6
  <2> QED
    BY <2>1, <2>2
<1>3. e = CASE outcome = "granted" -> grantPurchasedCreditLot(opened, p, t)
            [] outcome = "currency_mismatch" -> opened
            [] OTHER -> d
  BY DEF Fulfilled
<1> HIDE DEF opened, outcome, e
<1>4. CASE outcome = "granted"
  <2>1. e = grantPurchasedCreditLot(opened, p, t)
    BY <1>3, <1>4
  <2>2. Verdict[p] \in Verdicts
    BY WebhookAssumption
  <2>3. paymentStatus(checkout) = "paid" /\ CanGrant(d, p)
    BY <1>4, <2>2 DEF outcome, fulfillCreditCheckout, Verdicts, CanGrant
  <2>4. checkout = "paid"
    BY <2>3 DEF paymentStatus
  <2>5. CanGrant(opened, p)
    BY <1>2, <2>3 DEF SamePurchases, CanGrant, CurrencyAccepted
  <2>6. /\ Consistent(e) /\ Continues(opened, e) /\ NothingTaken(opened, e)
        /\ PaidLots(e) = PaidLots(opened) \cup {p}
        /\ e.wallet.settlementCurrency = Currency[p]
    BY <1>2, <2>1, <2>5, GrantKeepsConsistent, GrantContinues, GrantTakesNothing
  <2>7. Continues(d, e) /\ NothingTaken(d, e)
    BY <1>2, <2>6, ContinuesFurther, TakesTwice
  <2>8. PaidLots(e) = PaidLots(d) \cup {p}
    BY <1>2, <2>6 DEF SamePurchases
  <2>9. Follows(d, e)
    BY <2>3, <2>6, <2>7, <2>8 DEF Follows, Buys
  <2> QED
    BY <2>4, <2>6, <2>7, <2>8, <2>9 DEF e
<1>5. CASE outcome # "granted"
  <2>1. e \in {opened, d}
    BY <1>3, <1>5
  <2>2. /\ Consistent(e) /\ Continues(d, e) /\ SamePurchases(d, e) /\ NothingTaken(d, e)
    BY <1>2, <2>1, NothingHappened
  <2> QED
    BY <2>2 DEF Follows, SamePurchases, e
<1> QED
  BY <1>4, <1>5

LEMMA WriteOffTakes ==
    ASSUME NEW d, Consistent(d), NEW p \in Payments, d.lots[p].status = "active",
           NEW status \in {"frozen", "revoked"}
    PROVE  LET e == WriteOff(d, p, status)
           IN /\ Consistent(e) /\ Continues(d, e) /\ SamePurchases(d, e)
              /\ e.lots[p].status = status
              /\ \A q \in Payments : q # p => e.lots[q].status = d.lots[q].status
<1> DEFINE e == WriteOff(d, p, status)
<1>1. p \in Lots /\ Payments \subseteq Lots
  BY DEF Lots
<1>2. Consistent(e)
  BY <1>1, WriteOffKeepsConsistent
<1>3. Continues(d, e) /\ SamePurchases(d, e)
  BY WriteOffContinues
<1>4. d.lots \in [Lots -> LotRow] /\ d.lots[p] \in LotRow
  BY <1>1, ConsistentParts
<1>5. e.lots = [d.lots EXCEPT ![p] = [d.lots[p] EXCEPT !.status = status]]
  BY DEF WriteOff
<1> HIDE DEF e
<1>6. e.lots[p] = [d.lots[p] EXCEPT !.status = status]
  BY <1>1, <1>4, <1>5
<1>7. e.lots[p].status = status
  BY <1>4, <1>6 DEF LotRow
<1>8. \A q \in Payments : q # p => e.lots[q].status = d.lots[q].status
  BY <1>1, <1>4, <1>5
<1> QED
  BY <1>2, <1>3, <1>7, <1>8 DEF e

\* A dispute won gives the lot back, whatever the sweep then does with it.
LEMMA ResolvingTakes ==
    ASSUME NEW d, Consistent(d), NEW p \in Payments, d.lots[p].status = "frozen",
           NEW disposition, NEW t
    PROVE  LET e == resolveDisputeOnLot(d, p, disposition, t)
           IN /\ Consistent(e) /\ Continues(d, e) /\ SamePurchases(d, e)
              /\ \A q \in Payments :
                    e.lots[q].status \in {"frozen", "revoked"} =>
                       d.lots[q].status = e.lots[q].status
                          \/ (q = p /\ e.lots[q].status = "revoked")
<1> DEFINE e == resolveDisputeOnLot(d, p, disposition, t)
<1>1. p \in Lots /\ Payments \subseteq Lots
  BY DEF Lots
<1>2. d.lots \in [Lots -> LotRow] /\ d.lots[p] \in LotRow
  BY <1>1, ConsistentParts
<1>3. CASE disposition = "lost"
  <2>1. e = Revoke(d, p)
    BY <1>3 DEF resolveDisputeOnLot
  <2>2. Consistent(e) /\ Continues(d, e) /\ SamePurchases(d, e)
    BY <1>1, <2>1, UnfreezeKeepsConsistent, ResolveContinues
  <2>3. d \in Rows
    BY DEF Consistent
  <2>4. e.lots = [d.lots EXCEPT ![p] = [d.lots[p] EXCEPT !.status = "revoked"]]
    BY <2>1, <2>3 DEF Revoke, Rows
  <2> HIDE DEF e
  <2>5. e.lots[p] = [d.lots[p] EXCEPT !.status = "revoked"]
    BY <1>1, <1>2, <2>4
  <2>6. e.lots[p].status = "revoked"
    BY <1>2, <2>5 DEF LotRow
  <2>7. \A q \in Payments : q # p => e.lots[q].status = d.lots[q].status
    BY <1>1, <1>2, <2>4
  <2> QED
    BY <2>2, <2>6, <2>7 DEF e
<1>4. CASE disposition # "lost"
  <2> DEFINE u == Unfreeze(d, p)
  <2>1. e = expireDueLotsInTx(u, t)
    BY <1>4 DEF resolveDisputeOnLot
  <2>2. Consistent(u) /\ Continues(d, u) /\ SamePurchases(d, u)
    BY <1>1, UnfreezeKeepsConsistent, ResolveContinues
  <2> DEFINE row == [d.lots[p] EXCEPT !.status = "active"]
  <2>3. u.lots = [d.lots EXCEPT ![p] = row]
    BY DEF Unfreeze
  <2>4. row.status = "active"
    BY <1>2 DEF LotRow
  <2> HIDE DEF u, e, row
  <2>5. NothingTaken(d, u)
    BY <1>1, <2>3, <2>4, OneRowTakesNothing
  <2>6. Consistent(e) /\ Continues(u, e) /\ SamePurchases(u, e) /\ NothingTaken(u, e)
    BY <2>1, <2>2, ExpireKeepsConsistent, ExpireContinues, ExpireTakesNothing
  <2>7. NothingTaken(d, e) /\ Continues(d, e)
    BY <2>2, <2>5, <2>6, TakesTwice, ContinuesFurther
  <2>8. SamePurchases(d, e)
    BY <2>2, <2>6 DEF SamePurchases
  <2> QED
    BY <2>6, <2>7, <2>8 DEF NothingTaken, e
<1> QED
  BY <1>3, <1>4
\* The step by which an event took a lot: the lot of its own payment.
TakenBy(d, e, x) ==
    \A q \in Payments :
       /\ e.lots[q].status = "frozen" =>
             d.lots[q].status = "frozen" \/ (q = x.payment /\ x.type \in DisputeTypes)
       /\ e.lots[q].status = "revoked" =>
             \/ d.lots[q].status = "revoked"
             \/ q = x.payment /\ x.type \in refundAndDisputeEventTypes

LEMMA NothingTakenByNobody ==
    ASSUME NEW d, NEW e, NEW x, NothingTaken(d, e)
    PROVE  TakenBy(d, e, x)
  BY DEF NothingTaken, TakenBy

LEMMA EventParts ==
    ASSUME NEW x \in Events
    PROVE  /\ x.payment \in Payments
           /\ x.type \in DisputeTypes => x \in EventsOf(DisputeTypes, x.payment, 0)
<1>1. x.payment \in Payments
  BY DEF Events
<1>2. x.type \in DisputeTypes => x.amount = 0
  BY DEF Events, DisputeTypes, RefundTypes
<1> QED
  BY <1>1, <1>2 DEF EventsOf

LEMMA HandlerKeepsTheLedger ==
    ASSUME NEW d, Consistent(d), NEW x \in Events, NEW seen, NEW t \in Nat
    PROVE  LET e == LedgerAfter(d, x, seen, t)
           IN /\ Consistent(e) /\ Follows(d, e) /\ TakenBy(d, e, x)
              /\ PaidLots(e) \subseteq PaidLots(d) \cup {x.payment}
              /\ PaidLots(e) # PaidLots(d) => seen.checkout = "paid"
<1> DEFINE e == LedgerAfter(d, x, seen, t)
<1> DEFINE p == x.payment
<1>1. p \in Payments
  BY EventParts
<1>2. Continues(d, d) /\ SamePurchases(d, d) /\ TakenBy(d, d, x)
  BY NothingHappened, NothingTakenByNobody
<1>3. \/ x.type \in CheckoutTypes /\ e = Fulfilled(d, p, seen.checkout, t)
      \/ /\ x.type \in RefundTypes /\ d.lots[p].status = "active"
         /\ e = WriteOff(d, p, "revoked")
      \/ /\ x.type = "charge.dispute.created" /\ d.lots[p].status = "active"
         /\ e = WriteOff(d, p, "frozen")
      \/ /\ x.type = "charge.dispute.closed" /\ d.lots[p].status = "frozen"
         /\ e = resolveDisputeOnLot(d, p, seen.dispute, t)
      \/ e = d
  <2>1. CASE x.type \in CheckoutTypes
    BY <2>1 DEF LedgerAfter, CheckoutTypes, RefundTypes
  <2>2. CASE x.type \in RefundTypes
    <3>1. e = revokeUnconsumedLot(d, p, seen.refunded)
      BY <2>2 DEF LedgerAfter, RefundTypes, CheckoutTypes
    <3>2. RevokeOutcome(d, p, seen.refunded) = "applied" => d.lots[p].status = "active"
      BY DEF RevokeOutcome
    <3> QED
      BY <2>2, <3>1, <3>2 DEF revokeUnconsumedLot
  <2>3. CASE x.type = "charge.dispute.created"
    <3>1. e = freezeLotForDispute(d, p)
      BY <2>3 DEF LedgerAfter, RefundTypes, CheckoutTypes
    <3>2. FreezeOutcome(d, p) = "applied" => d.lots[p].status = "active"
      BY DEF FreezeOutcome
    <3> QED
      BY <2>3, <3>1, <3>2 DEF freezeLotForDispute
  <2>4. CASE x.type = "charge.dispute.closed"
    <3>1. e = IF seen.dispute \in {"won", "lost"} /\ ResolveOutcome(d, p) = "applied"
              THEN resolveDisputeOnLot(d, p, seen.dispute, t) ELSE d
      BY <2>4 DEF LedgerAfter, RefundTypes, CheckoutTypes
    <3>2. ResolveOutcome(d, p) = "applied" => d.lots[p].status = "frozen"
      BY DEF ResolveOutcome
    <3> QED
      BY <2>4, <3>1, <3>2
  <2>5. CASE /\ x.type \notin CheckoutTypes /\ x.type \notin RefundTypes
             /\ x.type # "charge.dispute.created" /\ x.type # "charge.dispute.closed"
    BY <2>5 DEF LedgerAfter
  <2> QED
    BY <2>1, <2>2, <2>3, <2>4, <2>5
<1> HIDE DEF e, p
<1>4. CASE x.type \in CheckoutTypes /\ e = Fulfilled(d, p, seen.checkout, t)
  <2>1. /\ Consistent(e) /\ Follows(d, e) /\ NothingTaken(d, e)
        /\ PaidLots(e) \subseteq PaidLots(d) \cup {p}
        /\ PaidLots(e) # PaidLots(d) => seen.checkout = "paid"
    BY <1>1, <1>4, Fulfilling
  <2> QED
    BY <2>1, NothingTakenByNobody DEF e, p
<1>5. ASSUME NEW status \in {"frozen", "revoked"}, d.lots[p].status = "active",
             e = WriteOff(d, p, status),
             status = "frozen" => x.type \in DisputeTypes,
             x.type \in refundAndDisputeEventTypes
      PROVE  Consistent(e) /\ Continues(d, e) /\ SamePurchases(d, e) /\ TakenBy(d, e, x)
  <2>1. /\ Consistent(e) /\ Continues(d, e) /\ SamePurchases(d, e)
        /\ e.lots[p].status = status
        /\ \A q \in Payments : q # p => e.lots[q].status = d.lots[q].status
    BY <1>1, <1>5, WriteOffTakes
  <2> QED
    BY <1>5, <2>1 DEF TakenBy, p
<1>6. CASE /\ x.type \in RefundTypes /\ d.lots[p].status = "active"
           /\ e = WriteOff(d, p, "revoked")
  <2>1. Consistent(e) /\ Continues(d, e) /\ SamePurchases(d, e) /\ TakenBy(d, e, x)
    BY <1>5, <1>6 DEF refundAndDisputeEventTypes
  <2> QED
    BY <2>1 DEF Follows, SamePurchases, e
<1>7. CASE /\ x.type = "charge.dispute.created" /\ d.lots[p].status = "active"
           /\ e = WriteOff(d, p, "frozen")
  <2>1. Consistent(e) /\ Continues(d, e) /\ SamePurchases(d, e) /\ TakenBy(d, e, x)
    BY <1>5, <1>7 DEF refundAndDisputeEventTypes, DisputeTypes
  <2> QED
    BY <2>1 DEF Follows, SamePurchases, e
<1>8. CASE /\ x.type = "charge.dispute.closed" /\ d.lots[p].status = "frozen"
           /\ e = resolveDisputeOnLot(d, p, seen.dispute, t)
  <2>1. /\ Consistent(e) /\ Continues(d, e) /\ SamePurchases(d, e)
        /\ \A q \in Payments :
              e.lots[q].status \in {"frozen", "revoked"} =>
                 d.lots[q].status = e.lots[q].status
                    \/ (q = p /\ e.lots[q].status = "revoked")
    BY <1>1, <1>8, ResolvingTakes
  <2>2. TakenBy(d, e, x)
    BY <1>8, <2>1 DEF TakenBy, refundAndDisputeEventTypes, DisputeTypes, p
  <2> QED
    BY <2>1, <2>2 DEF Follows, SamePurchases, e
<1>9. CASE e = d
  BY <1>2, <1>9 DEF Follows, e
<1> QED
  BY <1>3, <1>4, <1>6, <1>7, <1>8, <1>9
-----------------------------------------------------------------------------
(* What a step may disturb.                                                *)

\* The rows of a delivery under way, one shape at a time.
LEMMA DeliveryParts ==
    ASSUME NEW x \in DeliveryRow, x # Idle
    PROVE  /\ x.event \in Events /\ x.prior \in Filed
           /\ x.pc \in {"archived", "read", "frozen", "acted"}
           /\ x.pc = "read" => x.seen \in StripeObject
           /\ x.pc \in {"frozen", "acted"} =>
                 /\ x.computed \in Filed
                 /\ x = [pc |-> x.pc, event |-> x.event, prior |-> x.prior,
                         computed |-> x.computed]
<1>1. CASE x \in [pc : {"archived"}, event : Events, prior : Filed]
  BY <1>1
<1>2. CASE x \in [pc : {"read"}, event : Events, prior : Filed, seen : StripeObject]
  BY <1>2
<1>3. CASE x \in [pc : {"frozen", "acted"}, event : Events, prior : Filed, computed : Filed]
  BY <1>3
<1> QED
  BY <1>1, <1>2, <1>3 DEF DeliveryRow

LEMMA IdleIsIdle ==
    ASSUME NEW x \in DeliveryRow, x.pc \in {"archived", "read", "frozen", "acted"}
    PROVE  x # Idle
  BY DEF Idle

\* A delivery keeps what it counts on through the steps of the others: a row
\* that was written stays, and a session that was paid stays paid.
LEMMA OthersAreTrue ==
    ASSUME WebhookIInv, sent \subseteq sent',
           \A x \in Events : archive[x] # "none" => archive'[x] # "none",
           \A p \in Payments :
              stripe[p].checkout = "paid" => stripe'[p].checkout = "paid",
           NEW w \in Workers, delivery'[w] = delivery[w]
    PROVE  DeliveryIsTrue(delivery[w])'
<1>1. delivery[w] \in DeliveryRow /\ DeliveryIsTrue(delivery[w])
  BY DEF WebhookIInv, WebhookRows
<1>2. delivery[w] # Idle => delivery[w].event \in Events /\ delivery[w].event.payment \in Payments
  BY <1>1, DeliveryParts, EventParts
<1> QED
  BY <1>1, <1>2 DEF DeliveryIsTrue

\* One delivery goes on, and perhaps writes its event's row.
LEMMA OneDeliveryMoves ==
    ASSUME WebhookIInv, NEW w \in Workers, NEW row \in DeliveryRow,
           UNCHANGED <<db, clock, stripe, sent>>,
           archive' \in [Events -> ArchivedStatus],
           \A x \in Events : archive[x] # "none" => archive'[x] # "none",
           \A x \in Events : archive'[x] # "none" => x \in sent,
           delivery' = [delivery EXCEPT ![w] = row], DeliveryIsTrue(row)',
           answered' \subseteq sent, told' \subseteq Payments, mishaps' \in 0 .. MaxMishaps
    PROVE  WebhookIInv'
<1>1. IInv' /\ OneSettlementCurrency'
  BY DEF WebhookIInv, IInv, OneSettlementCurrency
<1>2. WebhookRows'
  BY DEF WebhookIInv, WebhookRows
<1>3. ASSUME NEW v \in Workers PROVE DeliveryIsTrue(delivery[v])'
  <2>1. CASE v = w
    BY <2>1 DEF WebhookIInv, WebhookRows
  <2>2. CASE v # w
    <3>1. delivery'[v] = delivery[v]
      BY <2>2 DEF WebhookIInv, WebhookRows
    <3> QED
      BY <3>1, OthersAreTrue
  <2> QED
    BY <2>1, <2>2
<1>4. ArchivedBeforeActing'
  BY DEF WebhookIInv, ArchivedBeforeActing, EventsOf
<1>5. OnlyPaidIsCredited' /\ FiledIsSent'
  BY DEF WebhookIInv, OnlyPaidIsCredited, FiledIsSent
<1> QED
  BY <1>1, <1>2, <1>3, <1>4, <1>5 DEF WebhookIInv

\* The ledger moves: who took a lot has its row, who was credited was paid.
LEMMA TheLedgerMoves ==
    ASSUME WebhookIInv, Consistent(db'), Follows(db, db'),
           UNCHANGED <<clock, stripe, archive>>,
           \/ NothingTaken(db, db')
           \/ \E x \in Events : archive[x] # "none" /\ TakenBy(db, db', x),
           \A p \in PaidLots(db') : p \in PaidLots(db) \/ stripe[p].checkout = "paid"
    PROVE  IInv' /\ OneSettlementCurrency' /\ ArchivedBeforeActing' /\ OnlyPaidIsCredited'
<1>1. IInv'
  BY DEF WebhookIInv, IInv
<1>2. OneSettlementCurrency'
  BY CurrencyKept DEF WebhookIInv, OneSettlementCurrency
<1>3. OnlyPaidIsCredited'
  BY DEF WebhookIInv, OnlyPaidIsCredited
<1>4. CASE NothingTaken(db, db')
  <2>1. ArchivedBeforeActing'
    BY <1>4 DEF WebhookIInv, ArchivedBeforeActing, NothingTaken
  <2> QED
    BY <1>1, <1>2, <1>3, <2>1
<1>5. ASSUME NEW x \in Events, archive[x] # "none", TakenBy(db, db', x)
      PROVE  ArchivedBeforeActing'
  <2>1. ASSUME NEW q \in Payments, db'.lots[q].status = "frozen"
        PROVE  \E y \in EventsOf(DisputeTypes, q, 0) : archive[y] # "none"
    <3>1. CASE db.lots[q].status = "frozen"
      BY <3>1 DEF WebhookIInv, ArchivedBeforeActing
    <3>2. CASE q = x.payment /\ x.type \in DisputeTypes
      BY <1>5, <3>2, EventParts
    <3> QED
      BY <1>5, <2>1, <3>1, <3>2 DEF TakenBy
  <2>2. ASSUME NEW q \in Payments, db'.lots[q].status = "revoked"
        PROVE  \E y \in Events : /\ y.payment = q /\ archive[y] # "none"
                                /\ y.type \in refundAndDisputeEventTypes
    BY <1>5, <2>2 DEF TakenBy, WebhookIInv, ArchivedBeforeActing
  <2> QED
    BY <2>1, <2>2 DEF ArchivedBeforeActing
<1> QED
  BY <1>1, <1>2, <1>3, <1>4, <1>5

\* The rows when nothing but the ledger moves.
LEMMA OnlyTheLedgerMoves ==
    ASSUME WebhookIInv, Consistent(db'), Follows(db, db'), NothingTaken(db, db'),
           UNCHANGED <<clock, stripe, sent, answered, archive, delivery, told, mishaps>>,
           \A p \in PaidLots(db') : p \in PaidLots(db) \/ stripe[p].checkout = "paid"
    PROVE  WebhookIInv'
<1>1. IInv' /\ OneSettlementCurrency' /\ ArchivedBeforeActing' /\ OnlyPaidIsCredited'
  BY TheLedgerMoves
<1>2. WebhookRows' /\ FiledIsSent'
  BY DEF WebhookIInv, WebhookRows, FiledIsSent
<1>3. \A v \in Workers : DeliveryIsTrue(delivery[v])'
  BY OthersAreTrue
<1> QED
  BY <1>1, <1>2, <1>3 DEF WebhookIInv

\* Stripe moves a payment on, and what it collected stays collected.
LEMMA StripeMoves ==
    ASSUME WebhookIInv, NEW p \in Payments, NEW object \in StripeObject, NEW types,
           stripe[p].checkout = "paid" => object.checkout = "paid",
           Moves(p, object, types)
    PROVE  WebhookIInv'
<1>1. IInv' /\ OneSettlementCurrency' /\ ArchivedBeforeActing'
  BY DEF WebhookIInv, Moves, IInv, OneSettlementCurrency, ArchivedBeforeActing
<1>2. /\ stripe' \in [Payments -> StripeObject]
      /\ \A q \in Payments : stripe[q].checkout = "paid" => stripe'[q].checkout = "paid"
  BY DEF WebhookIInv, WebhookRows, Moves
<1>3. sent \subseteq sent' /\ sent' \subseteq Events
  BY DEF WebhookIInv, WebhookRows, Moves, EventsOf
<1>4. WebhookRows' /\ FiledIsSent'
  BY <1>2, <1>3 DEF WebhookIInv, WebhookRows, FiledIsSent, Moves
<1>5. OnlyPaidIsCredited'
  BY <1>2 DEF WebhookIInv, OnlyPaidIsCredited, Moves, PaidLots
<1>6. \A v \in Workers : DeliveryIsTrue(delivery[v])'
  BY <1>2, <1>3, OthersAreTrue DEF Moves
<1> QED
  BY <1>1, <1>4, <1>5, <1>6 DEF WebhookIInv
-----------------------------------------------------------------------------
(* The steps.                                                              *)

LEMMA ArchiveStep ==
    ASSUME WebhookIInv, NEW w \in Workers, NEW x \in Events, Archive(w, x)
    PROVE  WebhookIInv'
<1>0. PICK row : row = [pc |-> "archived", event |-> x, prior |-> Received(archive[x])]
  OBVIOUS
<1>1. archive[x] \in ArchivedStatus /\ Received(archive[x]) \in Filed
  BY DEF WebhookIInv, WebhookRows, Received, Filed, ArchivedStatus
<1>2. row \in DeliveryRow /\ row.event = x /\ row.pc = "archived"
  BY <1>0, <1>1 DEF DeliveryRow
<1>3. /\ UNCHANGED <<db, clock, stripe, sent, answered, told>> /\ x \in sent
      /\ delivery' = [delivery EXCEPT ![w] = row]
      /\ archive' = [archive EXCEPT ![x] = Received(archive[x])]
  BY <1>0 DEF Archive
<1>4. mishaps' \in 0 .. MaxMishaps
  BY WebhookAssumption DEF Archive, Mishap, WebhookIInv, WebhookRows
<1>5. /\ archive' \in [Events -> ArchivedStatus] /\ archive'[x] # "none"
      /\ \A y \in Events : archive[y] # "none" => archive'[y] # "none"
      /\ \A y \in Events : archive'[y] # "none" => y \in sent
  BY <1>1, <1>3 DEF WebhookIInv, WebhookRows, Filed, FiledIsSent
<1>6. DeliveryIsTrue(row)'
  BY <1>2, <1>3, <1>5 DEF DeliveryIsTrue
<1> QED
  BY <1>2, <1>3, <1>4, <1>5, <1>6, OneDeliveryMoves DEF WebhookIInv, WebhookRows

LEMMA ReprocessStep ==
    ASSUME WebhookIInv, NEW w \in Workers, NEW x \in Events, Reprocess(w, x)
    PROVE  WebhookIInv'
<1> DEFINE row == [pc |-> "archived", event |-> x, prior |-> "ignored"]
<1>1. row \in DeliveryRow /\ row.event = x /\ row.pc = "archived"
  BY DEF DeliveryRow, Filed, ArchivedStatus
<1>2. /\ UNCHANGED <<db, clock, stripe, sent, answered, archive, told, mishaps>>
      /\ delivery' = [delivery EXCEPT ![w] = row] /\ archive[x] = "ignored"
  BY DEF Reprocess
<1> HIDE DEF row
<1>3. DeliveryIsTrue(row)'
  BY <1>1, <1>2 DEF DeliveryIsTrue, WebhookIInv, FiledIsSent
<1> QED
  BY <1>1, <1>2, <1>3, OneDeliveryMoves DEF WebhookIInv, WebhookRows, FiledIsSent

LEMMA RetrieveStep ==
    ASSUME WebhookIInv, NEW w \in Workers, Retrieve(w)
    PROVE  WebhookIInv'
<1> DEFINE old == delivery[w]
<1>0. PICK row : row = [pc |-> "read", event |-> old.event, prior |-> old.prior,
                        seen |-> stripe[old.event.payment]]
  OBVIOUS
<1>1. old \in DeliveryRow /\ old.pc = "archived" /\ DeliveryIsTrue(old)
  BY DEF WebhookIInv, WebhookRows, Retrieve
<1>2. old # Idle /\ old.event \in Events /\ old.prior \in Filed /\ old.event \in sent
  BY <1>1, DeliveryParts, IdleIsIdle DEF DeliveryIsTrue
<1>3. old.event.payment \in Payments /\ stripe[old.event.payment] \in StripeObject
  BY <1>2, EventParts DEF WebhookIInv, WebhookRows
<1>4. row \in DeliveryRow /\ row.event = old.event /\ row.seen = stripe[old.event.payment]
  BY <1>0, <1>2, <1>3 DEF DeliveryRow
<1>5. /\ UNCHANGED <<db, clock, stripe, sent, answered, archive, told, mishaps>>
      /\ delivery' = [delivery EXCEPT ![w] = row]
  BY <1>0, <1>1 DEF Retrieve, WebhookIInv, WebhookRows
<1> HIDE DEF old
<1>6. DeliveryIsTrue(row)'
  BY <1>1, <1>2, <1>4, <1>5 DEF DeliveryIsTrue
<1> QED
  BY <1>4, <1>5, <1>6, OneDeliveryMoves DEF WebhookIInv, WebhookRows, FiledIsSent

LEMMA FiledAnswers ==
    ASSUME NEW d, NEW x, NEW seen
    PROVE  Answer(d, x, seen) \in Filed
<1>1. \A outcome : /\ archiveStatusForFulfilment(outcome) \in Filed
                   /\ archiveStatusFor(outcome) \in Filed
  BY DEF archiveStatusForFulfilment, archiveStatusFor, Filed, ArchivedStatus
<1>2. "processed" \in Filed /\ "needs_admin" \in Filed /\ "ignored" \in Filed
  BY DEF Filed, ArchivedStatus
<1>3. /\ x.type \in CheckoutTypes => Answer(d, x, seen) \in Filed
      /\ x.type \in UncollectedTypes => Answer(d, x, seen) \in Filed
      /\ x.type \in RefundTypes => Answer(d, x, seen) \in Filed
  BY <1>1, <1>2 DEF Answer, CheckoutTypes, UncollectedTypes, RefundTypes
<1>4. CASE x.type = "charge.dispute.created"
  BY <1>1, <1>4 DEF Answer, CheckoutTypes, UncollectedTypes, RefundTypes
<1>5. CASE x.type = "charge.dispute.closed"
  BY <1>1, <1>2, <1>5 DEF Answer, CheckoutTypes, UncollectedTypes, RefundTypes
<1>6. CASE /\ x.type \notin CheckoutTypes \cup UncollectedTypes \cup RefundTypes
           /\ x.type # "charge.dispute.created" /\ x.type # "charge.dispute.closed"
  BY <1>2, <1>6 DEF Answer
<1> QED
  BY <1>3, <1>4, <1>5, <1>6

\* The session was read before the transaction, and others acted meanwhile:
\* what it showed as paid is still paid.
LEMMA ActStep ==
    ASSUME WebhookIInv, NEW w \in Workers, NEW t \in RecentClocks, Act(w, t)
    PROVE  WebhookIInv' /\ Follows(db, db')
<1> DEFINE old == delivery[w]
<1> DEFINE x == old.event
<1>1. /\ old \in DeliveryRow /\ old.pc = "read" /\ DeliveryIsTrue(old)
      /\ Consistent(db) /\ t \in Nat /\ PaidLots(db) \subseteq Payments
  BY DEF WebhookIInv, WebhookRows, Act, IInv, RecentClocks, PaidLots
<1>2. /\ old # Idle /\ x \in Events /\ old.prior \in Filed /\ x \in sent
      /\ archive[x] # "none"
      /\ old.seen.checkout = "paid" => stripe[x.payment].checkout = "paid"
  BY <1>1, DeliveryParts, IdleIsIdle DEF DeliveryIsTrue
<1>3. PICK pc \in {"frozen", "acted"} :
        delivery' = [delivery EXCEPT ![w] =
            [pc |-> pc, event |-> x, prior |-> old.prior, computed |-> Answer(db, x, old.seen)]]
  BY <1>1 DEF Act, WebhookIInv, WebhookRows
<1> DEFINE row == [pc |-> pc, event |-> x, prior |-> old.prior,
                   computed |-> Answer(db, x, old.seen)]
<1>4. row \in DeliveryRow /\ row.event = x /\ row.pc # "read"
  <2>1. Answer(db, x, old.seen) \in Filed
    BY FiledAnswers
  <2> QED
    BY <1>2, <2>1 DEF DeliveryRow
<1>5. /\ db' = LedgerAfter(db, x, old.seen, t)
      /\ UNCHANGED <<clock, stripe, sent, answered, archive, told, mishaps>>
      /\ delivery' = [delivery EXCEPT ![w] = row]
  BY <1>3 DEF Act
<1> HIDE DEF row, old, x
<1>6. /\ Consistent(db') /\ Follows(db, db') /\ TakenBy(db, db', x)
      /\ PaidLots(db') \subseteq PaidLots(db) \cup {x.payment}
      /\ PaidLots(db') # PaidLots(db) => old.seen.checkout = "paid"
  BY <1>1, <1>2, <1>5, HandlerKeepsTheLedger
<1>7. IInv' /\ OneSettlementCurrency' /\ ArchivedBeforeActing' /\ OnlyPaidIsCredited'
  BY <1>2, <1>5, <1>6, TheLedgerMoves
<1>8. WebhookRows' /\ FiledIsSent'
  BY <1>4, <1>5 DEF WebhookIInv, WebhookRows, FiledIsSent
<1>9. ASSUME NEW v \in Workers PROVE DeliveryIsTrue(delivery[v])'
  <2>1. CASE v = w
    BY <1>2, <1>4, <1>5, <2>1 DEF WebhookIInv, WebhookRows, DeliveryIsTrue
  <2>2. CASE v # w
    <3>1. delivery'[v] = delivery[v]
      BY <1>5, <2>2 DEF WebhookIInv, WebhookRows
    <3> QED
      BY <1>5, <3>1, OthersAreTrue
  <2> QED
    BY <2>1, <2>2
<1> QED
  BY <1>6, <1>7, <1>8, <1>9 DEF WebhookIInv

LEMMA NotifyStep ==
    ASSUME WebhookIInv, NEW w \in Workers, NotifyFreeze(w)
    PROVE  WebhookIInv'
<1> DEFINE old == delivery[w]
<1>0. PICK row : row = [pc |-> "acted", event |-> old.event, prior |-> old.prior,
                        computed |-> old.computed]
  OBVIOUS
<1>1. old \in DeliveryRow /\ old.pc = "frozen" /\ DeliveryIsTrue(old)
  BY DEF WebhookIInv, WebhookRows, NotifyFreeze
<1>2. /\ old # Idle /\ old.event \in Events /\ old.prior \in Filed /\ old.event \in sent
      /\ old.computed \in Filed /\ archive[old.event] # "none"
      /\ old = [pc |-> old.pc, event |-> old.event, prior |-> old.prior,
                computed |-> old.computed]
  BY <1>1, DeliveryParts, IdleIsIdle DEF DeliveryIsTrue
<1>3. row \in DeliveryRow /\ row.event = old.event /\ row.pc = "acted"
  BY <1>0, <1>2 DEF DeliveryRow
<1>4. [old EXCEPT !.pc = "acted"] = row
  BY <1>0, <1>2
<1>5. /\ UNCHANGED <<db, clock, stripe, sent, answered, archive>>
      /\ delivery' = [delivery EXCEPT ![w] = row]
  BY <1>4 DEF NotifyFreeze, WebhookIInv, WebhookRows
<1>6. told' \subseteq Payments /\ mishaps' \in 0 .. MaxMishaps
  <2>1. old.event.payment \in Payments
    BY <1>2, EventParts
  <2> QED
    BY <2>1, WebhookAssumption DEF NotifyFreeze, Mishap, WebhookIInv, WebhookRows
<1> HIDE DEF old
<1>7. DeliveryIsTrue(row)'
  BY <1>2, <1>3, <1>5 DEF DeliveryIsTrue
<1> QED
  BY <1>3, <1>5, <1>6, <1>7, OneDeliveryMoves DEF WebhookIInv, WebhookRows, FiledIsSent

\* A delivery that ends writes its status, or nothing.
LEMMA EndStep ==
    ASSUME WebhookIInv, NEW w \in Workers, Settle(w) \/ Throw(w) \/ Die(w)
    PROVE  WebhookIInv'
<1> DEFINE old == delivery[w]
<1>1. Idle \in DeliveryRow /\ DeliveryIsTrue(Idle)'
  BY DEF DeliveryRow, DeliveryIsTrue
<1>2. old \in DeliveryRow /\ DeliveryIsTrue(old)
  BY DEF WebhookIInv, WebhookRows
<1>3. UNCHANGED <<db, clock, stripe, sent, told>> /\ delivery' = [delivery EXCEPT ![w] = Idle]
  BY DEF Settle, Throw, Die
<1>4. mishaps' \in 0 .. MaxMishaps
  BY WebhookAssumption DEF Settle, Throw, Die, Mishap, WebhookIInv, WebhookRows
<1>5. ASSUME NEW status \in Filed, old # Idle, archive' = [archive EXCEPT ![old.event] = status]
      PROVE  /\ archive' \in [Events -> ArchivedStatus]
             /\ \A y \in Events : archive[y] # "none" => archive'[y] # "none"
             /\ \A y \in Events : archive'[y] # "none" => y \in sent
  BY <1>2, <1>5 DEF WebhookIInv, WebhookRows, FiledIsSent, Filed, DeliveryIsTrue
<1>6. \A prior, computed \in Filed : settleStatus(prior, computed) \in Filed
  BY DEF settleStatus
<1>7. /\ archive' \in [Events -> ArchivedStatus] /\ answered' \subseteq sent
      /\ \A y \in Events : archive[y] # "none" => archive'[y] # "none"
      /\ \A y \in Events : archive'[y] # "none" => y \in sent
  <2>1. CASE Settle(w)
    <3>1. old.pc = "acted"
      BY <2>1 DEF Settle
    <3>2. old # Idle /\ old.prior \in Filed /\ old.computed \in Filed /\ old.event \in sent
      BY <1>2, <3>1, DeliveryParts, IdleIsIdle DEF DeliveryIsTrue
    <3>3. /\ archive' = [archive EXCEPT ![old.event] = settleStatus(old.prior, old.computed)]
          /\ answered' = answered \cup {old.event}
      BY <2>1 DEF Settle
    <3> HIDE DEF old
    <3> QED
      BY <1>5, <1>6, <3>2, <3>3 DEF WebhookIInv, WebhookRows
  <2>2. CASE Throw(w)
    <3>1. old.pc \in {"archived", "read"}
      BY <2>2 DEF Throw
    <3>2. old # Idle /\ old.prior \in Filed /\ "failed" \in Filed
      BY <1>2, <3>1, DeliveryParts, IdleIsIdle DEF Filed, ArchivedStatus
    <3>3. /\ archive' = [archive EXCEPT ![old.event] = settleStatus(old.prior, "failed")]
          /\ answered' = answered
      BY <2>2 DEF Throw
    <3> HIDE DEF old
    <3> QED
      BY <1>5, <1>6, <3>2, <3>3 DEF WebhookIInv, WebhookRows
  <2>3. CASE Die(w)
    BY <2>3 DEF Die, WebhookIInv, WebhookRows, FiledIsSent
  <2> QED
    BY <2>1, <2>2, <2>3
<1> HIDE DEF old
<1> QED
  BY <1>1, <1>3, <1>4, <1>7, OneDeliveryMoves DEF WebhookIInv, WebhookRows

\* The sweep's recovery and the browser's return read the session as they grant.
LEMMA RecoveryStep ==
    ASSUME WebhookIInv, NEW t \in RecentClocks,
           \/ \E x \in Events : RecoverCheckout(x, t)
           \/ \E p \in Payments : CheckoutReturn(p, t)
    PROVE  WebhookIInv' /\ Follows(db, db')
<1>1. PICK p \in Payments :
        /\ db' = Fulfilled(db, p, stripe[p].checkout, t)
        /\ UNCHANGED <<clock, stripe, sent, answered, archive, delivery, told, mishaps>>
  BY EventParts DEF RecoverCheckout, CheckoutReturn
<1>2. Consistent(db) /\ t \in Nat
  BY DEF WebhookIInv, IInv, RecentClocks
<1>3. /\ Consistent(db') /\ Follows(db, db') /\ NothingTaken(db, db')
      /\ PaidLots(db') \subseteq PaidLots(db) \cup {p}
      /\ PaidLots(db') # PaidLots(db) => stripe[p].checkout = "paid"
  BY <1>1, <1>2, Fulfilling
<1>4. \A q \in PaidLots(db') : q \in PaidLots(db) \/ stripe[q].checkout = "paid"
  BY <1>3
<1> QED
  BY <1>1, <1>3, <1>4, OnlyTheLedgerMoves

LEMMA SpendStep ==
    ASSUME WebhookIInv, NEW t \in RecentClocks, SpendCredits(t)
    PROVE  WebhookIInv' /\ Follows(db, db')
<1>1. IInv' /\ Continues(db, db') /\ SamePurchases(db, db') /\ NothingTaken(db, db')
  BY SpendingTakesNothing DEF WebhookIInv
<1>2. UNCHANGED <<clock, stripe, sent, answered, archive, delivery, told, mishaps>>
  BY DEF SpendCredits, ReserveCreditForSession, CaptureReservationForSession,
         ReleaseReservationForSession, Commit
<1>3. Consistent(db') /\ Follows(db, db')
  BY <1>1 DEF IInv, Follows
<1> QED
  BY <1>1, <1>2, <1>3, OnlyTheLedgerMoves DEF SamePurchases

LEMMA StripeStep ==
    ASSUME WebhookIInv, NEW p \in Payments,
           \/ CloseCheckout(p) \/ SettleDeferred(p)
           \/ \E amount \in RefundAmounts : Refund(p, amount)
           \/ OpenDispute(p)
           \/ \E disposition \in {"won", "lost"} : CloseDispute(p, disposition)
    PROVE  WebhookIInv' /\ db' = db
<1>1. stripe[p] \in StripeObject
  BY DEF WebhookIInv, WebhookRows
<1>2. ASSUME NEW object \in StripeObject, NEW types, Moves(p, object, types),
             stripe[p].checkout = "paid" => object.checkout = "paid"
      PROVE  WebhookIInv' /\ db' = db
  BY <1>2, StripeMoves DEF Moves
<1>3. ASSUME NEW checkout \in {"paid", "deferred", "no_payment_required", "failed"}, NEW types,
             stripe[p].checkout # "paid",
             Moves(p, [stripe[p] EXCEPT !.checkout = checkout], types)
      PROVE  WebhookIInv' /\ db' = db
  <2>1. [stripe[p] EXCEPT !.checkout = checkout] \in StripeObject
    BY <1>1 DEF StripeObject
  <2> QED
    BY <1>2, <1>3, <2>1
<1>4. CASE CloseCheckout(p)
  BY <1>3, <1>4 DEF CloseCheckout
<1>5. CASE SettleDeferred(p)
  BY <1>3, <1>5 DEF SettleDeferred
<1>6. ASSUME NEW amount \in RefundAmounts, Refund(p, amount)
      PROVE  WebhookIInv' /\ db' = db
  <2> DEFINE object == [stripe[p] EXCEPT !.refunded = amount]
  <2>1. object \in StripeObject /\ object.checkout = stripe[p].checkout
    BY <1>1 DEF StripeObject
  <2>2. Moves(p, object, RefundTypes)
    BY <1>6 DEF Refund
  <2> HIDE DEF object
  <2> QED
    BY <1>2, <2>1, <2>2
<1>7. ASSUME NEW dispute \in {"open", "won", "lost"}, NEW types,
             Moves(p, [stripe[p] EXCEPT !.dispute = dispute], types)
      PROVE  WebhookIInv' /\ db' = db
  <2> DEFINE object == [stripe[p] EXCEPT !.dispute = dispute]
  <2>1. object \in StripeObject /\ object.checkout = stripe[p].checkout
    BY <1>1 DEF StripeObject
  <2>2. Moves(p, object, types)
    BY <1>7
  <2> HIDE DEF object
  <2> QED
    BY <1>2, <2>1, <2>2
<1>8. CASE OpenDispute(p)
  BY <1>7, <1>8 DEF OpenDispute
<1>9. ASSUME NEW disposition \in {"won", "lost"}, CloseDispute(p, disposition)
      PROVE  WebhookIInv' /\ db' = db
  BY <1>7, <1>9 DEF CloseDispute
<1> QED
  BY <1>4, <1>5, <1>6, <1>8, <1>9
-----------------------------------------------------------------------------
(* The theorems.                                                           *)

\* Nothing happened yet, or an older version granted: nobody's credits were
\* taken, and who was granted credits had paid.
LEMMA WebhookStart == WebhookInit => WebhookIInv
<1> SUFFICES ASSUME WebhookInit PROVE WebhookIInv
  OBVIOUS
<1>1. IInv
  BY InitInvariant DEF WebhookInit
<1>2. OneSettlementCurrency
  <2>1. Init
    BY DEF WebhookInit
  <2> QED
    BY <2>1 DEF Init, Fresh, Legacy, OneSettlementCurrency
<1>3. /\ answered = sent /\ told = {} /\ mishaps = 0
      /\ archive = [x \in Events |-> IF x \in sent THEN "ignored" ELSE "none"]
      /\ delivery = [w \in Workers |-> Idle]
  BY DEF WebhookInit
<1>4. NewPayment \in StripeObject
  BY DEF NewPayment, StripeObject
<1>5. CASE /\ db = Fresh
           /\ stripe = [p \in Payments |-> NewPayment]
           /\ sent = {}
  <2>1. stripe \in [Payments -> StripeObject] /\ sent \subseteq Events
    BY <1>4, <1>5
  <2>2. \A p \in Payments : db.lots[p].status = "none"
    BY <1>5 DEF Fresh, NoLot, Lots
  <2>3. ArchivedBeforeActing /\ OnlyPaidIsCredited
    BY <2>2 DEF ArchivedBeforeActing, OnlyPaidIsCredited, PaidLots
  <2> QED
    BY <1>1, <1>2, <1>3, <2>1, <2>3, WebhookAssumption
       DEF WebhookIInv, WebhookRows, FiledIsSent, DeliveryIsTrue, DeliveryRow, ArchivedStatus
<1>6. ASSUME NEW ignored \in SUBSET IgnoredBefore, db = Legacy,
             stripe = [p \in Payments |->
                [NewPayment EXCEPT !.checkout = IF p \in LegacyPayments THEN "paid" ELSE @,
                                   !.dispute = IF p \in ignored THEN "open" ELSE @]],
             sent = Past(ignored)
      PROVE  WebhookIInv
  <2>1. ASSUME NEW p \in Payments
        PROVE  /\ stripe[p] \in StripeObject
               /\ p \in LegacyPayments => stripe[p].checkout = "paid"
    BY <1>4, <1>6 DEF NewPayment, StripeObject
  <2>2. stripe \in [Payments -> StripeObject] /\ sent \subseteq Events
    BY <1>6, <2>1 DEF Past
  <2>3. FreeLot \notin Payments /\ LegacyPayments \subseteq Payments
    BY LedgerAssumption
  <2>4. ASSUME NEW p \in Payments
        PROVE  db.lots[p] = IF p \in LegacyPayments
                            THEN NewLot(PackCredits[p], PAID_CREDIT_EXPIRY_DAYS) ELSE NoLot
    BY <1>6, <2>3 DEF Legacy, Lots
  <2>5. ASSUME NEW p \in Payments
        PROVE  db.lots[p].status = IF p \in LegacyPayments THEN "active" ELSE "none"
    <3>1. CASE p \in LegacyPayments
      <4>1. db.lots[p] = NewLot(PackCredits[p], PAID_CREDIT_EXPIRY_DAYS)
        BY <2>4, <3>1
      <4> QED
        BY <3>1, <4>1 DEF NewLot
    <3>2. CASE p \notin LegacyPayments
      <4>1. db.lots[p] = NoLot
        BY <2>4, <3>2
      <4> QED
        BY <3>2, <4>1 DEF NoLot
    <3> QED
      BY <3>1, <3>2
  <2>6. ArchivedBeforeActing
    BY <2>5 DEF ArchivedBeforeActing
  <2>7. OnlyPaidIsCredited
    BY <2>1, <2>5 DEF OnlyPaidIsCredited, PaidLots
  <2> QED
    BY <1>1, <1>2, <1>3, <2>2, <2>6, <2>7, WebhookAssumption
       DEF WebhookIInv, WebhookRows, FiledIsSent, DeliveryIsTrue, DeliveryRow, ArchivedStatus
<1> QED
  BY <1>5, <1>6 DEF WebhookInit

LEMMA WebhookStep ==
    ASSUME WebhookIInv, [WebhookNext]_webhookVars
    PROVE  WebhookIInv' /\ (Follows(db, db') \/ db' = db)
<1>1. ASSUME NEW w \in Workers,
             \/ Handle(w) \/ Throw(w) \/ Die(w)
             \/ \E x \in Events : Archive(w, x) \/ Reprocess(w, x)
      PROVE  WebhookIInv' /\ (Follows(db, db') \/ db' = db)
  <2>1. CASE \E t \in RecentClocks : Act(w, t)
    BY <2>1, ActStep
  <2>2. CASE Retrieve(w)
    BY <2>2, RetrieveStep DEF Retrieve
  <2>3. CASE NotifyFreeze(w)
    BY <2>3, NotifyStep DEF NotifyFreeze
  <2>4. CASE Settle(w) \/ Throw(w) \/ Die(w)
    BY <2>4, EndStep DEF Settle, Throw, Die
  <2>5. ASSUME NEW x \in Events, Archive(w, x) PROVE WebhookIInv' /\ db' = db
    BY <2>5, ArchiveStep DEF Archive
  <2>6. ASSUME NEW x \in Events, Reprocess(w, x) PROVE WebhookIInv' /\ db' = db
    BY <2>6, ReprocessStep DEF Reprocess
  <2> QED
    BY <1>1, <2>1, <2>2, <2>3, <2>4, <2>5, <2>6 DEF Handle
<1>2. ASSUME NEW t \in RecentClocks,
             \/ \E x \in Events : RecoverCheckout(x, t)
             \/ \E p \in Payments : CheckoutReturn(p, t)
             \/ SpendCredits(t)
      PROVE  WebhookIInv' /\ Follows(db, db')
  BY <1>2, RecoveryStep, SpendStep
<1>3. CASE UNCHANGED webhookVars
  <2>1. IInv' /\ OneSettlementCurrency'
    BY <1>3 DEF WebhookIInv, webhookVars, IInv, OneSettlementCurrency
  <2>2. WebhookRows' /\ FiledIsSent'
    BY <1>3 DEF WebhookIInv, webhookVars, WebhookRows, FiledIsSent
  <2>3. \A v \in Workers : DeliveryIsTrue(delivery[v])'
    BY <1>3 DEF WebhookIInv, webhookVars, DeliveryIsTrue
  <2>4. ArchivedBeforeActing' /\ OnlyPaidIsCredited'
    BY <1>3 DEF WebhookIInv, webhookVars, ArchivedBeforeActing, OnlyPaidIsCredited
  <2> QED
    BY <1>3, <2>1, <2>2, <2>3, <2>4 DEF WebhookIInv, webhookVars
<1> QED
  BY <1>1, <1>2, <1>3, StripeStep DEF WebhookNext

LEMMA WebhookInvariance == WebhookSpec => []WebhookIInv
<1>1. WebhookIInv /\ [WebhookNext]_webhookVars => WebhookIInv'
  BY WebhookStep
<1> QED
  BY <1>1, WebhookStart, PTL DEF WebhookSpec

\* However deliveries fail, die, are repeated and overtake each other: a lot
\* that was frozen or revoked has the row of the event that did it, and only
\* what Stripe collected is credited.
THEOREM NothingIsTakenOrCreditedUnseen == WebhookSpec => []WebhookInv
<1>1. WebhookIInv => WebhookInv
  <2> SUFFICES ASSUME WebhookIInv PROVE WebhookInv
    OBVIOUS
  <2>1. TypeOK
    BY DEF WebhookIInv, IInv, Consistent, TypeOK
  <2>2. ASSUME NEW w \in Workers PROVE delivery[w] = Idle \/ delivery[w].event \in sent
    BY DEF WebhookIInv, DeliveryIsTrue
  <2>3. WebhookTypeOK
    BY <2>1, <2>2 DEF WebhookIInv, WebhookRows, WebhookTypeOK
  <2> QED
    BY <2>3 DEF WebhookIInv, WebhookInv
<1> QED
  BY <1>1, WebhookInvariance, PTL

\* The books balance under the pipeline too, where one transaction opens the
\* wallet and grants, and every credit out of a lot is one session's.
THEOREM TheBooksBalanceUnderDeliveries ==
    WebhookSpec => [](BooksBalance /\ CountersMatchSessions /\ OneSettlementCurrency)
<1>1. WebhookIInv => BooksBalance /\ CountersMatchSessions /\ OneSettlementCurrency
  BY DEF WebhookIInv, IInv, Consistent, BooksBalance, CountersMatchSessions
<1> QED
  BY <1>1, WebhookInvariance, PTL

\* A payment is credited once and a session charged for good although its event
\* is delivered twice, recovered by the sweep and returned to by the browser.
THEOREM RedeliveriesSettleNothingTwice == WebhookSpec => SettledForGood
<1> DEFINE Settled ==
        /\ \A s \in Sessions :
              db.reservations[s].status = "captured" =>
                  db'.reservations[s] = db.reservations[s]
        /\ \A l \in Lots :
              db.lots[l].status # "none" =>
                  /\ db'.lots[l].status # "none"
                  /\ db'.lots[l].granted = db.lots[l].granted
                  /\ db'.lots[l].expiresAt = db.lots[l].expiresAt
                  /\ db'.lots[l].consumed >= db.lots[l].consumed
<1>1. ASSUME WebhookIInv, [WebhookNext]_webhookVars PROVE [Settled]_vars
  <2>1. CASE Follows(db, db')
    BY <2>1 DEF Follows, Continues, ChargedStayCharged
  <2>2. CASE db' = db
    <3>1. Continues(db, db)
      BY <1>1, NothingHappened DEF WebhookIInv, IInv
    <3> QED
      BY <2>2, <3>1 DEF Continues, ChargedStayCharged
  <2> QED
    BY <1>1, <2>1, <2>2, WebhookStep
<1> HIDE DEF Settled
<1>2. WebhookSpec => [][Settled]_vars
  BY <1>1, WebhookInvariance, PTL DEF WebhookSpec
<1> QED
  BY <1>2 DEF Settled, SettledForGood
=============================================================================
