---------------------------- MODULE CreditLedger ----------------------------
(***************************************************************************)
(* The prepaid credit ledger of one organization, as                       *)
(* packages/billing/src/credit-ledger.ts keeps it in Postgres and          *)
(* packages/core/src/domain/credit-lots.ts reads it.                       *)
(*                                                                         *)
(* Every mutating function of that file is one transaction whose first     *)
(* statement locks the organization's wallet row, so each is one atomic    *)
(* action here.  What is NOT serialised is the clock a caller passes in:   *)
(* it is read before the transaction waits for its lock (and before its    *)
(* retries), so an action works with any `t` of the last MaxLag ticks.     *)
(*                                                                         *)
(* The functions are written as operators from the rows a transaction      *)
(* finds (`d`) to the rows it commits, in the order of the code: a request *)
(* that sweeps before it selects a lot is the composition of the sweep's   *)
(* operators and its own.                                                  *)
(***************************************************************************)
EXTENDS Integers, FiniteSets, Totals

CONSTANTS
    Sessions,               \* candidate sessions that may hold a credit
    Payments,               \* Stripe payment intents that may reach this organization
    LegacyPayments,         \* those granted before wallets recorded a currency
    FreeLot,                \* the id of the `first_five` lot
    Currencies,             \* settlement currencies
    NoCurrency,             \* `settlementCurrency` is null
    PackCredits,            \* creditsGranted of a payment
    UnitAmountCents,        \* unitAmountCents of a payment (the whole pack, tax excluded)
    ChargeAmountCents,      \* what Stripe collected for a payment (tax included)
    Currency,               \* currency of a payment, upper-cased
    RefundAmounts,          \* cumulative refunded amounts Stripe may report
    FIRST_FIVE_CREDITS,
    FIRST_FIVE_EXPIRY_DAYS,
    PAID_CREDIT_EXPIRY_DAYS,
    RESERVATION_TTL_HOURS,
    MaxLag,                 \* how old a caller's `now` can be when its lock is granted
    Horizon                 \* bound: no new request after this tick

ASSUME LedgerAssumption ==
    /\ IsFiniteSet(Sessions)
    /\ IsFiniteSet(Payments)
    /\ FreeLot \notin Payments
    /\ LegacyPayments \subseteq Payments
    /\ NoCurrency \notin Currencies
    /\ PackCredits \in [Payments -> Nat]
    /\ UnitAmountCents \in [Payments -> Int]
    /\ ChargeAmountCents \in [Payments -> Nat]
    /\ Currency \in [Payments -> Currencies]
    /\ RefundAmounts \subseteq Nat
    /\ FIRST_FIVE_CREDITS \in Nat
    /\ FIRST_FIVE_EXPIRY_DAYS \in Nat \ {0}
    /\ PAID_CREDIT_EXPIRY_DAYS \in Nat \ {0}
    /\ RESERVATION_TTL_HOURS \in Nat \ {0}
    /\ MaxLag \in Nat
    /\ Horizon \in Nat
    \* a payment granted before wallets recorded a currency granted something
    /\ \A p \in LegacyPayments : PackCredits[p] > 0

VARIABLES
    db,     \* the organization's rows: wallet, lots, reservations, ledger
    clock   \* the time of day every process reads

vars == <<db, clock>>

-----------------------------------------------------------------------------
(* The rows.  A paid lot is named by its payment intent, which is unique   *)
(* over the whole table; a reservation by its session, unique likewise.    *)
(* The ledger keeps, for each lot, the sum of `delta` over its entries.    *)

Lots == Payments \cup {FreeLot}

LotStatus == {"none", "active", "exhausted", "expired", "frozen", "revoked"}

ReservationStatus == {"none", "held", "captured", "released"}

LotRow == [status : LotStatus, granted : Nat, consumed : Nat, reserved : Nat,
           expiresAt : Nat]

ReservationRow == [status : ReservationStatus, lot : Lots, expiresAt : Nat]

WalletRow == [exists : BOOLEAN, available : Nat, reserved : Nat,
              settlementCurrency : Currencies \cup {NoCurrency}]

Rows == [wallet : WalletRow, lots : [Lots -> LotRow],
         reservations : [Sessions -> ReservationRow], ledger : [Lots -> Nat]]

NoLot == [status |-> "none", granted |-> 0, consumed |-> 0, reserved |-> 0,
          expiresAt |-> 0]

\* The lot and the expiry of a reservation that does not exist mean nothing.
NoReservation == [status |-> "none", lot |-> FreeLot, expiresAt |-> 0]

NewLot(credits, expiresAt) ==
    [status |-> "active", granted |-> credits, consumed |-> 0, reserved |-> 0,
     expiresAt |-> expiresAt]

-----------------------------------------------------------------------------
(* Reading a lot (credit-lots.ts).                                         *)

availableInLot(lot) == lot.granted - lot.consumed - lot.reserved

isLotClockActive(lot, t) == lot.status = "active" /\ lot.expiresAt > t

\* Mistake for the checks to catch: an empty lot is still offered.
isLotEligible_OffByOne(lot, t) == isLotClockActive(lot, t) /\ availableInLot(lot) >= 0

isLotEligible(lot, t) == isLotClockActive(lot, t) /\ availableInLot(lot) > 0

\* Free before paid, then the soonest expiry.  Paid lots all live equally
\* long, so the third key (the oldest grant) never separates two of them; the
\* last one, the id, is an order the model leaves open.
ConsumedNoLaterThan(d, l, m) ==
    \/ l = FreeLot
    \/ m # FreeLot /\ d.lots[l].expiresAt <= d.lots[m].expiresAt

EligibleLots(d, t) == {l \in Lots : isLotEligible(d.lots[l], t)}

selectLotForReservation(d, t) ==
    {l \in EligibleLots(d, t) : \A m \in EligibleLots(d, t) : ConsumedNoLaterThan(d, l, m)}

computeWalletTotals(d, t) ==
    [available |-> Total({l \in Lots : isLotClockActive(d.lots[l], t)},
                         [l \in Lots |-> availableInLot(d.lots[l])]),
     reserved |-> Total(Lots, [l \in Lots |-> d.lots[l].reserved])]

\* reconcileWallet: the lots, the ledger and the stored counters agree.
Reconciles(d, t) ==
    /\ computeWalletTotals(d, t).available = d.wallet.available
    /\ computeWalletTotals(d, t).reserved = d.wallet.reserved
    /\ Total(Lots, d.ledger) = d.wallet.available

-----------------------------------------------------------------------------
(* The in-transaction primitives.                                          *)

HeldOn(d, S, l) == {s \in S : d.reservations[s].status = "held" /\ d.reservations[s].lot = l}

\* Mistake for the checks to catch: holds on closed lots are not swept.
DueHolds_OpenLotsOnly(d, t) ==
    {s \in Sessions : /\ d.reservations[s].status = "held"
                      /\ d.reservations[s].expiresAt <= t
                      /\ d.lots[d.reservations[s].lot].status = "active"}

DueHolds(d, t) ==
    {s \in Sessions : d.reservations[s].status = "held" /\ d.reservations[s].expiresAt <= t}

\* Mistakes for the checks to catch: a release into a closed lot is not
\* compensated; the wallet counts the releases, not the credits that came back.
ReturnedTo_Uncompensated(d, S, l) == Cardinality(HeldOn(d, S, l))
Spendable_AllReleases(d, S) == S

\* What the entries of the released holds of S add to the ledger of lot l:
\* a credit returned to a lot that is no longer active is written off by a
\* second entry of the same transaction.
ReturnedTo(d, S, l) ==
    IF d.lots[l].status = "active" THEN Cardinality(HeldOn(d, S, l)) ELSE 0

\* The holds of S whose release returns a credit the wallet can spend.
Spendable(d, S) ==
    {s \in S : d.lots[d.reservations[s].lot].status = "active"}

\* releaseReservationRow for every session of S, all held, and the one wallet
\* update that follows.
releaseReservationRow(d, S) ==
    [wallet |-> [d.wallet EXCEPT !.available = @ + Cardinality(Spendable(d, S)),
                                 !.reserved = @ - Cardinality(S)],
     lots |-> [l \in Lots |->
         [d.lots[l] EXCEPT !.reserved = @ - Cardinality(HeldOn(d, S, l))]],
     reservations |-> [s \in Sessions |->
         IF s \in S THEN [d.reservations[s] EXCEPT !.status = "released"]
                    ELSE d.reservations[s]],
     ledger |-> [l \in Lots |-> d.ledger[l] + ReturnedTo(d, S, l)]]

releaseExpiredReservationsInTx(d, t) == releaseReservationRow(d, DueHolds(d, t))

DueLots(d, t) == {l \in Lots : d.lots[l].status = "active" /\ d.lots[l].expiresAt <= t}

\* Writes off what is left in the lots past their date; the held credits of
\* such a lot stay reserved.
expireDueLotsInTx(d, t) ==
    LET remaining == [l \in Lots |-> availableInLot(d.lots[l])]
        due == DueLots(d, t)
    IN [wallet |-> [d.wallet EXCEPT !.available = @ - Total(due, remaining)],
        lots |-> [l \in Lots |->
            IF l \in due THEN [d.lots[l] EXCEPT !.status = "expired"] ELSE d.lots[l]],
        reservations |-> d.reservations,
        ledger |-> [l \in Lots |->
            IF l \in due THEN d.ledger[l] - remaining[l] ELSE d.ledger[l]]]

Sweep(d, t) == expireDueLotsInTx(releaseExpiredReservationsInTx(d, t), t)

-----------------------------------------------------------------------------
(* Granting.                                                               *)

\* The create branch of ensureWallet; on an existing wallet it does nothing.
ensureWallet(d, t, ttl) ==
    [wallet |-> [d.wallet EXCEPT !.exists = TRUE, !.available = FIRST_FIVE_CREDITS],
     lots |-> [d.lots EXCEPT ![FreeLot] = NewLot(FIRST_FIVE_CREDITS, t + ttl)],
     reservations |-> d.reservations,
     ledger |-> [d.ledger EXCEPT ![FreeLot] = FIRST_FIVE_CREDITS]]

PaidLots(d) == {p \in Payments : d.lots[p].status # "none"}

\* Mistake for the checks to catch: a null settlement currency accepts anything.
CurrencyAccepted_NullIsFree(d, p) == d.wallet.settlementCurrency \in {NoCurrency, Currency[p]}

\* The currency gate: a null settlement currency also looks at the paid lots
\* an older version of the program may have left.
CurrencyAccepted(d, p) ==
    IF d.wallet.settlementCurrency = NoCurrency
    THEN \A q \in PaidLots(d) : Currency[q] = Currency[p]
    ELSE d.wallet.settlementCurrency = Currency[p]

\* Mistake for the checks to catch: no idempotency check on the payment.
CanGrant_Again(d, p) == CurrencyAccepted(d, p)

\* grantPurchasedCreditLot, the branch that creates the lot.
CanGrant(d, p) ==
    /\ p \notin PaidLots(d)
    /\ CurrencyAccepted(d, p)

grantPurchasedCreditLot(d, p, t) ==
    [wallet |-> [d.wallet EXCEPT !.settlementCurrency = Currency[p],
                                 !.available = @ + PackCredits[p]],
     lots |-> [d.lots EXCEPT ![p] = NewLot(PackCredits[p], t + PAID_CREDIT_EXPIRY_DAYS)],
     reservations |-> d.reservations,
     ledger |-> [d.ledger EXCEPT ![p] = @ + PackCredits[p]]]

-----------------------------------------------------------------------------
(* Money going out: disputes and refunds.                                  *)

\* Mistake for the checks to catch: the write-off includes the held credits.
WrittenOff_WithHolds(lot) == lot.granted - lot.consumed

WrittenOff(lot) == availableInLot(lot)

\* A closing of the lot that takes what is available in it off the wallet.
WriteOff(d, p, status) ==
    [wallet |-> [d.wallet EXCEPT !.available = @ - WrittenOff(d.lots[p])],
     lots |-> [d.lots EXCEPT ![p].status = status],
     reservations |-> d.reservations,
     ledger |-> [d.ledger EXCEPT ![p] = @ - WrittenOff(d.lots[p])]]

FreezeOutcome(d, p) ==
    CASE d.lots[p].status = "none"      -> "no_lot"
      [] d.lots[p].status = "exhausted" -> "needs_admin"
      [] d.lots[p].status = "active"    -> "applied"
      [] OTHER                          -> "already_applied"

freezeLotForDispute(d, p) ==
    IF FreezeOutcome(d, p) = "applied" THEN WriteOff(d, p, "frozen") ELSE d

ResolveOutcome(d, p) ==
    CASE d.lots[p].status = "none"   -> "no_lot"
      [] d.lots[p].status = "frozen" -> "applied"
      [] OTHER                       -> "already_applied"

\* `lost` closes the lot with no further entry; `won` gives back what is
\* available now, then writes it off again if the lot fell due meanwhile.
Unfreeze(d, p) ==
    [wallet |-> [d.wallet EXCEPT !.available = @ + availableInLot(d.lots[p])],
     lots |-> [d.lots EXCEPT ![p].status = "active"],
     reservations |-> d.reservations,
     ledger |-> [d.ledger EXCEPT ![p] = @ + availableInLot(d.lots[p])]]

Revoke(d, p) == [d EXCEPT !.lots = [d.lots EXCEPT ![p].status = "revoked"]]

\* Mistake for the checks to catch: a dispute won on a lot that fell due while
\* it was frozen does not expire it again.
resolveDisputeOnLot_Unswept(d, p, disposition, t) ==
    IF disposition = "lost" THEN Revoke(d, p) ELSE Unfreeze(d, p)

resolveDisputeOnLot(d, p, disposition, t) ==
    IF disposition = "lost" THEN Revoke(d, p)
                            ELSE expireDueLotsInTx(Unfreeze(d, p), t)

\* The refund is the price of every credit left, to a cent, in integers:
\* |amount - left * unit| <= 1 and round(amount / unit) = left, with
\* unit = UnitAmountCents / granted.
matchesUnconsumedProrata(d, p, amount) ==
    LET left == availableInLot(d.lots[p])
        granted == d.lots[p].granted
        price == UnitAmountCents[p]
        difference == amount * granted - left * price
    IN /\ price > 0 /\ granted > 0 /\ left > 0
       /\ -granted <= difference /\ difference <= granted
       /\ (2 * amount * granted + price) \div (2 * price) = left

IsFullRefund(p, amount) == amount >= ChargeAmountCents[p]

\* A full refund takes the whole lot, if none of it was used; a partial one
\* takes what is left, if it is the price of what is left.
RefundMatches(d, p, amount) ==
    IF IsFullRefund(p, amount) THEN d.lots[p].consumed = 0
                               ELSE matchesUnconsumedProrata(d, p, amount)

RevokeOutcome(d, p, amount) ==
    CASE d.lots[p].status = "none"      -> "no_lot"
      [] d.lots[p].status = "exhausted" -> "needs_admin"
      [] d.lots[p].status = "active"    ->
           IF RefundMatches(d, p, amount) THEN "applied" ELSE "needs_admin"
      [] OTHER                          -> "already_applied"

revokeUnconsumedLot(d, p, amount) ==
    IF RevokeOutcome(d, p, amount) = "applied" THEN WriteOff(d, p, "revoked") ELSE d

-----------------------------------------------------------------------------
(* Holding, capturing and releasing one session's credit.                  *)

Renew(d, s, t) ==
    [d EXCEPT !.reservations =
        [d.reservations EXCEPT ![s].expiresAt = t + RESERVATION_TTL_HOURS]]

Hold(d, s, l, t) ==
    [wallet |-> [d.wallet EXCEPT !.available = @ - 1, !.reserved = @ + 1],
     lots |-> [d.lots EXCEPT ![l].reserved = @ + 1],
     reservations |-> [d.reservations EXCEPT
         ![s] = [status |-> "held", lot |-> l, expiresAt |-> t + RESERVATION_TTL_HOURS]],
     ledger |-> [d.ledger EXCEPT ![l] = @ - 1]]

\* Mistake for the checks to catch: the lot is exhausted when none of it is
\* available, though other interviews still hold some.
IsSpent_NoneAvailable(lot) == availableInLot(lot) <= 0

IsSpent(lot) == lot.consumed >= lot.granted

\* A capture closes the lot only if it is still active: one that was frozen
\* or expired while the interview ran keeps that status.
Consume(lot) ==
    LET spent == IsSpent([lot EXCEPT !.consumed = @ + 1, !.reserved = @ - 1])
    IN [lot EXCEPT !.consumed = @ + 1,
                   !.reserved = @ - 1,
                   !.status = IF lot.status = "active" /\ spent THEN "exhausted" ELSE @]

captureReservationForSession(d, s) ==
    LET l == d.reservations[s].lot
    IN [wallet |-> [d.wallet EXCEPT !.reserved = @ - 1],
        lots |-> [d.lots EXCEPT ![l] = Consume(d.lots[l])],
        reservations |-> [d.reservations EXCEPT ![s].status = "captured"],
        ledger |-> d.ledger]

releaseReservationForSession(d, s, t) ==
    expireDueLotsInTx(releaseReservationRow(d, {s}), t)

-----------------------------------------------------------------------------
(* The actions.                                                            *)

\* The clocks a caller can have read: it does so before its lock is granted.
RecentClocks == {t \in 0 .. clock : clock - t <= MaxLag}

\* A bound of the model: requests come no later than this; the clock then
\* runs on until everything they left has fallen due.
RequestsOpen == clock <= Horizon

LastTick == Horizon + PAID_CREDIT_EXPIRY_DAYS + RESERVATION_TTL_HOURS

Tick ==
    /\ clock < LastTick
    /\ clock' = clock + 1
    /\ UNCHANGED db

Commit(d) == db' = d /\ UNCHANGED clock

\* The organization's first billing touch is an admission (30 days) or a
\* purchase (365 days).  The wallet stays even if the call that needed it fails.
OpenWallet(t, ttl) ==
    /\ RequestsOpen
    /\ ~db.wallet.exists
    /\ Commit(ensureWallet(db, t, ttl))

\* A payment that grants nothing, whose currency is refused or whose lot
\* exists changes no row.
GrantPurchasedCreditLot(p, t) ==
    /\ RequestsOpen
    /\ db.wallet.exists
    /\ PackCredits[p] > 0 /\ UnitAmountCents[p] >= 0
    /\ CanGrant(db, p)
    /\ Commit(grantPurchasedCreditLot(db, p, t))

FreezeLotForDispute(p) ==
    /\ FreezeOutcome(db, p) = "applied"
    /\ Commit(freezeLotForDispute(db, p))

ResolveDisputeOnLot(p, disposition, t) ==
    /\ ResolveOutcome(db, p) = "applied"
    /\ Commit(resolveDisputeOnLot(db, p, disposition, t))

RevokeUnconsumedLot(p, amount) ==
    /\ RevokeOutcome(db, p, amount) = "applied"
    /\ Commit(revokeUnconsumedLot(db, p, amount))

\* reserveCreditForSession: a resume on a live hold renews it.
RenewHold(s, t) ==
    /\ RequestsOpen
    /\ db.reservations[s].status = "held"
    /\ Commit(Renew(db, s, t))

\* reserveCreditForSession: a session with no live hold sweeps, then takes
\* the first eligible lot; with none left it is refused, the sweep standing.
ReserveCreditForSession(s, t) ==
    LET swept == Sweep(db, t)
    IN /\ RequestsOpen
       /\ db.wallet.exists
       /\ db.reservations[s].status \in {"none", "released"}
       /\ \/ \E l \in selectLotForReservation(swept, t) : Commit(Hold(swept, s, l, t))
          \/ EligibleLots(swept, t) = {} /\ Commit(swept)

CaptureReservationForSession(s) ==
    /\ db.reservations[s].status = "held"
    /\ Commit(captureReservationForSession(db, s))

ReleaseReservationForSession(s, t) ==
    /\ db.reservations[s].status = "held"
    /\ Commit(releaseReservationForSession(db, s, t))

ReleaseExpiredReservations(t) ==
    /\ db.wallet.exists
    /\ Commit(Sweep(db, t))

ExpireDueLots(t) ==
    /\ db.wallet.exists
    /\ Commit(expireDueLotsInTx(db, t))

\* Either nobody has touched billing yet, or the organization bought before
\* wallets recorded a currency: its free lot is long expired, its paid lots
\* are as they were granted.
Fresh ==
    [wallet |-> [exists |-> FALSE, available |-> 0, reserved |-> 0,
                 settlementCurrency |-> NoCurrency],
     lots |-> [l \in Lots |-> NoLot],
     reservations |-> [s \in Sessions |-> NoReservation],
     ledger |-> [l \in Lots |-> 0]]

LegacyBalance == [l \in Lots |-> IF l \in LegacyPayments THEN PackCredits[l] ELSE 0]

Legacy ==
    [wallet |-> [exists |-> TRUE, available |-> Total(Lots, LegacyBalance), reserved |-> 0,
                 settlementCurrency |-> NoCurrency],
     lots |-> [l \in Lots |->
         CASE l = FreeLot          -> [NewLot(FIRST_FIVE_CREDITS, 0) EXCEPT !.status = "expired"]
           [] l \in LegacyPayments -> NewLot(PackCredits[l], PAID_CREDIT_EXPIRY_DAYS)
           [] OTHER                -> NoLot],
     reservations |-> [s \in Sessions |-> NoReservation],
     ledger |-> LegacyBalance]

Init ==
    /\ db \in {Fresh, Legacy}
    /\ clock = 0

LedgerStep(t) ==
    \/ \E ttl \in {FIRST_FIVE_EXPIRY_DAYS, PAID_CREDIT_EXPIRY_DAYS} : OpenWallet(t, ttl)
    \/ \E p \in Payments :
          \/ GrantPurchasedCreditLot(p, t)
          \/ FreezeLotForDispute(p)
          \/ \E disposition \in {"won", "lost"} : ResolveDisputeOnLot(p, disposition, t)
          \/ \E amount \in RefundAmounts : RevokeUnconsumedLot(p, amount)
    \/ \E s \in Sessions :
          \/ RenewHold(s, t)
          \/ ReserveCreditForSession(s, t)
          \/ CaptureReservationForSession(s)
          \/ ReleaseReservationForSession(s, t)
    \/ ReleaseExpiredReservations(t)
    \/ ExpireDueLots(t)

Next == Tick \/ \E t \in RecentClocks : LedgerStep(t)

Spec == Init /\ [][Next]_vars

-----------------------------------------------------------------------------
(* Safety.                                                                 *)

\* Every row has its type; in particular the wallet's two counters and the
\* ledger sum of each lot never go below zero (the header of the file and the
\* forward constraint of releaseReservationRow).
TypeOK == db \in Rows /\ clock \in Nat

\* The sessions a lot's counters stand for, and all live holds.
Reserved(d, l) ==
    {s \in Sessions : d.reservations[s].status = "held" /\ d.reservations[s].lot = l}

Captured(d, l) ==
    {s \in Sessions : d.reservations[s].status = "captured" /\ d.reservations[s].lot = l}

Held(d) == {s \in Sessions : d.reservations[s].status = "held"}

\* Every credit of a lot that left `available` is the credit of exactly one
\* session: `creditsReserved` counts the live holds on the lot,
\* `creditsConsumed` the interviews charged to it, and they never exceed what
\* the lot granted, whatever closed or reopened the lot meanwhile.
CountersMatch(d) ==
    \A l \in Lots :
        /\ d.lots[l].reserved = Cardinality(Reserved(d, l))
        /\ d.lots[l].consumed = Cardinality(Captured(d, l))
        /\ availableInLot(d.lots[l]) >= 0

CountersMatchSessions == CountersMatch(db)

\* The ledger entries of a lot sum to what is available in it while it is
\* open and to nothing once it is closed: no closing transition, and no hold
\* released after it, writes a credit off twice or mints one.
LotBalance(lot) ==
    IF lot.status \in {"active", "exhausted"} THEN availableInLot(lot) ELSE 0

LedgerMatches(d) == \A l \in Lots : d.ledger[l] = LotBalance(d.lots[l])

\* sum of delta = wallet.availableCredits, and the wallet's reserved counter is
\* the number of live holds.
WalletMatches(d) ==
    /\ d.wallet.available = Total(Lots, d.ledger)
    /\ d.wallet.reserved = Cardinality(Held(d))

\* `exhausted` says the lot was spent to its last credit: the comment of
\* revokeUnconsumedLot rests on it.
SpentWhenExhausted(d) ==
    \A l \in Lots :
        d.lots[l].status = "exhausted" => d.lots[l].consumed = d.lots[l].granted

\* The books balance: ledger, lots and wallet tell the same sums, however closings,
\* write-offs and late releases interleave, and `exhausted` means spent.
BooksBalance == LedgerMatches(db) /\ WalletMatches(db) /\ SpentWhenExhausted(db)

\* Once a wallet has a settlement currency every paid lot is in it, the ones
\* an older version granted included.
OneSettlementCurrency ==
    db.wallet.settlementCurrency # NoCurrency =>
        \A p \in PaidLots(db) : Currency[p] = db.wallet.settlementCurrency

\* A session is charged at most once and for good, and a payment is credited
\* at most once: a captured reservation never changes again, and a lot's grant
\* and expiry are never written a second time.
SettledForGood ==
    [][/\ \A s \in Sessions :
             db.reservations[s].status = "captured" =>
                 db'.reservations[s] = db.reservations[s]
       /\ \A l \in Lots :
             db.lots[l].status # "none" =>
                 /\ db'.lots[l].status # "none"
                 /\ db'.lots[l].granted = db.lots[l].granted
                 /\ db'.lots[l].expiresAt = db.lots[l].expiresAt
                 /\ db'.lots[l].consumed >= db.lots[l].consumed]_vars

\* A step that sweeps with the current clock leaves a wallet that
\* reconcileWallet finds consistent: the sweep itself, a new hold or a refusal,
\* a release whose lot was due, a dispute won after the lot's date.
SweepsLeaveAConsistentWallet ==
    [][(\/ ReleaseExpiredReservations(clock)
        \/ ExpireDueLots(clock)
        \/ \E s \in Sessions :
              ReserveCreditForSession(s, clock) \/ ReleaseReservationForSession(s, clock)
        \/ \E p \in Payments : ResolveDisputeOnLot(p, "won", clock))
       => Reconciles(db', clock)]_vars

-----------------------------------------------------------------------------
(* Liveness.  Time passes, and the hourly billing sweep runs the ledger's  *)
(* two sweeps with the clock it reads.                                     *)

Fairness == WF_vars(Tick) /\ WF_vars(ReleaseExpiredReservations(clock))

FairSpec == Spec /\ Fairness

\* No hold pins a credit for ever, also one whose lot was closed under it.
HoldsSettle ==
    \A s \in Sessions :
        db.reservations[s].status = "held" ~> db.reservations[s].status # "held"

\* No lot past its date stays open, also one with nothing left to write off.
DueLotsClose ==
    \A l \in Lots :
        db.lots[l].status = "active" /\ db.lots[l].expiresAt <= clock
            ~> db.lots[l].status # "active"

\* What the hourly sweep is for.
WhatIsDueIsDone == HoldsSettle /\ DueLotsClose

=============================================================================
