------------------------------ MODULE Purchases ------------------------------
(***************************************************************************)
(* Buying a pack of credits up to the payment: the price of the pack,      *)
(* which Stripe has and the CreditPack row repeats, and the Stripe         *)
(* customer of the organization (stripe-purchase.ts).  Prices are changed  *)
(* by a script an operator runs (sync-credit-packs.mjs).                   *)
(*                                                                         *)
(* Checkouts, runs of the script and Stripe meet between any two requests. *)
(* What is paid is compared later with the amount a session carries; a     *)
(* session whose amount is not its price's ends in a manual review.        *)
(***************************************************************************)
EXTENDS Naturals, FiniteSets, FiniteSetsExt

CONSTANTS
    Buyers,         \* checkouts of one organization that may overlap
    PriceRuns,      \* runs of the script that may overlap
    Amounts,        \* the amounts of a price, in both currencies
    MaxPrices,      \* bound on the prices made in Stripe
    MaxCheckouts,   \* bound on the checkouts begun
    MaxDeaths       \* bound on the requests and runs that end halfway

ASSUME PurchasesAssumption ==
    /\ MaxPrices \in Nat /\ MaxCheckouts \in Nat /\ MaxDeaths \in Nat

VARIABLES
    prices,         \* Stripe's prices of the pack, oldest first
    pack,           \* stripePriceId (0: none) and the amounts of the CreditPack row
    runs,           \* each run of the script
    customers,      \* customers made in Stripe
    keyed,          \* the customer the idempotency key stands for, 0 for none
    wallet,         \* the wallet's stripeCustomerId, 0 for none
    checkouts,      \* each buyer's checkout
    begun,          \* checkouts begun so far
    sold,           \* Checkout sessions made: price, amount carried, customer
    deaths

purchaseVars == <<prices, pack, runs, customers, keyed, wallet, checkouts, begun, sold, deaths>>

\* No price made yet.
NoAmount == "none"

Made == DOMAIN prices

ActivePrices == {p \in Made : prices[p].active}

NoRun == [at |-> "none", wants |-> NoAmount, old |-> {}, price |-> 0]

NoCheckout == [at |-> "none", price |-> 0, amount |-> NoAmount, customer |-> 0]

PurchasesInit ==
    /\ prices = <<>>
    /\ pack = [price |-> 0, amount |-> NoAmount]
    /\ runs = [r \in PriceRuns |-> NoRun]
    /\ customers = 0
    /\ keyed = 0
    /\ wallet = 0
    /\ checkouts = [b \in Buyers |-> NoCheckout]
    /\ begun = 0
    /\ sold = {}
    /\ deaths = 0

Dies == deaths < MaxDeaths /\ deaths' = deaths + 1

-----------------------------------------------------------------------------
(* The script                                                              *)

\* syncPack: the amounts it is given, or those it has of its own.
BeginRun(r) ==
    /\ runs[r] = NoRun
    /\ Cardinality(Made) < MaxPrices
    /\ \E a \in Amounts : runs' = [runs EXCEPT ![r] = [NoRun EXCEPT !.at = "list", !.wants = a]]
    /\ UNCHANGED <<prices, pack, customers, keyed, wallet, checkouts, begun, sold, deaths>>

\* listActivePrices, priceMatches: a price of these amounts is adopted.
ListPrices(r) ==
    LET matching == {p \in ActivePrices : prices[p].amount = runs[r].wants}
    IN  /\ runs[r].at = "list"
        /\ \/ \E p \in matching :
                 runs' = [runs EXCEPT ![r].at = "write", ![r].price = p]
           \/ /\ matching = {}
              /\ runs' = [runs EXCEPT ![r].at = IF ActivePrices = {} THEN "create" ELSE "deactivate",
                                      ![r].old = ActivePrices]
        /\ UNCHANGED <<prices, pack, customers, keyed, wallet, checkouts, begun, sold, deaths>>

\* The prices listed are deactivated one by one, before there is a new one.
DeactivatePrice(r) ==
    /\ runs[r].at = "deactivate"
    /\ \E p \in runs[r].old :
          /\ prices' = [prices EXCEPT ![p].active = FALSE]
          /\ runs' = [runs EXCEPT ![r].old = @ \ {p},
                                  ![r].at = IF runs[r].old = {p} THEN "create" ELSE @]
    /\ UNCHANGED <<pack, customers, keyed, wallet, checkouts, begun, sold, deaths>>

CreatePrice(r) ==
    LET p == Cardinality(Made) + 1
    IN  /\ runs[r].at = "create"
        /\ prices' = [q \in Made \cup {p} |-> IF q = p THEN [amount |-> runs[r].wants, active |-> TRUE]
                                              ELSE prices[q]]
        /\ runs' = [runs EXCEPT ![r].at = "write", ![r].price = p]
        /\ UNCHANGED <<pack, customers, keyed, wallet, checkouts, begun, sold, deaths>>

\* The row repeats what Stripe confirmed.
WritePack(r) ==
    /\ runs[r].at = "write"
    /\ pack' = [price |-> runs[r].price, amount |-> runs[r].wants]
    /\ runs' = [runs EXCEPT ![r] = NoRun]
    /\ UNCHANGED <<prices, customers, keyed, wallet, checkouts, begun, sold, deaths>>

RunDies(r) ==
    /\ runs[r] # NoRun
    /\ Dies
    /\ runs' = [runs EXCEPT ![r] = NoRun]
    /\ UNCHANGED <<prices, pack, customers, keyed, wallet, checkouts, begun, sold>>

-----------------------------------------------------------------------------
(* Checkout                                                                *)

\* createCreditCheckoutSession: a pack without a price cannot be bought.
ReadPack(b) ==
    /\ checkouts[b] = NoCheckout
    /\ begun < MaxCheckouts
    /\ begun' = begun + 1
    /\ pack.price # 0
    /\ checkouts' = [checkouts EXCEPT ![b] = [NoCheckout EXCEPT !.at = "price",
                        !.price = pack.price, !.amount = pack.amount]]
    /\ UNCHANGED <<prices, pack, runs, customers, keyed, wallet, sold, deaths>>

\* resolvePackPricing: the stored price, if it is still active.
RetrievePrice(b) ==
    /\ checkouts[b].at = "price"
    /\ checkouts' = [checkouts EXCEPT ![b].at =
                        IF prices[checkouts[b].price].active THEN "wallet" ELSE "list"]
    /\ UNCHANGED <<prices, pack, runs, customers, keyed, wallet, begun, sold, deaths>>

\* Mistake for the checks to catch: the id is corrected, the amount stays the
\* cached one.
Replacement_IdOnly(c, p) == [c EXCEPT !.at = "cache", !.price = p]

\* What the newest active price makes of a checkout.
Replacement(c, p) == [c EXCEPT !.at = "cache", !.price = p, !.amount = prices[p].amount]

\* Without an active price the pack is not purchasable.
ListReplacement(b) ==
    /\ checkouts[b].at = "list"
    /\ checkouts' = [checkouts EXCEPT ![b] =
                        IF ActivePrices = {} THEN NoCheckout
                        ELSE Replacement(checkouts[b], Max(ActivePrices))]
    /\ UNCHANGED <<prices, pack, runs, customers, keyed, wallet, begun, sold, deaths>>

\* The row follows: the id and the amounts.
CacheReplacement(b) ==
    /\ checkouts[b].at = "cache"
    /\ pack' = [price |-> checkouts[b].price, amount |-> checkouts[b].amount]
    /\ checkouts' = [checkouts EXCEPT ![b].at = "wallet"]
    /\ UNCHANGED <<prices, runs, customers, keyed, wallet, begun, sold, deaths>>

\* ensureStripeCustomer
ReadWallet(b) ==
    /\ checkouts[b].at = "wallet"
    /\ checkouts' = [checkouts EXCEPT ![b].at = IF wallet # 0 THEN "session" ELSE "mint",
                                      ![b].customer = wallet]
    /\ UNCHANGED <<prices, pack, runs, customers, keyed, wallet, begun, sold, deaths>>

\* The key of the organization gives back the customer it has made already.
MintCustomer(b) ==
    /\ checkouts[b].at = "mint"
    /\ customers' = IF keyed = 0 THEN customers + 1 ELSE customers
    /\ keyed' = IF keyed = 0 THEN customers + 1 ELSE keyed
    /\ checkouts' = [checkouts EXCEPT ![b].at = "bind", ![b].customer = keyed']
    /\ UNCHANGED <<prices, pack, runs, wallet, begun, sold, deaths>>

BindCustomer(b) ==
    /\ checkouts[b].at = "bind"
    /\ wallet' = checkouts[b].customer
    /\ checkouts' = [checkouts EXCEPT ![b].at = "session"]
    /\ UNCHANGED <<prices, pack, runs, customers, keyed, begun, sold, deaths>>

\* Stripe makes no session for a price that is not active any more.
CreateSession(b) ==
    LET c == checkouts[b]
    IN  /\ c.at = "session"
        /\ sold' = IF prices[c.price].active
                   THEN sold \cup {[price |-> c.price, amount |-> c.amount, customer |-> c.customer]}
                   ELSE sold
        /\ checkouts' = [checkouts EXCEPT ![b] = NoCheckout]
        /\ UNCHANGED <<prices, pack, runs, customers, keyed, wallet, begun, deaths>>

\* A request fails or its process ends, at any step.
CheckoutDies(b) ==
    /\ checkouts[b] # NoCheckout
    /\ Dies
    /\ checkouts' = [checkouts EXCEPT ![b] = NoCheckout]
    /\ UNCHANGED <<prices, pack, runs, customers, keyed, wallet, begun, sold>>

\* Stripe forgets a key after a day, which no checkout lasts.
ForgetKey ==
    /\ keyed # 0
    /\ \A b \in Buyers : checkouts[b].at \notin {"mint", "bind"}
    /\ keyed' = 0
    /\ UNCHANGED <<prices, pack, runs, customers, wallet, checkouts, begun, sold, deaths>>

-----------------------------------------------------------------------------
PurchasesNext ==
    \/ \E r \in PriceRuns :
          BeginRun(r) \/ ListPrices(r) \/ DeactivatePrice(r) \/ CreatePrice(r) \/ WritePack(r)
             \/ RunDies(r)
    \/ \E b \in Buyers :
          ReadPack(b) \/ RetrievePrice(b) \/ ListReplacement(b) \/ CacheReplacement(b)
             \/ ReadWallet(b) \/ MintCustomer(b) \/ BindCustomer(b) \/ CreateSession(b)
             \/ CheckoutDies(b)
    \/ ForgetKey

PurchasesSpec == PurchasesInit /\ [][PurchasesNext]_purchaseVars

-----------------------------------------------------------------------------
(* Properties                                                              *)

PurchasesTypeOK ==
    /\ \A p \in Made : prices[p] \in [amount : Amounts, active : BOOLEAN]
    /\ pack.price \in Made \cup {0}
    /\ \A r \in PriceRuns :
          /\ runs[r].at \in {"none", "list", "deactivate", "create", "write"}
          /\ runs[r].old \subseteq Made
    /\ keyed \in 0..customers /\ wallet \in 0..customers
    /\ \A b \in Buyers :
          /\ checkouts[b].at \in {"none", "price", "list", "cache", "wallet", "mint", "bind", "session"}
          /\ checkouts[b].price \in Made \cup {0}
    /\ begun \in 0..MaxCheckouts
    /\ deaths \in 0..MaxDeaths

\* What a session says was to be paid is what its price asks for, whatever
\* rotation it met: no payment is taken for a divergence that is none.
AmountIsThePrice == \A s \in sold : s.amount = prices[s.price].amount

\* All that an organization buys is of one customer, the wallet's.
OneCustomer == \A s \in sold : s.customer = wallet

\* However runs of the script overlap, none of them leaves the pack without a
\* price once all have ended by themselves.
PackStaysPurchasable ==
    (\A r \in PriceRuns : runs[r] = NoRun) /\ deaths = 0 /\ Made # {} => ActivePrices # {}

PurchasesInv ==
    PurchasesTypeOK /\ AmountIsThePrice /\ OneCustomer /\ PackStaysPurchasable
=============================================================================
