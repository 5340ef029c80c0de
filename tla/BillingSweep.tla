----------------------------- MODULE BillingSweep -----------------------------
(***************************************************************************)
(* The scheduled billing sweep (the route and the workflow that calls it). *)
(*                                                                         *)
(* A call takes a database lock, runs two account-wide passes when it has  *)
(* no cursor, then releases holds and expires lots wallet by wallet until  *)
(* its page or its time is over, and answers where to go on.  The job of   *)
(* an hour follows that cursor; an operator may call at any time.  The     *)
(* lock dies with its transaction, the work of the call does not.  Time is *)
(* counted in the running time of a call.                                  *)
(***************************************************************************)
EXTENDS Naturals, FiniteSets

CONSTANTS
    LastWallet,         \* wallets are read in the order of their organizations
    FailingWallets,     \* wallets whose maintenance always throws
    LastEvent,          \* undelivered checkouts, in the order Stripe lists them
    PageLimit,          \* limit, 200 by default
    MaxPages,           \* MAX_PAGES, 20
    EntryBudget,        \* ENTRY_PASS_TIME_BUDGET_MS
    SweepBudget,        \* SWEEP_TIME_BUDGET_MS
    LockTimeout,        \* LOCK_TRANSACTION_TIMEOUT_MS
    OperationTime,      \* the longest a single operation takes
    MaxCrashes,         \* calls that fail on the way
    MaxManual,          \* calls of an operator
    MaxDeletions        \* wallets deleted

\* The ordering of the timeouts the route demands: the margin is there for the one
\* operation in flight when a budget trips.
ASSUME SweepAssumption ==
    /\ LastWallet \in Nat /\ FailingWallets \subseteq 1 .. LastWallet
    /\ LastEvent \in Nat
    /\ PageLimit \in Nat \ {0} /\ MaxPages \in Nat \ {0}
    /\ OperationTime \in Nat \ {0}
    /\ EntryBudget \in Nat /\ SweepBudget \in Nat /\ LockTimeout \in Nat
    /\ EntryBudget < SweepBudget
    /\ SweepBudget + 2 * OperationTime < LockTimeout
    /\ MaxCrashes \in Nat /\ MaxManual \in Nat /\ MaxDeletions \in Nat

VARIABLES
    calls,              \* a call of the job's, a call of the operator's
    wallets,            \* the wallets there are
    due,                \* those with a hold or a lot past its date
    fulfilled,          \* undelivered checkouts that were fulfilled
    crashes,
    manual              \* calls the operator has made

sweepVars == <<calls, wallets, due, fulfilled, crashes, manual>>

Wallets == 1 .. LastWallet

Callers == {"job", "operator"}

\* `cursor`: 0 before the first wallet; `rows`: what is left of the page, `more`
\* whether another follows it; `tried`: a wallet of the page was attempted.
Idle == [at |-> "idle", cursor |-> 0, page |-> 0, spent |-> 0, scanned |-> 0,
         rows |-> {}, more |-> FALSE, tried |-> FALSE]

SweepInit ==
    /\ calls = [c \in Callers |-> Idle]
    /\ wallets = Wallets
    /\ due = {}
    /\ fulfilled = {}
    /\ crashes = 0
    /\ manual = 0

Set(c, call) == calls' = [calls EXCEPT ![c] = call]

Working(c) == calls[c].at \in {"archive", "events", "list", "loop"}

\* withSweepLock: the lock is held as long as the call works, and no longer than its
\* transaction may last.
Locked == \E c \in Callers : Working(c) /\ calls[c].spent <= LockTimeout

-----------------------------------------------------------------------------
\* The hour strikes, or an operator calls, from the top or from a cursor.
Begin(c) ==
    /\ calls[c].at = "idle"
    /\ c = "operator" => manual < MaxManual
    /\ manual' = IF c = "operator" THEN manual + 1 ELSE manual
    /\ \E cursor \in IF c = "job" THEN {0} ELSE {0, LastWallet} :
           Set(c, [Idle EXCEPT !.at = "call", !.cursor = cursor, !.page = 1])
    /\ UNCHANGED <<wallets, due, fulfilled, crashes>>

\* POST: a call that finds the lock taken answers that it skipped, and the job ends.
Enter(c) ==
    /\ calls[c].at = "call"
    /\ IF Locked THEN Set(c, Idle)
       ELSE Set(c, [calls[c] EXCEPT !.spent = 0, !.scanned = 0, !.tried = FALSE,
                                    !.at = IF calls[c].cursor = 0 THEN "archive" ELSE "list"])
    /\ UNCHANGED <<wallets, due, fulfilled, crashes, manual>>

\* The archived events of a type now subscribed to are handled again: one call.
ReprocessArchive(c) ==
    /\ calls[c].at = "archive"
    /\ \E time \in 1 .. OperationTime :
           Set(c, [calls[c] EXCEPT !.at = "events", !.spent = @ + time])
    /\ UNCHANGED <<wallets, due, fulfilled, crashes, manual>>

\* recoverMissedCheckoutEvents: the listing is read from its top, and what was
\* fulfilled stays on it.
RecoverEvent(c) ==
    /\ calls[c].at = "events"
    /\ calls[c].scanned < LastEvent
    /\ calls[c].spent < EntryBudget
    /\ fulfilled' = fulfilled \cup {calls[c].scanned + 1}
    /\ \E time \in 1 .. OperationTime :
           Set(c, [calls[c] EXCEPT !.scanned = @ + 1, !.spent = @ + time])
    /\ UNCHANGED <<wallets, due, crashes, manual>>

\* The listing is through, or the pass yields to its budget.
EventsDone(c) ==
    /\ calls[c].at = "events"
    /\ calls[c].scanned = LastEvent \/ calls[c].spent >= EntryBudget
    /\ Set(c, [calls[c] EXCEPT !.at = "list"])
    /\ UNCHANGED <<wallets, due, fulfilled, crashes, manual>>

\* The wallets after the cursor; a cursor whose wallet was deleted finds none.
After(cursor) ==
    IF cursor \in wallets \cup {0} THEN {w \in wallets : w > cursor} ELSE {}

PageOf(rows) == {w \in rows : Cardinality({v \in rows : v < w}) < PageLimit}

ReadPage(c) ==
    /\ calls[c].at = "list"
    /\ LET rows == After(calls[c].cursor)
       IN  Set(c, [calls[c] EXCEPT !.at = "loop", !.rows = PageOf(rows),
                                   !.more = PageOf(rows) # rows])
    /\ UNCHANGED <<wallets, due, fulfilled, crashes, manual>>

\* Mistakes for the checks to catch: the time is never looked at; it is looked at
\* before the first wallet as well.
InTime_Always(call) == TRUE
InTime_FromTheFirst(call) == call.spent <= SweepBudget

\* Forward progress: the first wallet of a page is attempted whatever the time.
InTime(call) == ~call.tried \/ call.spent <= SweepBudget

\* releaseExpiredReservations, expireDueLots and reconcileWallet: a wallet that
\* throws, or is gone by now, is counted and passed.
SweepWallet(c) ==
    /\ calls[c].at = "loop"
    /\ InTime(calls[c])
    /\ \E w \in calls[c].rows :
           /\ \A v \in calls[c].rows : w <= v
           /\ due' = IF w \in FailingWallets THEN due ELSE due \ {w}
           /\ \E time \in 1 .. OperationTime :
                  Set(c, [calls[c] EXCEPT !.rows = @ \ {w}, !.cursor = w, !.tried = TRUE,
                                          !.spent = @ + time])
    /\ UNCHANGED <<wallets, fulfilled, crashes, manual>>

\* The page or the time is over; the job goes on from the cursor, as far as it may.
Answer(c) ==
    /\ calls[c].at = "loop"
    /\ calls[c].rows = {} \/ ~InTime(calls[c])
    /\ LET hasMore == calls[c].rows # {} \/ calls[c].more
       IN  Set(c, IF c = "job" /\ hasMore /\ calls[c].page < MaxPages
                  THEN [Idle EXCEPT !.at = "call", !.cursor = calls[c].cursor, !.page = calls[c].page + 1]
                  ELSE Idle)
    /\ UNCHANGED <<wallets, due, fulfilled, crashes, manual>>

\* The call dies, and its transaction with it: the job ends.
Crash(c) ==
    /\ calls[c].at # "idle"
    /\ crashes < MaxCrashes
    /\ Set(c, Idle)
    /\ crashes' = crashes + 1
    /\ UNCHANGED <<wallets, due, fulfilled, manual>>

GetsDue ==
    /\ \E w \in wallets : due' = due \cup {w}
    /\ UNCHANGED <<calls, wallets, fulfilled, crashes, manual>>

\* An organization goes, and its wallet with it.
Deletes ==
    /\ Cardinality(Wallets \ wallets) < MaxDeletions
    /\ \E w \in wallets : wallets' = wallets \ {w} /\ due' = due \ {w}
    /\ UNCHANGED <<calls, fulfilled, crashes, manual>>

Serves(c) ==
    \/ Enter(c) \/ ReprocessArchive(c) \/ RecoverEvent(c) \/ EventsDone(c)
    \/ ReadPage(c) \/ SweepWallet(c) \/ Answer(c)

SweepNext ==
    \/ \E c \in Callers : Begin(c) \/ Serves(c) \/ Crash(c)
    \/ GetsDue
    \/ Deletes

\* The hour strikes again and again, and a call that was made is served.
SweepFairness ==
    /\ WF_sweepVars(Begin("job"))
    /\ \A c \in Callers : WF_sweepVars(Serves(c))

SweepSpec == SweepInit /\ [][SweepNext]_sweepVars /\ SweepFairness

-----------------------------------------------------------------------------
CallRow ==
    [at : {"idle", "call", "archive", "events", "list", "loop"}, cursor : 0 .. LastWallet,
     page : 0 .. MaxPages, spent : Nat, scanned : 0 .. LastEvent,
     rows : SUBSET Wallets, more : BOOLEAN, tried : BOOLEAN]

SweepTypeOK ==
    /\ calls \in [Callers -> CallRow]
    /\ wallets \subseteq Wallets
    /\ due \subseteq Wallets
    /\ fulfilled \subseteq 1 .. LastEvent
    /\ crashes \in 0 .. MaxCrashes
    /\ manual \in 0 .. MaxManual

\* Two sweeps never work at the same time, although the lock goes with its
\* transaction and the work does not: a call is over before its lock times out
\* (the route's ordering of its timeouts, and the check between two wallets).
SweepsDoNotOverlap == \A c, d \in Callers : Working(c) /\ Working(d) => c = d

\* A wallet with something past its date is swept, however slow the passes before
\* it, whichever wallets throw before it, and although pages are cut by the time, calls
\* die and the wallet under a cursor goes (runSweep and the job's loop; as long as
\* MaxPages covers the wallets one by one).
EveryWalletIsSwept ==
    \A w \in 1 .. LastWallet : w \in due \ FailingWallets ~> w \notin due
=============================================================================
