------------------------- MODULE NotificationDelivery -------------------------
(***************************************************************************)
(* The delivery of one notice to one recipient: a row found by its dedupe  *)
(* key, claimed, sent through the mail provider and settled                *)
(* (notification-service.ts).                                              *)
(*                                                                         *)
(* Whatever triggers the notice (an interview completed, a brief written   *)
(* or failed, a lot frozen) does so again when it is retried or            *)
(* redelivered, from any process.                                          *)
(***************************************************************************)
EXTENDS Naturals

CONSTANTS
    Dispatchers,        \* calls of dispatchDelivery under way
    StaleClaim,         \* staleClaimMs
    RetryWindow,        \* retryWindowMs
    DispatchLife,       \* how long the platform lets a dispatch run
    NoticeHorizon,      \* bound on the clock
    MaxAttempts         \* bound on the attempts

\* A function instance is ended by the platform long before a claim counts as stale: the
\* code sets no time limit of its own on the provider.
ASSUME NoticeAssumption ==
    /\ StaleClaim \in Nat \ {0} /\ RetryWindow \in Nat /\ NoticeHorizon \in Nat
    /\ MaxAttempts \in Nat
    /\ DispatchLife \in Nat /\ DispatchLife <= StaleClaim

VARIABLES
    delivery,           \* the row of NotificationDelivery
    attempts,           \* the attemptNumbers of its NotificationAttempt rows
    dispatchers,
    noticeClock

noticeVars == <<delivery, attempts, dispatchers, noticeClock>>

Delivery == [status : {"none", "pending", "sending", "sent", "skipped", "failed"},
             attemptedAt : Nat, attemptCount : Nat]

Dispatcher == [at : {"idle", "claim", "number", "send", "sent", "skipped", "failed"},
               started : Nat, number : Nat]
AtRest == [at |-> "idle", started |-> 0, number |-> 0]

NoticeInit ==
    /\ delivery = [status |-> "none", attemptedAt |-> 0, attemptCount |-> 0]
    /\ attempts = {}
    /\ dispatchers = [p \in Dispatchers |-> AtRest]
    /\ noticeClock = 0

Advance(p, place) == dispatchers' = [dispatchers EXCEPT ![p].at = place]

Rest(p) == dispatchers' = [dispatchers EXCEPT ![p] = AtRest]

\* A failure is tried again for a time, counted from the last attempt.
GivenUp(row, t) == row.status = "failed" /\ t > row.attemptedAt + RetryWindow

\* The upsert makes the row or returns it; the clock was read just before.
Dispatch(p) ==
    LET row == IF delivery.status = "none" THEN [delivery EXCEPT !.status = "pending"] ELSE delivery
    IN  /\ dispatchers[p] = AtRest
        /\ delivery' = row
        /\ IF row.status \in {"sent", "skipped"} \/ GivenUp(row, noticeClock)
           THEN UNCHANGED dispatchers
           ELSE dispatchers' = [dispatchers EXCEPT ![p] =
                   [at |-> "claim", started |-> noticeClock, number |-> 0]]
        /\ UNCHANGED <<attempts, noticeClock>>

\* Mistake for the checks to catch: any claim may be taken over.
Claimable_Fresh(row, t) == row.status \in {"pending", "failed", "sending"}

\* The condition of the claim, looked at again with the row locked.
Claimable(row, t) ==
    \/ row.status \in {"pending", "failed"}
    \/ row.status = "sending" /\ t > row.attemptedAt + StaleClaim

Claim(p) ==
    LET d == dispatchers[p]
    IN  /\ d.at = "claim"
        /\ IF Claimable(delivery, d.started)
           THEN /\ delivery.attemptCount < MaxAttempts
                /\ delivery' = [status |-> "sending", attemptedAt |-> d.started,
                                attemptCount |-> delivery.attemptCount + 1]
                /\ Advance(p, "number")
           ELSE Rest(p) /\ UNCHANGED delivery
        /\ UNCHANGED <<attempts, noticeClock>>

\* The number of the attempt is read back from the row; a preference or a missing
\* consent then skips the notice.
ReadNumber(p) ==
    /\ dispatchers[p].at = "number"
    /\ \E next \in {"send", "skipped"} :
          dispatchers' = [dispatchers EXCEPT ![p].number = delivery.attemptCount, ![p].at = next]
    /\ UNCHANGED <<delivery, attempts, noticeClock>>

\* The provider takes the notice, is switched off, or fails (or is not heard).
Send(p) ==
    /\ dispatchers[p].at = "send"
    /\ \E answer \in {"sent", "skipped", "failed"} : Advance(p, answer)
    /\ UNCHANGED <<delivery, attempts, noticeClock>>

\* The row is settled by its id, and the attempt recorded with it under its number. A
\* number taken makes both fail, and the failure's own record after them.
Settle(p) ==
    LET d == dispatchers[p]
    IN  /\ d.at \in {"sent", "skipped", "failed"}
        /\ IF d.number \in attempts THEN UNCHANGED <<delivery, attempts>>
           ELSE /\ delivery' = [delivery EXCEPT !.status = d.at]
                /\ attempts' = attempts \cup {d.number}
        /\ Rest(p)
        /\ UNCHANGED noticeClock

Vanish(p) ==
    /\ dispatchers[p] # AtRest
    /\ Rest(p)
    /\ UNCHANGED <<delivery, attempts, noticeClock>>

\* Nothing outlives the time the platform gives it.
PassTime ==
    /\ noticeClock < NoticeHorizon
    /\ \A p \in Dispatchers :
          dispatchers[p] # AtRest => noticeClock < dispatchers[p].started + DispatchLife
    /\ noticeClock' = noticeClock + 1
    /\ UNCHANGED <<delivery, attempts, dispatchers>>

NoticeNext ==
    \/ \E p \in Dispatchers :
          Dispatch(p) \/ Claim(p) \/ ReadNumber(p) \/ Send(p) \/ Settle(p) \/ Vanish(p)
    \/ PassTime

NoticeSpec == NoticeInit /\ [][NoticeNext]_noticeVars

-----------------------------------------------------------------------------
NoticeTypeOK ==
    /\ delivery \in Delivery
    /\ attempts \subseteq Nat
    /\ dispatchers \in [Dispatchers -> Dispatcher]
    /\ noticeClock \in 0..NoticeHorizon

Claimants == {p \in Dispatchers : dispatchers[p].at \notin {"idle", "claim"}}

\* However many triggers a notice has, and whenever a process dies, one dispatcher at
\* most has it in hand, on a row that says so: none is on its way once the row reads
\* sent or skipped, and no two attempts have the same number.
OneSenderAtATime ==
    /\ \A p, q \in Claimants : p = q
    /\ Claimants # {} => delivery.status = "sending" /\ delivery.attemptCount \notin attempts
\* One sender at a time, and rows of their types.
NoticeInv == NoticeTypeOK /\ OneSenderAtATime
=============================================================================
