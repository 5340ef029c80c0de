------------------------------- MODULE PlanSync -------------------------------
(***************************************************************************)
(* The plan of a workspace (packages/billing/src/server.ts and             *)
(* billing-policy.ts).  Clerk has its subscription, a paid item over       *)
(* periods and a free default; every change has a later `updatedAt`, which *)
(* is its number here, and is reported by a webhook.  The console decides  *)
(* from a projection, normalised when it was fetched and read again later. *)
(*                                                                         *)
(* Webhooks come in any order and again; several syncs may be under way,   *)
(* and each of their statements is a step, for none of them is in a        *)
(* transaction.                                                            *)
(***************************************************************************)
EXTENDS Naturals

CONSTANTS
    Syncs,          \* syncs that may be under way at a time
    MaxChanges,     \* bound on the changes of the subscription
    Period,         \* length of a paid period
    MaxAge,         \* projectionMaxAgeMs
    PlanHorizon     \* bound on the clock

ASSUME PlanSyncAssumption ==
    /\ MaxChanges \in Nat /\ MaxAge \in Nat /\ PlanHorizon \in Nat
    /\ Period \in Nat \ {0}

VARIABLES
    now,
    sub,            \* the subscription in Clerk
    updatedAt,      \* the number of its last change
    answered,       \* changes whose webhook has been answered 200
    provisioned,    \* whether the organization's row exists
    projection,     \* the OrganizationBillingState row
    syncs           \* each sync

planVars == <<now, sub, updatedAt, answered, provisioned, projection, syncs>>

\* The paid item: its status and its period.
Subscription ==
    [paid : {"none", "active", "past_due", "canceled", "upcoming", "ended"},
     start : Nat, end : Nat]

NoPaidItem == [paid |-> "none", start |-> 0, end |-> 0]

\* What is kept of a subscription: whether the paid item was selected, the
\* state, the end of the period, and whose change it was and when written.
ProjectionOf(paid, state, end, at) ==
    [exists |-> TRUE, paid |-> paid, state |-> state, end |-> end, of |-> at, written |-> now]

NoProjection == [exists |-> FALSE, paid |-> FALSE, state |-> "unavailable", end |-> 0, of |-> 0,
          written |-> 0]

NoSync == [at |-> "none", event |-> 0, copy |-> NoProjection]

PlanInit ==
    /\ now = 0
    /\ sub = NoPaidItem
    /\ updatedAt = 0
    /\ answered = {}
    /\ provisioned = FALSE
    /\ projection = NoProjection
    /\ syncs = [s \in Syncs |-> NoSync]

-----------------------------------------------------------------------------
(* The policy                                                              *)

\* itemCanRemainEffective
Effective(s, t) ==
    \/ s.paid \in {"active", "past_due"}
    \/ s.paid = "upcoming" /\ s.start <= t
    \/ s.paid = "canceled" /\ s.end > t

\* normalizeBillingSubscription: the paid item while it can be in effect, else
\* the default one, which is free.
NormalizedBilling(s, t, at) ==
    IF Effective(s, t)
    THEN ProjectionOf(TRUE, CASE s.paid = "past_due" -> "past_due"
                     [] s.paid = "canceled" -> "canceled"
                     [] OTHER -> "active", s.end, at)
    ELSE ProjectionOf(FALSE, "free", 0, at)

\* What Clerk's subscription entitles to at t: the plan of a state with access.
Entitled(s, t) ==
    IF ~Effective(s, t) THEN "free" ELSE IF s.paid = "past_due" THEN "nothing" ELSE "v1"

\* billingFromProjection: what the row entitles to at t.
Granted(p, t) ==
    IF ~p.exists \/ p.state = "past_due" THEN "nothing"
    ELSE IF p.state = "canceled" /\ p.end <= t THEN "free"
    ELSE IF ~p.paid THEN "free"
    ELSE IF p.end <= t \/ t - p.written > MaxAge THEN "nothing" ELSE "v1"

-----------------------------------------------------------------------------
(* Clerk, and the clock                                                    *)

PlanTick ==
    /\ now < PlanHorizon
    /\ now' = now + 1
    /\ UNCHANGED <<sub, updatedAt, answered, provisioned, projection, syncs>>

\* What the subscription may become: bought, for now or for the next period,
\* renewed, past due, canceled for the end of its period, or ended.
Becomes(s, t) ==
    {[paid |-> "active", start |-> t, end |-> t + Period],
     [paid |-> "upcoming", start |-> t + 1, end |-> t + 1 + Period]}
    \cup (IF s.paid \in {"active", "past_due", "canceled"}
          THEN {[s EXCEPT !.paid = status] : status \in {"past_due", "ended"}}
               \cup (IF s.end > t THEN {[s EXCEPT !.paid = "canceled"]} ELSE {})
          ELSE {})

ChangeSubscription ==
    /\ updatedAt < MaxChanges
    /\ \E s \in Becomes(sub, now) \ {sub} : sub' = s
    /\ updatedAt' = updatedAt + 1
    /\ UNCHANGED <<now, answered, provisioned, projection, syncs>>

\* The onboarding makes the organization's row.
ProvisionOrganization ==
    /\ ~provisioned
    /\ provisioned' = TRUE
    /\ UNCHANGED <<now, sub, updatedAt, answered, projection, syncs>>

-----------------------------------------------------------------------------
(* Syncs                                                                   *)

SyncGoes(s, sync) == syncs' = [syncs EXCEPT ![s] = sync]

\* A webhook, the first time or again.  Without the organization's row its
\* answer is 409; a change the row has already needs no fetch.
BeginWebhook(s) ==
    /\ syncs[s] = NoSync
    /\ provisioned
    /\ \E e \in 1..updatedAt :
          IF projection.exists /\ projection.of >= e
          THEN answered' = answered \cup {e} /\ UNCHANGED syncs
          ELSE /\ SyncGoes(s, [NoSync EXCEPT !.at = "fetch", !.event = e])
               /\ UNCHANGED answered
    /\ UNCHANGED <<now, sub, updatedAt, provisioned, projection>>

\* completeOrganizationOnboarding, and the settings page of a workspace whose
\* plan is unavailable: whatever is newest is fetched.
BeginRefresh(s) ==
    /\ syncs[s] = NoSync
    /\ provisioned
    /\ SyncGoes(s, [NoSync EXCEPT !.at = "fetch"])
    /\ UNCHANGED <<now, sub, updatedAt, answered, provisioned, projection>>

\* initializeFreeWorkspaceBilling: older than any change of Clerk's.
BeginFree(s) ==
    /\ syncs[s] = NoSync
    /\ provisioned
    /\ SyncGoes(s, [NoSync EXCEPT !.at = "update", !.copy = ProjectionOf(FALSE, "free", 0, 0)])
    /\ UNCHANGED <<now, sub, updatedAt, answered, provisioned, projection>>

FetchSubscription(s) ==
    /\ syncs[s].at = "fetch"
    /\ SyncGoes(s, [syncs[s] EXCEPT !.at = "update", !.copy = NormalizedBilling(sub, now, updatedAt)])
    /\ UNCHANGED <<now, sub, updatedAt, answered, provisioned, projection>>

\* The row that is written; syncedAt is the time of the write.
Rewritten(copy) == [copy EXCEPT !.written = now]

\* The webhook is answered, whether the row was written or is newer.
Answered(s) == IF syncs[s].event = 0 THEN answered ELSE answered \cup {syncs[s].event}

\* Mistake for the checks to catch: the row is written whatever it has.
NotNewer_Always(p, copy) == TRUE

\* sourceUpdatedAt: { lte }
NotNewer(p, copy) == p.of <= copy.of

\* upsertBillingProjectionIfNewer: the first statement.
UpdateProjection(s) ==
    LET copy == syncs[s].copy
    IN  /\ syncs[s].at = "update"
        /\ IF projection.exists /\ NotNewer(projection, copy)
           THEN projection' = Rewritten(copy) /\ SyncGoes(s, NoSync) /\ answered' = Answered(s)
           ELSE SyncGoes(s, [syncs[s] EXCEPT !.at = "create"]) /\ UNCHANGED <<projection, answered>>
        /\ UNCHANGED <<now, sub, updatedAt, provisioned>>

CreateProjection(s) ==
    /\ syncs[s].at = "create"
    /\ IF projection.exists
       THEN SyncGoes(s, [syncs[s] EXCEPT !.at = "again"]) /\ UNCHANGED <<projection, answered>>
       ELSE projection' = Rewritten(syncs[s].copy) /\ SyncGoes(s, NoSync) /\ answered' = Answered(s)
    /\ UNCHANGED <<now, sub, updatedAt, provisioned>>

\* Somebody else's row is there: it is updated after all, unless it is newer.
UpdateAfterAll(s) ==
    /\ syncs[s].at = "again"
    /\ projection' = IF NotNewer(projection, syncs[s].copy) THEN Rewritten(syncs[s].copy)
                     ELSE projection
    /\ SyncGoes(s, NoSync)
    /\ answered' = Answered(s)
    /\ UNCHANGED <<now, sub, updatedAt, provisioned>>

\* Clerk or the database fails, or the process ends; a webhook comes again.
SyncFails(s) ==
    /\ syncs[s] # NoSync
    /\ SyncGoes(s, NoSync)
    /\ UNCHANGED <<now, sub, updatedAt, answered, provisioned, projection>>

-----------------------------------------------------------------------------
PlanNext ==
    \/ PlanTick \/ ChangeSubscription \/ ProvisionOrganization
    \/ \E s \in Syncs :
          BeginWebhook(s) \/ BeginRefresh(s) \/ BeginFree(s) \/ FetchSubscription(s)
             \/ UpdateProjection(s) \/ CreateProjection(s) \/ UpdateAfterAll(s) \/ SyncFails(s)

PlanSpec == PlanInit /\ [][PlanNext]_planVars

-----------------------------------------------------------------------------
(* Properties                                                              *)

ProjectionRow ==
    [exists : BOOLEAN, paid : BOOLEAN,
     state : {"active", "canceled", "past_due", "free", "unavailable"},
     end : Nat, of : 0..MaxChanges, written : 0..PlanHorizon]

PlanTypeOK ==
    /\ now \in 0..PlanHorizon
    /\ sub \in Subscription
    /\ updatedAt \in 0..MaxChanges
    /\ answered \subseteq 1..updatedAt
    /\ provisioned \in BOOLEAN
    /\ projection \in ProjectionRow
    /\ syncs \in [Syncs -> [at : {"none", "fetch", "update", "create", "again"},
                            event : 0..MaxChanges, copy : ProjectionRow]]

\* Once every webhook has had its answer the row is of the last change, in
\* whatever order they came and however the statements of their syncs mixed.
AnsweredIsProjected ==
    answered = 1..updatedAt /\ updatedAt > 0 => projection.exists /\ projection.of = updatedAt

\* A row of the last change never grants more than Clerk's subscription would
\* now, although it was normalised at another time than it is read.
GrantsNoMore ==
    projection.exists /\ projection.of = updatedAt =>
       /\ Granted(projection, now) = "v1" => Entitled(sub, now) = "v1"
       /\ Granted(projection, now) = "free" => Entitled(sub, now) # "nothing"

PlanInv == PlanTypeOK /\ AnsweredIsProjected /\ GrantsNoMore
=============================================================================
