------------------------------ MODULE DemoLeads ------------------------------
(***************************************************************************)
(* The e-mail address a visitor of the demo leaves, its consent, and what  *)
(* the mailing provider is told of it (marketing-demo-leads.ts).           *)
(*                                                                         *)
(* Asking and withdrawing are one transaction each, and put an event in    *)
(* the outbox.  Runs of the operations deliver them without a transaction: *)
(* an event is found together with its lead, claimed by a conditional      *)
(* update, sent, and its answer written.  A claim lapses five minutes      *)
(* after its run began, and a request has no limit of its own: another run *)
(* may claim the event while it is being sent.                             *)
(***************************************************************************)
EXTENDS Naturals, Sequences

CONSTANTS
    LeadRuns,       \* runs of the operations that may overlap
    MaxLeadEvents,  \* bound on the events of the lead
    MaxFailures     \* bound on the requests that fail and the runs that die

ASSUME LeadsAssumption == MaxLeadEvents \in Nat /\ MaxFailures \in Nat

VARIABLES
    lead,           \* the MarketingDemoLead row
    outbox,         \* its MarketingDemoLeadOutbox rows, in the order of their making
    leadRuns,       \* each run: where it is, its event, and the lead it has read
    told,           \* events the provider has accepted
    heard,          \* whether one of them said that there is consent
    mishaps

leadVars == <<lead, outbox, leadRuns, told, heard, mishaps>>

NoLead == [exists |-> FALSE, consent |-> FALSE, withdrawn |-> FALSE]

NoLeadRun == [at |-> "none", event |-> 0, copy |-> NoLead, ok |-> FALSE]

LeadsInit ==
    /\ lead = NoLead
    /\ outbox = <<>>
    /\ leadRuns = [r \in LeadRuns |-> NoLeadRun]
    /\ told = {}
    /\ heard = FALSE
    /\ mishaps = 0

LeadEvents == DOMAIN outbox

NewEvent(kind) == [kind |-> kind, status |-> "pending"]

Unsettled(e) == outbox[e].status \in {"pending", "processing"}

Mishap == mishaps < MaxFailures /\ mishaps' = mishaps + 1

-----------------------------------------------------------------------------
(* Visitors                                                                *)

\* captureMarketingDemoLead: the one-time token is consumed in the transaction.
\* Asking again without consent leaves the consent there is.
Capture ==
    /\ Len(outbox) < MaxLeadEvents
    /\ \E consents \in BOOLEAN :
          /\ lead' = IF consents THEN [exists |-> TRUE, consent |-> TRUE, withdrawn |-> FALSE]
                     ELSE [lead EXCEPT !.exists = TRUE]
          /\ outbox' = outbox \o <<NewEvent("setup_requested")>>
                         \o (IF consents THEN <<NewEvent("consent_granted")>> ELSE <<>>)
    /\ UNCHANGED <<leadRuns, told, heard, mishaps>>

\* Mistake for the checks to catch: a grant that could still be cancelled is
\* taken for one the provider has not heard of.
Withdrawal_ByOutbox ==
    IF \E e \in LeadEvents : outbox[e].kind = "consent_granted" /\ Unsettled(e)
    THEN <<>> ELSE <<NewEvent("consent_withdrawn")>>

\* What the provider is told, whatever becomes of the grants under way.
Withdrawal == <<NewEvent("consent_withdrawn")>>

\* withdrawMarketingDemoLead: grants that are not delivered are cancelled.
Withdraw ==
    /\ lead.consent
    /\ lead' = [lead EXCEPT !.consent = FALSE, !.withdrawn = TRUE]
    /\ outbox' = [e \in LeadEvents |->
                     IF outbox[e].kind = "consent_granted" /\ Unsettled(e)
                     THEN [outbox[e] EXCEPT !.status = "cancelled"] ELSE outbox[e]] \o Withdrawal
    /\ UNCHANGED <<leadRuns, told, heard, mishaps>>

\* sweepExpiredMarketingDemoLeads, by the dates of the lead: its events go too.
RemoveLead ==
    /\ lead.exists
    /\ lead' = NoLead
    /\ outbox' = <<>>
    /\ leadRuns' = [r \in LeadRuns |-> IF leadRuns[r] = NoLeadRun THEN NoLeadRun
                                       ELSE [leadRuns[r] EXCEPT !.event = 0]]
    /\ told' = {}
    /\ heard' = FALSE
    /\ UNCHANGED mishaps

-----------------------------------------------------------------------------
(* Delivery                                                                *)

LeadRunGoes(r, run) == leadRuns' = [leadRuns EXCEPT ![r] = run]

\* An event that is due, or claimed by a run whose claim has lapsed.
FindEvent(r) ==
    /\ leadRuns[r] = NoLeadRun
    /\ \E e \in LeadEvents :
          /\ Unsettled(e)
          /\ LeadRunGoes(r, [NoLeadRun EXCEPT !.at = "found", !.event = e, !.copy = lead])
    /\ UNCHANGED <<lead, outbox, told, heard, mishaps>>

\* Somebody else's claim has not lapsed, or the event is settled by now.
Lost(r) ==
    /\ leadRuns[r].at = "found"
    /\ \/ leadRuns[r].event = 0
       \/ leadRuns[r].event # 0 /\ outbox[leadRuns[r].event].status # "pending"
    /\ LeadRunGoes(r, NoLeadRun)
    /\ UNCHANGED <<lead, outbox, told, heard, mishaps>>

ClaimEvent(r) ==
    LET e == leadRuns[r].event
    IN  /\ leadRuns[r].at = "found" /\ e # 0
        /\ Unsettled(e)
        /\ IF outbox[e].kind = "consent_granted" /\ leadRuns[r].copy.withdrawn
           THEN LeadRunGoes(r, [leadRuns[r] EXCEPT !.at = "cancel"])
           ELSE LeadRunGoes(r, [leadRuns[r] EXCEPT !.at = "send"])
        /\ outbox' = [outbox EXCEPT ![e].status = "processing"]
        /\ UNCHANGED <<lead, told, heard, mishaps>>

\* A row that is gone meanwhile cannot be updated, which ends the run.
SettleEvent(r, status) ==
    /\ IF leadRuns[r].event = 0 THEN UNCHANGED outbox
       ELSE outbox' = [outbox EXCEPT ![leadRuns[r].event].status = status]
    /\ LeadRunGoes(r, NoLeadRun)

CancelGrant(r) ==
    /\ leadRuns[r].at = "cancel"
    /\ SettleEvent(r, "cancelled")
    /\ UNCHANGED <<lead, told, heard, mishaps>>

\* The request carries the lead as it was found; a failed one may have arrived.
Send(r) ==
    LET e == leadRuns[r].event
        arrives ==
            /\ told' = told \cup ({e} \ {0})
            /\ heard' = (heard \/ (e # 0 /\ leadRuns[r].copy.consent))
    IN  /\ leadRuns[r].at = "send"
        /\ \/ arrives /\ LeadRunGoes(r, [leadRuns[r] EXCEPT !.at = "record", !.ok = TRUE])
              /\ UNCHANGED mishaps
           \/ /\ Mishap
              /\ arrives \/ UNCHANGED <<told, heard>>
              /\ LeadRunGoes(r, [leadRuns[r] EXCEPT !.at = "record"])
        /\ UNCHANGED <<lead, outbox>>

\* A failed event is due again, even one that was cancelled while it was sent.
RecordAnswer(r) ==
    /\ leadRuns[r].at = "record"
    /\ SettleEvent(r, IF leadRuns[r].ok THEN "delivered" ELSE "pending")
    /\ UNCHANGED <<lead, told, heard, mishaps>>

LeadRunDies(r) ==
    /\ leadRuns[r] # NoLeadRun
    /\ Mishap
    /\ LeadRunGoes(r, NoLeadRun)
    /\ UNCHANGED <<lead, outbox, told, heard>>

-----------------------------------------------------------------------------
LeadsNext ==
    \/ Capture \/ Withdraw \/ RemoveLead
    \/ \E r \in LeadRuns :
          FindEvent(r) \/ Lost(r) \/ ClaimEvent(r) \/ CancelGrant(r) \/ Send(r)
             \/ RecordAnswer(r) \/ LeadRunDies(r)

LeadsSpec == LeadsInit /\ [][LeadsNext]_leadVars

-----------------------------------------------------------------------------
(* Properties                                                              *)

LeadRow == [exists : BOOLEAN, consent : BOOLEAN, withdrawn : BOOLEAN]

LeadsTypeOK ==
    /\ lead \in LeadRow
    /\ \A e \in LeadEvents :
          /\ outbox[e].kind \in {"setup_requested", "consent_granted", "consent_withdrawn"}
          /\ outbox[e].status \in {"pending", "processing", "delivered", "cancelled"}
    /\ leadRuns \in [LeadRuns -> [at : {"none", "found", "cancel", "send", "record"},
                                  event : 0 .. MaxLeadEvents + 2, copy : LeadRow, ok : BOOLEAN]]
    /\ told \subseteq LeadEvents
    /\ heard \in BOOLEAN
    /\ mishaps \in 0..MaxFailures

NothingLeft == \A e \in LeadEvents : ~Unsettled(e)

\* A provider that ever heard of a consent which was withdrawn has been told of
\* the withdrawal, after it was asked for, once nothing is left to deliver.
WithdrawalIsTold ==
    lead.withdrawn /\ heard /\ NothingLeft =>
       \E w \in told :
          /\ outbox[w].kind = "consent_withdrawn"
          /\ \A e \in LeadEvents : outbox[e].kind = "consent_granted" => e < w

LeadsInv == LeadsTypeOK /\ WithdrawalIsTold
=============================================================================
