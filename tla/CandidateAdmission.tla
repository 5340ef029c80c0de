-------------------------- MODULE CandidateAdmission --------------------------
(***************************************************************************)
(* One candidate's way into an interview and out of it, as the candidate   *)
(* app writes it: public-interviews.ts (start, complete, abandon, fail,    *)
(* written fallback), billing-admission.ts (a credit behind every start),  *)
(* live-interview-sessions/route.ts (the room) and credit-settlement.ts    *)
(* (the credit after it), over the organization's CreditLedger.            *)
(*                                                                         *)
(* None of these handlers is a transaction: each is a chain of separate    *)
(* statements, so a request is a process and every write a step of its     *)
(* own.  Requests overlap (two tabs, a reconnect, a retried fetch), a      *)
(* server dies between two statements, an answer is lost on its way.       *)
(***************************************************************************)
EXTENDS CreditLedger

CONSTANTS
    Requests,       \* requests the server can be handling at the same time
    NoAttempt,      \* no session
    RoomStatuses    \* statuses a new room may be reported in: CreateSession of the
                    \* realtime service only knows "starting", the route handles all

ASSUME AdmissionAssumption ==
    /\ NoAttempt \notin Sessions
    /\ RoomStatuses \subseteq {"starting", "completed", "failed", "expired"}

VARIABLES
    attempts,       \* CandidateSession rows, and who holds their resume token
    invitation,     \* status of the invitation the attempts belong to
    requests,       \* the requests in flight
    lost,           \* attempts a request was still busy with when it died
    crowded         \* history: two requests were in flight, or two attempts running, at once

admissionVars == <<vars, attempts, invitation, requests, lost, crowded>>

-----------------------------------------------------------------------------
(* The rows.  "starting" stands for every status an interview can still be *)
(* finished from (completableCandidateSessionStatuses); "open" for every   *)
(* invitation status that does not close it.  "none" is a public link.     *)

Ended == {"completed", "abandoned", "failed", "expired", "superseded"}

AttemptRow == [status : {"none", "deleted", "starting"} \cup Ended,
               room : {"none", "live", "form"},     \* what realtimeSessionId names
               answered : BOOLEAN,      \* its events clear the billable threshold
               billedOutcome : {"none", "captured", "released"},
               told : BOOLEAN]          \* the candidate holds the resume token

NoRow == [status |-> "none", room |-> "none", answered |-> FALSE,
          billedOutcome |-> "none", told |-> FALSE]

InvitationStatus == {"none", "open", "completed", "expired"}

\* Mistake for the checks to catch: only its date closes an invitation.
InvitationClosed_ByDateOnly == {"expired"}

InvitationClosed == {"completed", "expired"}

\* A request: its next statement, the attempt it is about, the one it
\* replaces, what follows admission (`via`) and settlement (`then`).
Request == [pc : {"idle", "create", "admit", "delete", "readmit", "resume", "provision", "submit",
                  "close", "settle", "record", "conclude", "supersede", "reply"},
            attempt : Sessions \cup {NoAttempt},
            old : Sessions \cup {NoAttempt},
            via : {"none", "provision", "submit"},
            kind : {"none"} \cup Ended,
            outcome : {"none", "captured", "released"},
            then : {"idle", "conclude", "supersede", "reply"},
            now : Nat,
            found : SUBSET Sessions]    \* history: ended for good before it came

Idle == [pc |-> "idle", attempt |-> NoAttempt, old |-> NoAttempt, via |-> "none",
         kind |-> "none", outcome |-> "none", then |-> "idle", now |-> 0, found |-> {}]

EndedForGood == {s \in Sessions : attempts[s].status \in {"completed", "expired", "superseded"}}

\* A request that comes in.
New == [Idle EXCEPT !.found = EndedForGood]

At(r, pc) == requests[r].pc = pc

Become(r, q) == requests' = [requests EXCEPT ![r] = q]

Goto(r, pc) == Become(r, [requests[r] EXCEPT !.pc = pc])

Finish(r) == Become(r, Idle)

SetStatus(s, status) == attempts' = [attempts EXCEPT ![s].status = status]

-----------------------------------------------------------------------------
(* Starting.                                                               *)

\* Mistake for the checks to catch: a completed attempt can be retried.
StartPolicy_RetryEnded(status) ==
    CASE status = "starting"                          -> "resume_same_attempt"
      [] status \in {"completed", "failed", "abandoned"} -> "retry_new_attempt"
      [] OTHER                                        -> "reject"

\* resolveCandidateStartPolicy on an attempt that exists.
StartPolicy(status) ==
    CASE status = "starting"              -> "resume_same_attempt"
      [] status \in {"failed", "abandoned"} -> "retry_new_attempt"
      [] OTHER                            -> "reject"

Tokens == {s \in Sessions : attempts[s].told /\ attempts[s].status # "deleted"}

Active == {s \in Sessions : attempts[s].status = "starting"}

Unused == {s \in Sessions : attempts[s].status = "none"}

\* The invitation is past its date: it is closed, whatever it said before.
StartExpired ==
    /\ invitation # "none"
    /\ RequestsOpen
    /\ invitation' = "expired"
    /\ UNCHANGED <<vars, attempts, requests, lost>>

\* prepareCandidateSession up to its decision, which the steps after it act on
\* without looking again.  A request with the token of an attempt resumes or
\* replaces it; without a token an invited candidate starts afresh, unless an
\* attempt is active.
Start(r, via, token) ==
    /\ At(r, "idle")
    /\ RequestsOpen
    /\ invitation \notin InvitationClosed
    /\ \/ /\ token = NoAttempt
          /\ invitation = "none" \/ Active = {}
          /\ Unused # {}
          /\ Become(r, [New EXCEPT !.pc = "create", !.via = via, !.now = clock])
       \/ /\ token \in Tokens
          /\ StartPolicy(attempts[token].status) = "retry_new_attempt"
          /\ Unused # {}
          /\ Become(r, [New EXCEPT !.pc = "create", !.via = via, !.now = clock, !.old = token])
       \/ /\ token \in Tokens
          /\ StartPolicy(attempts[token].status) = "resume_same_attempt"
          /\ Become(r, [New EXCEPT !.pc = "readmit", !.via = via, !.now = clock,
                                    !.attempt = token])
    /\ UNCHANGED <<vars, attempts, invitation, lost>>

\* createCreditBackedCandidateSession: the row first, its credit afterwards.
CreateAttempt(r) ==
    /\ At(r, "create")
    /\ \E s \in Unused :
          /\ attempts' = [attempts EXCEPT ![s] = [NoRow EXCEPT !.status = "starting"]]
          /\ Become(r, [requests[r] EXCEPT !.pc = "admit", !.attempt = s])
    /\ UNCHANGED <<vars, invitation, lost>>

Opened(d, t) ==
    IF d.wallet.exists THEN d ELSE ensureWallet(d, t, FIRST_FIVE_EXPIRY_DAYS)

Admitted(r) == Goto(r, IF At(r, "readmit") THEN "resume" ELSE requests[r].via)

\* Mistake for the checks to catch: a start without a credit goes on.
Refused_GoesOn(r) == Admitted(r)

Refused(r) == IF At(r, "readmit") THEN Finish(r) ELSE Goto(r, "delete")

HasCredit(s) == db.reservations[s].status = "captured"

\* reserveCreditForSession, and what its caller makes of the answer.
ReserveCredit(r) ==
    LET s == requests[r].attempt
        t == requests[r].now
        swept == Sweep(Opened(db, t), t)
    IN /\ At(r, "admit") \/ At(r, "readmit")
       /\ \/ HasCredit(s) /\ UNCHANGED vars /\ Admitted(r)
          \/ db.reservations[s].status = "held" /\ Commit(Renew(db, s, t)) /\ Admitted(r)
          \/ /\ ~HasCredit(s) /\ db.reservations[s].status # "held"
             /\ \/ \E l \in selectLotForReservation(swept, t) :
                      Commit(Hold(swept, s, l, t)) /\ Admitted(r)
                \/ EligibleLots(swept, t) = {} /\ Commit(swept) /\ Refused(r)
          \/ UNCHANGED vars /\ Refused(r)      \* it threw, and rolled back
       /\ UNCHANGED <<attempts, invitation, lost>>

\* deleteOrphanedSession, best effort.
DeleteOrphan(r) ==
    /\ At(r, "delete")
    /\ \/ SetStatus(requests[r].attempt, "deleted")
       \/ UNCHANGED attempts
    /\ Finish(r)
    /\ UNCHANGED <<vars, invitation, lost>>

\* resumeEntitledCandidateSession: the attempt is running again, whatever its
\* status has become since Start.
ResumeAttempt(r) ==
    /\ At(r, "resume")
    /\ SetStatus(requests[r].attempt, "starting")
    /\ Goto(r, requests[r].via)
    /\ UNCHANGED <<vars, invitation, lost>>

-----------------------------------------------------------------------------
(* The room, or the written answers.                                       *)

\* Settles `kind` on the request's attempt, then goes on with `then`.
Settle(q, kind, then) ==
    [q EXCEPT !.pc = "settle", !.kind = kind, !.then = then, !.now = clock]

\* Mistake for the checks to catch: an ended room only changes the status.
AfterProvisioning_Unsettled(q, status) == [q EXCEPT !.pc = "conclude"]

\* Where the answer of the realtime service leads: an ended room settles for
\* itself, then as a running one the invitation and the replaced attempt follow.
AfterProvisioning(q, status) ==
    IF status \in Ended THEN Settle(q, status, "conclude") ELSE [q EXCEPT !.pc = "conclude"]

\* live-interview-sessions/route.ts: every start gets a new room, whose id and
\* status are written over whatever the attempt has become meanwhile.  What was
\* answered in an earlier room no longer counts.
WriteProvisioned(r, status, answered) ==
    LET s == requests[r].attempt
    IN /\ At(r, "provision")
       /\ status = "starting" => ~answered
       /\ attempts' = [attempts EXCEPT ![s].status = status,
                                       ![s].room = "live",
                                       ![s].answered = answered]
       /\ Become(r, AfterProvisioning(requests[r], status))
       /\ UNCHANGED <<vars, invitation, lost>>

\* Mistake for the checks to catch: a room that never came up keeps its credit.
MarkProvisioningFailed_Unsettled(r) ==
    /\ At(r, "provision")
    /\ SetStatus(requests[r].attempt, "failed")
    /\ Finish(r)
    /\ UNCHANGED <<vars, invitation, lost>>

\* markProvisioningFailed; the attempt this one was to replace stays as it is.
MarkProvisioningFailed(r) ==
    /\ At(r, "provision")
    /\ SetStatus(requests[r].attempt, "failed")
    /\ Become(r, Settle([requests[r] EXCEPT !.old = NoAttempt], "failed", "idle"))
    /\ UNCHANGED <<vars, invitation, lost>>

\* The invitation takes the room's status unless it is closed.
Conclude(r) ==
    /\ At(r, "conclude")
    /\ invitation' = IF invitation = "open" /\ requests[r].kind \in InvitationClosed
                     THEN requests[r].kind ELSE invitation
    /\ Goto(r, IF requests[r].old = NoAttempt THEN "reply" ELSE "supersede")
    /\ UNCHANGED <<vars, attempts, lost>>

\* The replaced attempt is superseded, whatever it has become, and settled.
Supersede(r) ==
    LET q == requests[r]
    IN /\ At(r, "supersede")
       /\ SetStatus(q.old, "superseded")
       /\ Become(r, Settle(q, "superseded", "reply"))
       /\ UNCHANGED <<vars, invitation, lost>>

\* The answer reaches the candidate, and with it the resume token, or not.
Reply(r) ==
    /\ At(r, "reply")
    /\ \/ attempts' = [attempts EXCEPT ![requests[r].attempt].told = TRUE]
       \/ UNCHANGED attempts
    /\ Finish(r)
    /\ UNCHANGED <<vars, invitation, lost>>

-----------------------------------------------------------------------------
(* Finishing.                                                              *)

\* What the guarded update of a lifecycle request does to an attempt, and
\* what follows: the invitation and the settlement, the settlement alone on a
\* replay of an abandonment or a failure, or nothing.
AfterLifecycle(q, kind) ==
    LET status == attempts[q.attempt].status
    IN CASE status = "starting" \/ (status = kind /\ kind = "completed") ->
              [q EXCEPT !.pc = "close", !.kind = kind, !.now = clock]
         [] status = kind /\ kind # "completed" -> Settle(q, kind, q.then)
         [] OTHER -> Idle

MarkEnded(s, kind) ==
    IF attempts[s].status = "starting" THEN SetStatus(s, kind) ELSE UNCHANGED attempts

\* completeCandidateSession, markCandidateSessionLifecycle.
Lifecycle(r, s, kind) ==
    /\ At(r, "idle")
    /\ RequestsOpen
    /\ s \in Tokens
    /\ attempts[s].status \in {"starting", kind}
    /\ MarkEnded(s, kind)
    /\ Become(r, AfterLifecycle([New EXCEPT !.attempt = s], kind))
    /\ UNCHANGED <<vars, invitation, lost>>

\* submitCandidateFormInterview after its admission: no answer fails the
\* attempt; answers are stored as the events of a room of their own, and the
\* attempt completes if it still can.
SubmitForm(r, answered) ==
    LET q == requests[r]
        s == q.attempt
    IN /\ At(r, "submit")
       /\ attempts' = [attempts EXCEPT
              ![s].room = "form",
              ![s].answered = answered,
              ![s].status = IF @ = "starting" THEN "completed" ELSE @]
       /\ Become(r, AfterLifecycle([q EXCEPT !.then = IF q.old = NoAttempt THEN "reply"
                                                                          ELSE "supersede"],
                                   "completed"))
       /\ UNCHANGED <<vars, invitation, lost>>

SubmitEmptyForm(r) ==
    /\ At(r, "submit")
    /\ MarkEnded(requests[r].attempt, "failed")
    /\ Become(r, AfterLifecycle(requests[r], "failed"))
    /\ UNCHANGED <<vars, invitation, lost>>

\* updateCandidateInvitationStatusForSession: a completed invitation is not
\* closed to it.
CloseInvitation(r) ==
    LET q == requests[r]
    IN /\ At(r, "close")
       /\ invitation' = IF invitation \in {"none", "expired"} THEN invitation
                        ELSE IF q.kind = "completed" THEN "completed" ELSE "open"
       /\ Become(r, Settle(q, q.kind, q.then))
       /\ UNCHANGED <<vars, attempts, lost>>

-----------------------------------------------------------------------------
(* Settling.                                                               *)

Target(q) == IF q.kind = "superseded" THEN q.old ELSE q.attempt

IsBillable(a) == a.room # "none" /\ a.answered

Charges(q) == q.kind = "completed" /\ IsBillable(attempts[Target(q)])

\* Capture and release both report `no_reservation` when nothing is held.
Settled(q) ==
    LET s == Target(q)
    IN CASE db.reservations[s].status # "held" -> db
         [] db.reservations[s].status = "held" /\ Charges(q) ->
              captureReservationForSession(db, s)
         [] OTHER -> releaseReservationForSession(db, s, q.now)

\* settleCandidateSessionCredit up to the ledger's answer, which it ignores.
SettleCredit(r) ==
    LET q == requests[r]
    IN /\ At(r, "settle")
       /\ Commit(Settled(q))
       /\ IF q.kind = "completed"
          THEN Become(r, [q EXCEPT !.pc = "record",
                                   !.outcome = IF Charges(q) THEN "captured" ELSE "released"])
          ELSE IF q.then = "idle" THEN Finish(r) ELSE Goto(r, q.then)
       /\ UNCHANGED <<attempts, invitation, lost>>

\* It never throws: a settlement that fails is logged and given up.
SettlementFails(r) ==
    /\ At(r, "settle")
    /\ lost' = lost \cup {Target(requests[r])}
    /\ IF requests[r].then = "idle" THEN Finish(r) ELSE Goto(r, requests[r].then)
    /\ UNCHANGED <<vars, attempts, invitation>>

RecordBilledCounts(r) ==
    LET q == requests[r]
    IN /\ At(r, "record")
       /\ attempts' = [attempts EXCEPT ![q.attempt].billedOutcome = q.outcome]
       /\ IF q.then = "idle" THEN Finish(r) ELSE Goto(r, q.then)
       /\ UNCHANGED <<vars, invitation, lost>>

-----------------------------------------------------------------------------

\* The server dies: what the request was going to write is not written.
Crash(r) ==
    LET q == requests[r]
    IN /\ ~At(r, "idle")
       /\ lost' = lost \cup (IF q.pc \in {"resume", "close", "settle", "record", "conclude"}
                             THEN {Target(q)} ELSE {})
       /\ Finish(r)
       /\ UNCHANGED <<vars, attempts, invitation>>

\* The interview's events clear the threshold.
Answer(s) ==
    /\ RequestsOpen
    /\ attempts[s].room = "live" /\ ~attempts[s].answered
    /\ attempts' = [attempts EXCEPT ![s].answered = TRUE]
    /\ UNCHANGED <<vars, invitation, requests, lost>>

\* Time passes, and the billing sweep of the console runs.
Background ==
    /\ Tick \/ ReleaseExpiredReservations(clock)
    /\ UNCHANGED <<attempts, invitation, requests, lost>>

AdmissionInit ==
    /\ db = Fresh /\ clock = 0
    /\ attempts = [s \in Sessions |-> NoRow]
    /\ invitation \in {"none", "open"}
    /\ requests = [r \in Requests |-> Idle]
    /\ lost = {}
    /\ crowded = FALSE

HandleRequest(r) ==
    \/ CreateAttempt(r) \/ ReserveCredit(r) \/ DeleteOrphan(r) \/ ResumeAttempt(r)
    \/ \E status \in RoomStatuses, answered \in BOOLEAN : WriteProvisioned(r, status, answered)
    \/ MarkProvisioningFailed(r) \/ Conclude(r) \/ Supersede(r) \/ Reply(r)
    \/ \E answered \in BOOLEAN : SubmitForm(r, answered)
    \/ SubmitEmptyForm(r) \/ CloseInvitation(r)
    \/ SettleCredit(r) \/ SettlementFails(r) \/ RecordBilledCounts(r)

AdmissionStep ==
    \/ \E r \in Requests :
          \/ \E via \in {"provision", "submit"}, token \in Sessions \cup {NoAttempt} :
                Start(r, via, token)
          \/ \E s \in Sessions, kind \in {"completed", "abandoned", "failed"} :
                Lifecycle(r, s, kind)
          \/ HandleRequest(r)
          \/ Crash(r)
    \/ StartExpired
    \/ \E s \in Sessions : Answer(s)
    \/ Background

\* Two tabs of one candidate, or a second attempt begun beside the first: no
\* handler asks for either.
Crowded ==
    \/ \E r1, r2 \in Requests : r1 # r2 /\ ~At(r1, "idle") /\ ~At(r2, "idle")
    \/ \E s1, s2 \in Active : s1 # s2

AdmissionNext == AdmissionStep /\ crowded' = (crowded \/ Crowded')

AdmissionSpec == AdmissionInit /\ [][AdmissionNext]_admissionVars

-----------------------------------------------------------------------------

\* Every row and request has its type, those of the ledger included.
AdmissionTypeOK ==
    /\ TypeOK
    /\ attempts \in [Sessions -> AttemptRow]
    /\ invitation \in InvitationStatus
    /\ requests \in [Requests -> Request]
    /\ lost \in SUBSET Sessions
    /\ crowded \in BOOLEAN

\* The comments of live-interview-sessions/route.ts: every write of a terminal
\* status "has to settle for itself".  Whatever the requests' overlaps, an
\* attempt that has ended, that no request is working on and that none died
\* working on holds no credit.
Busy(s) == \E r \in Requests : s \in {requests[r].attempt, requests[r].old}

EndedIsSettled ==
    \A s \in Sessions :
        attempts[s].status \in Ended /\ ~Busy(s) /\ s \notin lost =>
            db.reservations[s].status # "held"

\* An attempt whose start was refused is never an interview: an attempt has a
\* room, or its token a holder, only after a credit was held for it.
RoomsHadACredit ==
    \A s \in Sessions :
        attempts[s].room # "none" \/ attempts[s].told => db.reservations[s].status # "none"

\* An invited candidate costs the organization one credit, as long as one
\* request follows another and one attempt the other: of two charged attempts
\* one lost its last writes to a crash.  Two tabs that start at once, or the
\* token of a failed attempt used while another one runs, are charged twice.
ChargedOncePerInvitation ==
    invitation # "none" /\ ~crowded =>
        \A s1, s2 \in Sessions :
            /\ db.reservations[s1].status = "captured"
            /\ db.reservations[s2].status = "captured"
            => s1 = s2 \/ s1 \in lost \/ s2 \in lost

\* What every state keeps to, also in the middle of a request: no room without a
\* credit (billing-admission.ts), and an invitation charged once (public-interviews.ts).
AdmissionInv == AdmissionTypeOK /\ RoomsHadACredit /\ ChargedOncePerInvitation

\* Completed, expired and superseded attempts are terminal
\* (docs/architecture/v1-domain-spine.md:117): no request changes the status of
\* an attempt that had ended so before the request came, whatever it overlaps.
TerminalIsFinal ==
    [][\A s \in EndedForGood :
          attempts'[s].status = attempts[s].status
          \/ \E r \in Requests : requests'[r] # requests[r] /\ s \notin requests[r].found
       ]_admissionVars

=============================================================================
