---------------------------- MODULE CallScheduling ----------------------------
(***************************************************************************)
(* Booking the follow-up call of a candidate on a recruiter's Google       *)
(* Calendar, and moving it (candidate-call-scheduling.ts), through the     *)
(* account connected for it (connected-account-service.ts).                *)
(*                                                                         *)
(* A call has one row, and the event Google holds for it; no transaction   *)
(* spans the two. A submission reads the row, marks it, asks Google and    *)
(* writes what came of it, by the row's id; others may be under way, and   *)
(* an answer of Google may be lost after it was carried out.               *)
(***************************************************************************)
EXTENDS Naturals, FiniteSets

CONSTANTS
    Teammates,          \* recruiters, each with a calendar of their own
    CallTimes,          \* slots
    CallGuests,         \* people who may be invited
    Submissions         \* submissions of the form, each of them made once at most

\* No slot bears the name that stands for there being none.
ASSUME CallsAssumption == "none" \notin CallTimes

VARIABLES
    call,               \* the row of CandidateScheduledCall
    calendars,          \* Google's events, by calendar and id
    accounts,           \* rows of ConnectedAccount
    submissions         \* what each submission asks for, has read and does next

callVars == <<call, calendars, accounts, submissions>>

None == "none"

\* The conference and the location follow the guests' rules and have no field.
Schedule == [time : CallTimes, guests : SUBSET CallGuests]
NoSchedule == [time |-> None, guests |-> {}]

\* The event id is made up with the row: it is named after the submission that did.
CallRow == [status : {"none", "creating", "provider_error", "scheduled", "rescheduling"},
            schedule : Schedule \cup {NoSchedule}, owner : Teammates \cup {None},
            event : Submissions \cup {None}]
NoRow == [status |-> "none", schedule |-> NoSchedule, owner |-> None, event |-> None]

\* `calendar`: the capability; `token`: a refresh token is kept.
AccountRow == [status : {"connected", "needs_reconnect", "error", "revoked"},
               calendar : BOOLEAN, token : BOOLEAN]

\* `at`: what is done next, after a refresh if `refreshing`; `again`: the request to
\* Google is already a second one; `row`: the row as it was read.
Submission == [at : {"idle", "read", "create", "retry", "insert", "created", "notCreated",
                     "mark", "patch", "moved", "notMoved", "done"},
               user : Teammates \cup {None}, schedule : Schedule \cup {NoSchedule}, row : CallRow,
               refreshing : BOOLEAN, token : BOOLEAN, again : BOOLEAN]
NotMade == [at |-> "idle", user |-> None, schedule |-> NoSchedule, row |-> NoRow,
            refreshing |-> FALSE, token |-> FALSE, again |-> FALSE]

CallsInit ==
    /\ call = NoRow
    /\ calendars = [u \in Teammates |-> [e \in Submissions |-> NoSchedule]]
    /\ accounts = [u \in Teammates |-> [status |-> "connected", calendar |-> TRUE, token |-> TRUE]]
    /\ submissions = [r \in Submissions |-> NotMade]

Here(r, place) == submissions[r].at = place /\ ~submissions[r].refreshing

GoTo(r, place) == submissions' = [submissions EXCEPT ![r].at = place]

Finished(r) == submissions' = [submissions EXCEPT ![r] = [NotMade EXCEPT !.at = "done"]]

-----------------------------------------------------------------------------
(* The connection: getGoogleCalendarConnection                              *)

Usable(u) == accounts[u].status = "connected" /\ accounts[u].calendar

\* The form is submitted with a usable account; its token may have to be renewed first.
Submit(r) ==
    /\ Here(r, "idle")
    /\ \E u \in Teammates, asked \in Schedule, renew \in BOOLEAN :
          /\ Usable(u)
          /\ submissions' = [submissions EXCEPT ![r] =
                [NotMade EXCEPT !.at = "read", !.user = u, !.schedule = asked,
                                !.refreshing = renew, !.token = accounts[u].token]]
    /\ UNCHANGED <<call, calendars, accounts>>

\* Without a connection nothing is done before the calendar is asked, and a failure is
\* recorded after.
Unconnected(at) ==
    CASE at = "insert" -> "notCreated" [] at = "patch" -> "notMoved" [] OTHER -> "done"

\* refreshConnectedAccountAccessToken: Google's answer is written over the account,
\* whatever became of it meanwhile, with the refresh token that was read before.
Refresh(r) ==
    LET s == submissions[r]
        write(status, keep) == accounts' = [accounts EXCEPT ![s.user].status = status,
                                                            ![s.user].token = keep]
    IN  /\ s.refreshing
        /\ \/ /\ s.token
              /\ write("connected", TRUE)
              /\ submissions' = [submissions EXCEPT ![r].refreshing = FALSE]
           \/ /\ \E status \in {"needs_reconnect", "error"} :
                    /\ status = "error" => s.token
                    /\ write(status, accounts[s.user].token)
              /\ submissions' = [submissions EXCEPT ![r].refreshing = FALSE,
                                                    ![r].at = Unconnected(s.at)]
        /\ UNCHANGED <<call, calendars>>

\* Google refuses the access token: renewed once, then the account is marked.
Rejected(r) ==
    LET s == submissions[r]
    IN  IF ~s.again
        THEN /\ submissions' = [submissions EXCEPT
                    ![r].again = TRUE,
                    ![r].refreshing = Usable(s.user),
                    ![r].token = accounts[s.user].token,
                    ![r].at = IF Usable(s.user) THEN @ ELSE Unconnected(s.at)]
             /\ UNCHANGED accounts
        ELSE /\ accounts' = [accounts EXCEPT ![s.user].status = "needs_reconnect"]
             /\ GoTo(r, Unconnected(s.at))

\* disconnectGoogleCalendarAccount, whether or not Google could be told.
Disconnect(u) ==
    /\ accounts[u].status # "revoked"
    /\ accounts' = [accounts EXCEPT ![u] = [status |-> "revoked", calendar |-> FALSE, token |-> FALSE]]
    /\ UNCHANGED <<call, calendars, submissions>>

\* connectGoogleAccount: Google may give no refresh token; the one kept then stays.
Connect(u) ==
    /\ ~Usable(u)
    /\ \E given \in BOOLEAN :
          accounts' = [accounts EXCEPT ![u] =
             [status |-> IF given \/ @.token THEN "connected" ELSE "needs_reconnect",
              calendar |-> TRUE, token |-> given \/ @.token]]
    /\ UNCHANGED <<call, calendars, submissions>>

-----------------------------------------------------------------------------
(* scheduleCandidateCall: a first booking                                   *)

\* May a booked call be moved this way: nobody may be dropped, and an event stays where it is.
Movable(row, s) ==
    /\ row.owner = s.user
    /\ row.schedule.guests \subseteq s.schedule.guests

NextStep(row, s) ==
    CASE row.status = "none" -> "create"
      [] row.status \in {"creating", "provider_error"} ->
            IF row.schedule = s.schedule THEN "retry" ELSE "done"
      [] OTHER ->
            IF row.status = "scheduled" /\ row.schedule = s.schedule THEN "done"
            ELSE IF Movable(row, s) THEN "mark" ELSE "done"

ReadCall(r) ==
    /\ Here(r, "read")
    /\ IF NextStep(call, submissions[r]) = "done" THEN Finished(r)
       ELSE submissions' = [submissions EXCEPT ![r].row = call,
                                               ![r].at = NextStep(call, submissions[r])]
    /\ UNCHANGED <<call, calendars, accounts>>

\* The unique key on the session refuses a second row.
CreateRow(r) ==
    LET s == submissions[r]
        row == [status |-> "creating", schedule |-> s.schedule, owner |-> s.user, event |-> r]
    IN  /\ Here(r, "create")
        /\ IF call = NoRow
           THEN /\ call' = row
                /\ submissions' = [submissions EXCEPT ![r].at = "insert", ![r].row = row]
           ELSE Finished(r) /\ UNCHANGED call
        /\ UNCHANGED <<calendars, accounts>>

\* Mistake for the checks to catch: every attempt makes up an event id of its own.
RetryRow_FreshId(r) ==
    /\ Here(r, "retry")
    /\ call' = [call EXCEPT !.status = "creating", !.event = r]
    /\ submissions' = [submissions EXCEPT ![r].at = "insert", ![r].row = call']
    /\ UNCHANGED <<calendars, accounts>>

\* A retry keeps the row as it is, the event id and the first recruiter's account included.
RetryRow(r) ==
    /\ Here(r, "retry")
    /\ call' = [call EXCEPT !.status = "creating"]
    /\ submissions' = [submissions EXCEPT ![r].at = "insert", ![r].row = call']
    /\ UNCHANGED <<calendars, accounts>>

\* Google creates the event, or has one of that id (409) and returns it. It may fail, and
\* it may do as it is asked and not be heard.
InsertEvent(r) ==
    LET s == submissions[r]
        e == s.row.event
        inserted == [calendars EXCEPT ![s.user][e] = IF @ = NoSchedule THEN s.schedule ELSE @]
    IN  /\ Here(r, "insert")
        /\ \/ calendars' = inserted /\ GoTo(r, "created") /\ UNCHANGED accounts
           \/ calendars' \in {inserted, calendars} /\ GoTo(r, "notCreated") /\ UNCHANGED accounts
           \/ Rejected(r) /\ UNCHANGED calendars
        /\ UNCHANGED call

RecordCreated(r) ==
    /\ Here(r, "created")
    /\ call' = [call EXCEPT !.status = "scheduled", !.event = submissions[r].row.event]
    /\ Finished(r)
    /\ UNCHANGED <<calendars, accounts>>

\* recordProviderFailure of a creation.
RecordNotCreated(r) ==
    /\ Here(r, "notCreated")
    /\ call' = [call EXCEPT !.status = "provider_error"]
    /\ Finished(r)
    /\ UNCHANGED <<calendars, accounts>>

-----------------------------------------------------------------------------
(* rescheduleBookedCall                                                     *)

MarkRescheduling(r) ==
    /\ Here(r, "mark")
    /\ call' = [call EXCEPT !.status = "rescheduling"]
    /\ GoTo(r, "patch")
    /\ UNCHANGED <<calendars, accounts>>

\* A patch without guests leaves them as they are; one with guests replaces them.
Patched(event, asked) ==
    [time |-> asked.time, guests |-> IF asked.guests = {} THEN event.guests ELSE asked.guests]

PatchEvent(r) ==
    LET s == submissions[r]
        e == s.row.event
        patched == [calendars EXCEPT ![s.user][e] = Patched(@, s.schedule)]
        held == calendars[s.user][e] # NoSchedule
    IN  /\ Here(r, "patch")
        /\ \/ held /\ calendars' = patched /\ GoTo(r, "moved") /\ UNCHANGED accounts
           \/ held /\ calendars' = patched /\ GoTo(r, "notMoved") /\ UNCHANGED accounts
           \/ UNCHANGED <<calendars, accounts>> /\ GoTo(r, "notMoved")
           \/ Rejected(r) /\ UNCHANGED calendars
        /\ UNCHANGED call

\* Only now is the schedule written.
RecordMoved(r) ==
    LET s == submissions[r]
    IN  /\ Here(r, "moved")
        /\ call' = [call EXCEPT !.status = "scheduled", !.schedule = s.schedule, !.owner = s.user]
        /\ Finished(r)
        /\ UNCHANGED <<calendars, accounts>>

\* recordProviderFailure of a move: the row claims the slot it had.
RecordNotMoved(r) ==
    /\ Here(r, "notMoved")
    /\ call' = [call EXCEPT !.status = "scheduled"]
    /\ Finished(r)
    /\ UNCHANGED <<calendars, accounts>>

\* The process dies between two steps.
DropSubmission(r) ==
    /\ submissions[r].at \notin {"idle", "done"}
    /\ Finished(r)
    /\ UNCHANGED <<call, calendars, accounts>>

-----------------------------------------------------------------------------
CallsNext ==
    \/ \E r \in Submissions :
          \/ Submit(r) \/ Refresh(r) \/ ReadCall(r)
          \/ CreateRow(r) \/ RetryRow(r) \/ InsertEvent(r) \/ RecordCreated(r) \/ RecordNotCreated(r)
          \/ MarkRescheduling(r) \/ PatchEvent(r) \/ RecordMoved(r) \/ RecordNotMoved(r)
          \/ DropSubmission(r)
    \/ \E u \in Teammates : Disconnect(u) \/ Connect(u)

CallsSpec == CallsInit /\ [][CallsNext]_callVars

-----------------------------------------------------------------------------
CallsTypeOK ==
    /\ call \in CallRow
    /\ calendars \in [Teammates -> [Submissions -> Schedule \cup {NoSchedule}]]
    /\ accounts \in [Teammates -> AccountRow]
    /\ submissions \in [Submissions -> Submission]

\* However often a booking is retried, by whomever, with answers lost and calls in
\* between, no calendar has the call twice; and a row that says it is booked, or being
\* moved, has an event on some calendar.
BookedOnce ==
    /\ \A u \in Teammates : Cardinality({e \in Submissions : calendars[u][e] # NoSchedule}) <= 1
    /\ call.status \in {"scheduled", "rescheduling"} =>
          \E u \in Teammates : calendars[u][call.event] # NoSchedule

\* "A row claiming a slot the calendar does not have is worse than a failed action."
ScheduledIsBooked ==
    call.status = "scheduled" =>
        \E u \in Teammates : calendars[u][call.event].time = call.schedule.time
\* A call is booked once, and rows are of their types.
CallsInv == CallsTypeOK /\ BookedOnce
=============================================================================
