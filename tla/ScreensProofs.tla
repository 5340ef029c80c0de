---------------------------- MODULE ScreensProofs ----------------------------
(***************************************************************************)
(* What TLC checks of the tabs of recruiters and candidates on a small     *)
(* instance (MCScreens), proved for any number of rows and of requests     *)
(* under way: follow-up calls, publication, the public demo, the role      *)
(* builder, reviews, the live room and the generation of a draft.          *)
(*                                                                         *)
(* The components share no state. Each part has the inductive invariant of *)
(* its component, a lemma for each of its actions, and the theorem.        *)
(***************************************************************************)
EXTENDS RolePublication, DraftGeneration, RoleBuilder, LiveRoom, CandidateReviews,
        CallScheduling, DemoAdmission, FiniteSetTheorems, TLAPS

-----------------------------------------------------------------------------
(* A follow-up call.  Every event on a calendar bears the id the row was   *)
(* made with, and no event is ever taken off one: so what a submission has *)
(* read of the row's event stays true, however late it is used.            *)

\* What only a submission that has seen the row does next.
SeesRow == {"retry", "insert", "created", "notCreated", "mark", "patch", "moved", "notMoved"}

\* What only one that has seen the call booked does next.
SeesBooking == {"mark", "patch", "moved", "notMoved"}

Booked(e) == \E u \in Teammates : calendars[u][e] # NoSchedule

EventsAreTheCalls ==
    \A u \in Teammates, e \in Submissions : calendars[u][e] # NoSchedule =>
        call.status # "none" /\ e = call.event

\* A submission under way is somebody's, and what it has read of the event holds.
KnowsTheEvent(r) ==
    LET s == submissions[r]
    IN  /\ s.at \notin {"idle", "done"} \/ s.refreshing =>
              s.user \in Teammates /\ s.schedule \in Schedule
        /\ s.at \in SeesRow => call.status # "none" /\ s.row.event = call.event
        /\ s.at = "created" => calendars[s.user][s.row.event] # NoSchedule
        /\ s.at \in SeesBooking => Booked(s.row.event)

CallsIInv ==
    /\ CallsTypeOK
    /\ call.status = "none" => call = NoRow
    /\ call.status # "none" => call.event \in Submissions
    /\ EventsAreTheCalls
    /\ \A r \in Submissions : KnowsTheEvent(r)
    /\ call.status \in {"scheduled", "rescheduling"} => Booked(call.event)

LEMMA CallsInitially == CallsInit => CallsIInv
  BY DEF CallsInit, CallsIInv, CallsTypeOK, NoRow, NoSchedule, None, NotMade, CallRow, AccountRow,
         Submission, EventsAreTheCalls, KnowsTheEvent, SeesRow, SeesBooking, Booked

LEMMA CallsInvFollows == CallsIInv => CallsInv
<1> SUFFICES ASSUME CallsIInv PROVE CallsInv
  OBVIOUS
<1>1. ASSUME NEW u \in Teammates
      PROVE  Cardinality({e \in Submissions : calendars[u][e] # NoSchedule}) <= 1
  <2> DEFINE E == {e \in Submissions : calendars[u][e] # NoSchedule}
  <2>1. E \subseteq {call.event}
    BY <1>1 DEF CallsIInv, EventsAreTheCalls
  <2>2. IsFiniteSet({call.event}) /\ Cardinality({call.event}) = 1
    BY FS_Singleton
  <2> QED
    BY <2>1, <2>2, FS_Subset
<1>2. call.status \in {"scheduled", "rescheduling"} =>
          \E u \in Teammates : calendars[u][call.event] # NoSchedule
  BY DEF CallsIInv, Booked
<1> QED
  BY <1>1, <1>2 DEF CallsInv, BookedOnce, CallsIInv

\* What every step of a submission leaves true for the others: the row keeps its event, no
\* event disappears, and rows stay of their types.
CallsMove(r) ==
    /\ submissions' \in [Submissions -> Submission]
    /\ \A q \in Submissions : q # r => submissions'[q] = submissions[q]
    /\ calendars' \in [Teammates -> [Submissions -> Schedule \cup {NoSchedule}]]
    /\ \A u \in Teammates, e \in Submissions :
          calendars[u][e] # NoSchedule => calendars'[u][e] # NoSchedule
    /\ accounts' \in [Teammates -> AccountRow]
    /\ call' \in CallRow
    /\ call.status # "none" => call'.status # "none" /\ call'.event = call.event
    /\ call'.status # "none" => call'.event \in Submissions
    /\ call'.status = "none" => call' = NoRow

LEMMA CallsMoveKeeps ==
    ASSUME CallsIInv, NEW r \in Submissions, CallsMove(r), KnowsTheEvent(r)', EventsAreTheCalls',
           call'.status \in {"scheduled", "rescheduling"} =>
               \/ call.status # "none" /\ Booked(call.event)
               \/ Booked(call.event)'
    PROVE  CallsIInv'
<1>1. ASSUME NEW q \in Submissions PROVE KnowsTheEvent(q)'
  <2>1. CASE q = r
    BY <2>1
  <2>2. CASE q # r
    <3>1. submissions'[q] = submissions[q] /\ KnowsTheEvent(q)
      BY <1>1, <2>2 DEF CallsMove, CallsIInv
    <3>2. submissions[q].user \in Teammates => \A e \in Submissions :
             calendars[submissions[q].user][e] # NoSchedule =>
                 calendars'[submissions[q].user][e] # NoSchedule
      BY DEF CallsMove
    <3>3. submissions[q].at \in SeesRow =>
             call'.status # "none" /\ submissions[q].row.event = call'.event
                /\ submissions[q].row.event \in Submissions
      BY <3>1 DEF KnowsTheEvent, CallsMove
    <3>4. submissions[q].at \in SeesBooking => Booked(submissions[q].row.event)'
      BY <3>1, <3>3 DEF KnowsTheEvent, CallsMove, Booked, SeesBooking, SeesRow
    <3>5. submissions[q].at = "created" =>
             calendars'[submissions[q].user][submissions[q].row.event] # NoSchedule
      BY <3>1, <3>2, <3>3 DEF KnowsTheEvent, SeesRow
    <3> QED
      BY <3>1, <3>3, <3>4, <3>5 DEF KnowsTheEvent
  <2> QED
    BY <2>1, <2>2
<1>2. call'.status \in {"scheduled", "rescheduling"} => Booked(call.event)'
  <2> SUFFICES ASSUME call.status # "none", Booked(call.event)
               PROVE  Booked(call.event)'
    OBVIOUS
  <2> QED
    BY DEF CallsIInv, CallsMove, Booked
<1> QED
  BY <1>1, <1>2 DEF CallsMove, CallsIInv, CallsTypeOK

\* A submission goes on, and what it holds is left as it is.
LEMMA CallsGoTo ==
    ASSUME CallsTypeOK, NEW r \in Submissions, NEW place, GoTo(r, place),
           place \in {"idle", "read", "create", "retry", "insert", "created", "notCreated",
                      "mark", "patch", "moved", "notMoved", "done"}
    PROVE  /\ submissions' \in [Submissions -> Submission]
           /\ \A q \in Submissions : q # r => submissions'[q] = submissions[q]
           /\ submissions'[r].at = place
           /\ submissions'[r].user = submissions[r].user
           /\ submissions'[r].schedule = submissions[r].schedule
           /\ submissions'[r].row = submissions[r].row
           /\ submissions'[r].refreshing = submissions[r].refreshing
<1>1. submissions \in [Submissions -> Submission] /\ submissions[r] \in Submission
  BY DEF CallsTypeOK
<1>2. submissions' = [submissions EXCEPT ![r].at = place]
  BY DEF GoTo
<1> QED
  BY <1>1, <1>2 DEF Submission

\* A submission that has ended says nothing any more.
LEMMA CallsFinished ==
    ASSUME CallsTypeOK, NEW r \in Submissions, Finished(r)
    PROVE  /\ submissions' \in [Submissions -> Submission]
           /\ \A q \in Submissions : q # r => submissions'[q] = submissions[q]
           /\ KnowsTheEvent(r)'
<1>1. /\ [NotMade EXCEPT !.at = "done"] \in Submission
      /\ [NotMade EXCEPT !.at = "done"].at = "done"
      /\ ~[NotMade EXCEPT !.at = "done"].refreshing
  BY DEF NotMade, Submission, NoRow, NoSchedule, None, CallRow
<1>2. submissions' = [submissions EXCEPT ![r] = [NotMade EXCEPT !.at = "done"]]
  BY DEF Finished
<1>3. submissions'[r].at = "done" /\ ~submissions'[r].refreshing
  BY <1>1, <1>2 DEF CallsTypeOK
<1> QED
  BY <1>1, <1>2, <1>3 DEF CallsTypeOK, KnowsTheEvent, SeesRow, SeesBooking

LEMMA CallSubmitKeeps ==
    ASSUME CallsIInv, NEW r \in Submissions, Submit(r)
    PROVE  CallsIInv'
<1>1. PICK u \in Teammates, hour \in Schedule, renew \in BOOLEAN :
          /\ Usable(u)
          /\ submissions' = [submissions EXCEPT ![r] =
                [NotMade EXCEPT !.at = "read", !.user = u, !.schedule = hour,
                                !.refreshing = renew, !.token = accounts[u].token]]
  BY DEF Submit
<1>2. accounts[u].token \in BOOLEAN
  BY DEF CallsIInv, CallsTypeOK, AccountRow
<1> DEFINE new == [NotMade EXCEPT !.at = "read", !.user = u, !.schedule = hour,
                                  !.refreshing = renew, !.token = accounts[u].token]
<1>3. /\ new \in Submission
      /\ new.at = "read" /\ new.user = u /\ new.schedule = hour
  BY <1>2 DEF NotMade, Submission, NoRow, NoSchedule, None, CallRow
<1>4. submissions' \in [Submissions -> Submission] /\ submissions'[r] = new
  BY <1>1, <1>3 DEF CallsIInv, CallsTypeOK
<1> HIDE DEF new
<1>5. CallsMove(r)
  BY <1>1, <1>4 DEF Submit, CallsIInv, CallsTypeOK, CallsMove
<1>6. KnowsTheEvent(r)' /\ EventsAreTheCalls'
  BY <1>3, <1>4 DEF Submit, CallsIInv, KnowsTheEvent, EventsAreTheCalls, SeesRow, SeesBooking
<1> QED
  BY <1>5, <1>6, CallsMoveKeeps DEF Submit, CallsIInv, Booked

\* Where a refused connection or token leaves a submission.
LEMMA UnconnectedEnds ==
    ASSUME NEW at
    PROVE  /\ Unconnected(at) \in {"done", "notCreated", "notMoved"}
           /\ Unconnected(at) \in SeesRow => at \in SeesRow
           /\ Unconnected(at) \in SeesBooking => at \in SeesBooking
  BY DEF Unconnected, SeesRow, SeesBooking

\* A submission that only moves to a place that asks for no more than where it is.
LEMMA CallsMovesOn ==
    ASSUME CallsIInv, NEW r \in Submissions,
           submissions' \in [Submissions -> Submission],
           \A q \in Submissions : q # r => submissions'[q] = submissions[q],
           submissions'[r].user = submissions[r].user,
           submissions'[r].schedule = submissions[r].schedule,
           submissions'[r].row = submissions[r].row,
           submissions[r].at \notin {"idle", "done"} \/ submissions[r].refreshing,
           submissions'[r].at = submissions[r].at \/ submissions'[r].at # "created",
           submissions'[r].at \in SeesRow => submissions[r].at \in SeesRow,
           submissions'[r].at \in SeesBooking => submissions[r].at \in SeesBooking,
           accounts' \in [Teammates -> AccountRow],
           UNCHANGED <<call, calendars>>
    PROVE  CallsIInv'
<1>1. CallsMove(r)
  BY DEF CallsMove, CallsIInv, CallsTypeOK
<1>2. KnowsTheEvent(r)
  BY DEF CallsIInv
<1>3. Booked(submissions[r].row.event) => Booked(submissions[r].row.event)'
  BY DEF Booked
<1>4. KnowsTheEvent(r)'
  BY <1>2, <1>3 DEF KnowsTheEvent, Booked
<1>5. EventsAreTheCalls'
  BY DEF CallsIInv, EventsAreTheCalls
<1> QED
  BY <1>1, <1>4, <1>5, CallsMoveKeeps DEF CallsIInv, Booked

LEMMA CallRefreshKeeps ==
    ASSUME CallsIInv, NEW r \in Submissions, Refresh(r)
    PROVE  CallsIInv'
<1> DEFINE s == submissions[r]
<1>1. /\ submissions \in [Submissions -> Submission] /\ s \in Submission /\ s.refreshing
      /\ accounts \in [Teammates -> AccountRow]
  BY DEF Refresh, CallsIInv, CallsTypeOK
<1>2. s.user \in Teammates
  BY <1>1 DEF CallsIInv, KnowsTheEvent
<1>3. /\ accounts[s.user] \in AccountRow
      /\ accounts[s.user].token \in BOOLEAN
  BY <1>1, <1>2 DEF AccountRow
<1>4. ASSUME NEW status \in {"connected", "needs_reconnect", "error"}, NEW keep \in BOOLEAN,
             accounts' = [accounts EXCEPT ![s.user].status = status, ![s.user].token = keep]
      PROVE  accounts' \in [Teammates -> AccountRow]
  BY <1>1, <1>2, <1>3, <1>4 DEF AccountRow
<1>5. CASE /\ accounts' = [accounts EXCEPT ![s.user].status = "connected", ![s.user].token = TRUE]
           /\ submissions' = [submissions EXCEPT ![r].refreshing = FALSE]
  <2>1. accounts' \in [Teammates -> AccountRow]
    BY <1>4, <1>5
  <2>2. /\ submissions' \in [Submissions -> Submission]
        /\ \A q \in Submissions : q # r => submissions'[q] = submissions[q]
        /\ submissions'[r].user = s.user /\ submissions'[r].schedule = s.schedule
        /\ submissions'[r].row = s.row /\ submissions'[r].at = s.at
    BY <1>1, <1>5 DEF Submission
  <2> QED
    BY <1>1, <2>1, <2>2, CallsMovesOn DEF Refresh
<1>6. ASSUME NEW status \in {"needs_reconnect", "error"},
             accounts' = [accounts EXCEPT ![s.user].status = status,
                                          ![s.user].token = accounts[s.user].token],
             submissions' = [submissions EXCEPT ![r].refreshing = FALSE, ![r].at = Unconnected(s.at)]
      PROVE  CallsIInv'
  <2>1. accounts' \in [Teammates -> AccountRow]
    BY <1>3, <1>4, <1>6
  <2>2. PICK place : place = Unconnected(s.at)
    OBVIOUS
  <2>3. /\ place \in {"done", "notCreated", "notMoved"}
        /\ place \in SeesRow => s.at \in SeesRow
        /\ place \in SeesBooking => s.at \in SeesBooking
    BY <2>2, UnconnectedEnds
  <2>4. /\ submissions' \in [Submissions -> Submission]
        /\ \A q \in Submissions : q # r => submissions'[q] = submissions[q]
        /\ submissions'[r].user = s.user /\ submissions'[r].schedule = s.schedule
        /\ submissions'[r].row = s.row /\ submissions'[r].at = place
    BY <1>1, <1>6, <2>2, <2>3 DEF Submission
  <2> QED
    BY <1>1, <2>1, <2>3, <2>4, CallsMovesOn DEF Refresh
<1> QED
  BY <1>5, <1>6 DEF Refresh

\* Google refuses the token: the submission tries again or gives up.
LEMMA CallRejectedKeeps ==
    ASSUME CallsIInv, NEW r \in Submissions, Rejected(r), ~submissions[r].refreshing,
           submissions[r].at \in SeesRow, UNCHANGED <<call, calendars>>
    PROVE  CallsIInv'
<1> DEFINE s == submissions[r]
<1>1. /\ submissions \in [Submissions -> Submission] /\ s \in Submission
      /\ accounts \in [Teammates -> AccountRow]
      /\ s.at \notin {"idle", "done"}
  BY DEF CallsIInv, CallsTypeOK, SeesRow
<1>2. s.user \in Teammates
  BY <1>1 DEF CallsIInv, KnowsTheEvent
<1>3. /\ accounts[s.user] \in AccountRow
      /\ accounts[s.user].token \in BOOLEAN
  BY <1>1, <1>2 DEF AccountRow
<1>4. PICK place : place = Unconnected(s.at)
  OBVIOUS
<1>5. /\ place \in {"done", "notCreated", "notMoved"}
      /\ place \in SeesRow => s.at \in SeesRow
      /\ place \in SeesBooking => s.at \in SeesBooking
  BY <1>4, UnconnectedEnds
<1>6. CASE ~s.again
  <2>1. PICK usable \in BOOLEAN : usable = Usable(s.user)
    BY Zenon DEF Usable
  <2>2. submissions' = [submissions EXCEPT
                ![r].again = TRUE, ![r].refreshing = usable, ![r].token = accounts[s.user].token,
                ![r].at = IF usable THEN @ ELSE place]
    BY <1>4, <1>6, <2>1 DEF Rejected
  <2>3. /\ submissions' \in [Submissions -> Submission]
        /\ \A q \in Submissions : q # r => submissions'[q] = submissions[q]
        /\ submissions'[r].user = s.user /\ submissions'[r].schedule = s.schedule
        /\ submissions'[r].row = s.row /\ submissions'[r].at \in {s.at, place}
    BY <1>1, <1>3, <1>5, <2>2 DEF Submission
  <2>4. accounts' \in [Teammates -> AccountRow]
    BY <1>1, <1>6 DEF Rejected
  <2> QED
    BY <1>1, <1>5, <2>3, <2>4, CallsMovesOn
<1>7. CASE s.again
  <2>1. accounts' \in [Teammates -> AccountRow]
    BY <1>1, <1>2, <1>3, <1>7 DEF Rejected, AccountRow
  <2>2. GoTo(r, place)
    BY <1>4, <1>7 DEF Rejected
  <2>3. CallsTypeOK
    BY DEF CallsIInv
  <2> QED
    BY <1>1, <1>5, <2>1, <2>2, <2>3, CallsGoTo, CallsMovesOn
<1> QED
  BY <1>6, <1>7

\* A submission that ends and leaves everything else.
LEMMA CallsEnds ==
    ASSUME CallsIInv, NEW r \in Submissions, Finished(r), UNCHANGED <<call, calendars, accounts>>
    PROVE  CallsIInv'
<1>1. CallsMove(r) /\ KnowsTheEvent(r)'
  BY CallsFinished DEF CallsMove, CallsIInv, CallsTypeOK
<1>2. EventsAreTheCalls'
  BY DEF CallsIInv, EventsAreTheCalls
<1> QED
  BY <1>1, <1>2, CallsMoveKeeps DEF CallsIInv, Booked

LEMMA CallReadKeeps ==
    ASSUME CallsIInv, NEW r \in Submissions, ReadCall(r)
    PROVE  CallsIInv'
<1> DEFINE s == submissions[r]
           place == NextStep(call, s)
<1>1. /\ submissions \in [Submissions -> Submission] /\ s \in Submission /\ call \in CallRow
      /\ s.at = "read"
  BY DEF ReadCall, Here, CallsIInv, CallsTypeOK
<1>2. CASE place = "done"
  BY <1>2, CallsEnds DEF ReadCall
<1>3. CASE place # "done"
  <2>1. /\ place \in {"create", "retry", "mark"}
        /\ place \in SeesRow => call.status # "none"
        /\ place \in SeesBooking => call.status \in {"scheduled", "rescheduling"}
    BY <1>1, <1>3 DEF NextStep, CallRow, SeesRow, SeesBooking
  <2>2. submissions' = [submissions EXCEPT ![r].row = call, ![r].at = place]
    BY <1>3 DEF ReadCall
  <2> HIDE DEF place
  <2>3. /\ submissions' \in [Submissions -> Submission]
        /\ \A q \in Submissions : q # r => submissions'[q] = submissions[q]
        /\ submissions'[r].user = s.user /\ submissions'[r].schedule = s.schedule
        /\ submissions'[r].row = call /\ submissions'[r].at = place
    BY <1>1, <2>1, <2>2 DEF Submission
  <2>4. CallsMove(r)
    BY <2>3 DEF CallsMove, CallsIInv, CallsTypeOK, ReadCall
  <2>5. s.user \in Teammates /\ s.schedule \in Schedule
    BY <1>1 DEF CallsIInv, KnowsTheEvent
  <2>6. place \in SeesBooking => Booked(call.event)'
    BY <2>1 DEF CallsIInv, Booked, ReadCall
  <2>7. KnowsTheEvent(r)'
    BY <2>1, <2>3, <2>5, <2>6 DEF KnowsTheEvent, ReadCall, Booked
  <2>8. EventsAreTheCalls'
    BY DEF CallsIInv, EventsAreTheCalls, ReadCall
  <2> QED
    BY <2>4, <2>7, <2>8, CallsMoveKeeps DEF CallsIInv, Booked, ReadCall
<1> QED
  BY <1>2, <1>3

LEMMA CallCreateKeeps ==
    ASSUME CallsIInv, NEW r \in Submissions, CreateRow(r)
    PROVE  CallsIInv'
<1> DEFINE s == submissions[r]
           row == [status |-> "creating", schedule |-> s.schedule, owner |-> s.user, event |-> r]
<1>1. /\ submissions \in [Submissions -> Submission] /\ s \in Submission /\ s.at = "create"
      /\ s.user \in Teammates /\ s.schedule \in Schedule
  BY DEF CreateRow, Here, CallsIInv, CallsTypeOK, KnowsTheEvent
<1>2. CASE call # NoRow
  BY <1>2, CallsEnds DEF CreateRow
<1>3. CASE call = NoRow
  <2>1. call' = row /\ submissions' = [submissions EXCEPT ![r].at = "insert", ![r].row = row]
    BY <1>3 DEF CreateRow
  <2>2. row \in CallRow /\ row.status = "creating" /\ row.event = r
    BY <1>1 DEF CallRow
  <2> HIDE DEF row
  <2>3. /\ submissions' \in [Submissions -> Submission]
        /\ \A q \in Submissions : q # r => submissions'[q] = submissions[q]
        /\ submissions'[r].user = s.user /\ submissions'[r].schedule = s.schedule
        /\ submissions'[r].row = row /\ submissions'[r].at = "insert"
    BY <1>1, <2>1, <2>2 DEF Submission
  <2>4. call.status = "none"
    BY <1>3 DEF NoRow
  <2>5. CallsMove(r)
    BY <2>1, <2>2, <2>3, <2>4 DEF CallsMove, CallsIInv, CallsTypeOK, CreateRow
  <2>6. KnowsTheEvent(r)'
    BY <1>1, <2>1, <2>2, <2>3 DEF KnowsTheEvent, SeesRow, SeesBooking
  <2>7. EventsAreTheCalls'
    BY <2>4 DEF CallsIInv, EventsAreTheCalls, CreateRow
  <2> QED
    BY <2>1, <2>2, <2>5, <2>6, <2>7, CallsMoveKeeps
<1> QED
  BY <1>2, <1>3

LEMMA CallRetryKeeps ==
    ASSUME CallsIInv, NEW r \in Submissions, RetryRow(r)
    PROVE  CallsIInv'
<1> DEFINE s == submissions[r]
<1>1. /\ submissions \in [Submissions -> Submission] /\ s \in Submission /\ s.at = "retry"
      /\ s.user \in Teammates /\ s.schedule \in Schedule
      /\ call \in CallRow /\ call.status # "none" /\ call.event \in Submissions
  BY DEF RetryRow, Here, CallsIInv, CallsTypeOK, KnowsTheEvent, SeesRow
<1>2. call' \in CallRow /\ call'.status = "creating" /\ call'.event = call.event
  BY <1>1 DEF RetryRow, CallRow
<1>3. /\ submissions' \in [Submissions -> Submission]
      /\ \A q \in Submissions : q # r => submissions'[q] = submissions[q]
      /\ submissions'[r].user = s.user /\ submissions'[r].schedule = s.schedule
      /\ submissions'[r].row = call' /\ submissions'[r].at = "insert"
  BY <1>1, <1>2 DEF Submission, RetryRow
<1>4. CallsMove(r)
  BY <1>1, <1>2, <1>3 DEF CallsMove, CallsIInv, CallsTypeOK, RetryRow
<1>5. KnowsTheEvent(r)'
  BY <1>1, <1>2, <1>3 DEF KnowsTheEvent, SeesRow, SeesBooking
<1>6. EventsAreTheCalls'
  BY <1>2 DEF CallsIInv, EventsAreTheCalls, RetryRow
<1> QED
  BY <1>2, <1>4, <1>5, <1>6, CallsMoveKeeps

\* An event put on a calendar under the row's id, or changed there.
LEMMA CallsEventIsPut ==
    ASSUME CallsIInv, NEW r \in Submissions, NEW event \in Schedule,
           ~submissions[r].refreshing, submissions[r].at \in {"insert", "patch"},
           calendars' = [calendars EXCEPT ![submissions[r].user][submissions[r].row.event] = event]
    PROVE  /\ calendars' \in [Teammates -> [Submissions -> Schedule \cup {NoSchedule}]]
           /\ \A u \in Teammates, e \in Submissions :
                 calendars[u][e] # NoSchedule => calendars'[u][e] # NoSchedule
           /\ calendars'[submissions[r].user][call.event] # NoSchedule
           /\ \A u \in Teammates, e \in Submissions : calendars'[u][e] # NoSchedule => e = call.event
           /\ submissions[r].user \in Teammates
           /\ submissions[r].row.event = call.event
           /\ call.status # "none" /\ call.event \in Submissions
<1> DEFINE s == submissions[r]
<1>1. /\ s.user \in Teammates /\ s.row.event = call.event
      /\ call.status # "none" /\ call.event \in Submissions
      /\ calendars \in [Teammates -> [Submissions -> Schedule \cup {NoSchedule}]]
  BY DEF CallsIInv, CallsTypeOK, KnowsTheEvent, SeesRow
<1>2. event # NoSchedule
  BY CallsAssumption DEF Schedule, NoSchedule, None
<1>3. calendars' = [calendars EXCEPT ![s.user][call.event] = event]
  BY <1>1
<1>4. \A u \in Teammates, e \in Submissions :
         calendars'[u][e] = IF u = s.user /\ e = call.event THEN event ELSE calendars[u][e]
  BY <1>1, <1>3
<1>5. calendars' \in [Teammates -> [Submissions -> Schedule \cup {NoSchedule}]]
  BY <1>1, <1>3
<1>6. \A u \in Teammates, e \in Submissions : calendars[u][e] # NoSchedule => e = call.event
  BY DEF CallsIInv, EventsAreTheCalls
<1> QED
  BY <1>1, <1>2, <1>4, <1>5, <1>6

\* A submission that has asked the calendar, whatever it has heard.
LEMMA CallsAsked ==
    ASSUME CallsIInv, NEW r \in Submissions, NEW place \in {"created", "notCreated", "moved", "notMoved"},
           ~submissions[r].refreshing, submissions[r].at \in {"insert", "patch"},
           place \in SeesBooking => submissions[r].at = "patch",
           GoTo(r, place), UNCHANGED <<call, accounts>>,
           calendars' \in [Teammates -> [Submissions -> Schedule \cup {NoSchedule}]],
           \A u \in Teammates, e \in Submissions :
               calendars[u][e] # NoSchedule => calendars'[u][e] # NoSchedule,
           \A u \in Teammates, e \in Submissions : calendars'[u][e] # NoSchedule => e = call.event,
           place = "created" => calendars'[submissions[r].user][submissions[r].row.event] # NoSchedule
    PROVE  CallsIInv'
<1> DEFINE s == submissions[r]
<1>1. CallsTypeOK
  BY DEF CallsIInv
<1>2. /\ submissions' \in [Submissions -> Submission]
      /\ \A q \in Submissions : q # r => submissions'[q] = submissions[q]
      /\ submissions'[r].user = s.user /\ submissions'[r].schedule = s.schedule
      /\ submissions'[r].row = s.row /\ submissions'[r].at = place
      /\ submissions'[r].refreshing = s.refreshing
  BY <1>1, CallsGoTo
<1>3. CallsMove(r)
  BY <1>2 DEF CallsMove, CallsIInv, CallsTypeOK
<1>4. /\ s.user \in Teammates /\ s.schedule \in Schedule
      /\ call.status # "none" /\ s.row.event = call.event /\ call.event \in Submissions
      /\ s.at = "patch" => Booked(call.event)
  BY DEF CallsIInv, KnowsTheEvent, SeesRow, SeesBooking
<1>5. Booked(call.event) => Booked(call.event)'
  BY <1>4 DEF Booked
<1>6. place \in SeesBooking => Booked(call.event)'
  BY <1>4, <1>5
<1>7. KnowsTheEvent(r)'
  BY <1>2, <1>4, <1>6 DEF KnowsTheEvent, Booked
<1>8. EventsAreTheCalls'
  BY <1>4 DEF EventsAreTheCalls
<1> QED
  BY <1>3, <1>5, <1>7, <1>8, CallsMoveKeeps DEF CallsIInv

LEMMA CallInsertKeeps ==
    ASSUME CallsIInv, NEW r \in Submissions, InsertEvent(r)
    PROVE  CallsIInv'
<1> DEFINE s == submissions[r]
           e == s.row.event
           inserted == [calendars EXCEPT ![s.user][e] = IF @ = NoSchedule THEN s.schedule ELSE @]
<1>1. /\ s.at = "insert" /\ ~s.refreshing /\ call' = call
      /\ s.user \in Teammates /\ s.schedule \in Schedule
      /\ e = call.event /\ call.event \in Submissions
      /\ calendars \in [Teammates -> [Submissions -> Schedule \cup {NoSchedule}]]
      /\ \A u \in Teammates, x \in Submissions : calendars[u][x] # NoSchedule => x = call.event
  BY DEF InsertEvent, Here, CallsIInv, CallsTypeOK, KnowsTheEvent, SeesRow, EventsAreTheCalls
<1>2. PICK event : event = IF calendars[s.user][e] = NoSchedule THEN s.schedule ELSE calendars[s.user][e]
  OBVIOUS
<1>3. event \in Schedule
  BY <1>1, <1>2
<1>4. inserted = [calendars EXCEPT ![s.user][e] = event]
  BY <1>2
<1> HIDE DEF inserted
<1>5. CASE /\ calendars' = inserted /\ accounts' = accounts
           /\ GoTo(r, "created") \/ GoTo(r, "notCreated")
  <2>1. /\ calendars' \in [Teammates -> [Submissions -> Schedule \cup {NoSchedule}]]
        /\ \A u \in Teammates, x \in Submissions :
              calendars[u][x] # NoSchedule => calendars'[u][x] # NoSchedule
        /\ calendars'[s.user][e] # NoSchedule
        /\ \A u \in Teammates, x \in Submissions : calendars'[u][x] # NoSchedule => x = call.event
    BY <1>1, <1>3, <1>4, <1>5, CallsEventIsPut
  <2> QED
    BY <1>1, <1>5, <2>1, CallsAsked DEF SeesBooking
<1>6. CASE calendars' = calendars /\ accounts' = accounts /\ GoTo(r, "notCreated")
  BY <1>1, <1>6, CallsAsked DEF SeesBooking
<1>7. CASE Rejected(r) /\ calendars' = calendars
  BY <1>1, <1>7, CallRejectedKeeps DEF SeesRow
<1> QED
  BY <1>5, <1>6, <1>7 DEF InsertEvent, inserted

LEMMA CallPatchKeeps ==
    ASSUME CallsIInv, NEW r \in Submissions, PatchEvent(r)
    PROVE  CallsIInv'
<1> DEFINE s == submissions[r]
           e == s.row.event
<1>1. /\ s.at = "patch" /\ ~s.refreshing /\ call' = call
      /\ s.user \in Teammates /\ s.schedule \in Schedule
      /\ e = call.event /\ call.event \in Submissions
      /\ calendars \in [Teammates -> [Submissions -> Schedule \cup {NoSchedule}]]
      /\ \A u \in Teammates, x \in Submissions : calendars[u][x] # NoSchedule => x = call.event
  BY DEF PatchEvent, Here, CallsIInv, CallsTypeOK, KnowsTheEvent, SeesRow, EventsAreTheCalls
<1>2. PICK event : event = Patched(calendars[s.user][e], s.schedule)
  OBVIOUS
<1>3. event \in Schedule
  BY <1>1, <1>2 DEF Patched, Schedule, NoSchedule
<1>4. CASE /\ calendars' = [calendars EXCEPT ![s.user][e] = event] /\ accounts' = accounts
           /\ GoTo(r, "moved") \/ GoTo(r, "notMoved")
  <2>1. /\ calendars' \in [Teammates -> [Submissions -> Schedule \cup {NoSchedule}]]
        /\ \A u \in Teammates, x \in Submissions :
              calendars[u][x] # NoSchedule => calendars'[u][x] # NoSchedule
        /\ \A u \in Teammates, x \in Submissions : calendars'[u][x] # NoSchedule => x = call.event
    BY <1>1, <1>3, <1>4, CallsEventIsPut
  <2> QED
    BY <1>1, <1>4, <2>1, CallsAsked
<1>5. CASE calendars' = calendars /\ accounts' = accounts /\ GoTo(r, "notMoved")
  BY <1>1, <1>5, CallsAsked
<1>6. CASE Rejected(r) /\ calendars' = calendars
  BY <1>1, <1>6, CallRejectedKeeps DEF SeesRow
<1>7. \/ /\ calendars' = [calendars EXCEPT ![s.user][e] = Patched(@, s.schedule)]
         /\ accounts' = accounts
         /\ GoTo(r, "moved") \/ GoTo(r, "notMoved")
      \/ calendars' = calendars /\ accounts' = accounts /\ GoTo(r, "notMoved")
      \/ Rejected(r) /\ calendars' = calendars
  BY Zenon DEF PatchEvent
<1>8. [calendars EXCEPT ![s.user][e] = Patched(@, s.schedule)] = [calendars EXCEPT ![s.user][e] = event]
  BY <1>2
<1> QED
  BY <1>4, <1>5, <1>6, <1>7, <1>8

\* A submission that writes what came of it and ends: the row keeps its event.
LEMMA CallsRecorded ==
    ASSUME CallsIInv, NEW r \in Submissions, Finished(r), UNCHANGED <<calendars, accounts>>,
           call' \in CallRow, call.status # "none", call'.status # "none",
           call'.event = call.event,
           call'.status \in {"scheduled", "rescheduling"} => Booked(call.event)
    PROVE  CallsIInv'
<1>1. CallsMove(r) /\ KnowsTheEvent(r)'
  BY CallsFinished DEF CallsMove, CallsIInv, CallsTypeOK
<1>2. EventsAreTheCalls'
  BY DEF CallsIInv, EventsAreTheCalls
<1> QED
  BY <1>1, <1>2, CallsMoveKeeps

LEMMA CallRecordKeeps ==
    ASSUME CallsIInv, NEW r \in Submissions,
           RecordCreated(r) \/ RecordNotCreated(r) \/ RecordMoved(r) \/ RecordNotMoved(r)
    PROVE  CallsIInv'
<1> DEFINE s == submissions[r]
<1>1. /\ s.at \in {"created", "notCreated", "moved", "notMoved"} /\ ~s.refreshing
      /\ Finished(r) /\ UNCHANGED <<calendars, accounts>>
      /\ call \in CallRow
  BY DEF RecordCreated, RecordNotCreated, RecordMoved, RecordNotMoved, Here, CallsIInv, CallsTypeOK
<1>2. /\ s.user \in Teammates /\ s.schedule \in Schedule
      /\ call.status # "none" /\ s.row.event = call.event
  BY <1>1 DEF CallsIInv, KnowsTheEvent, SeesRow
<1>3. s.at \in {"created", "moved", "notMoved"} => Booked(call.event)
  BY <1>1, <1>2 DEF CallsIInv, KnowsTheEvent, SeesBooking, Booked
<1>4. call' \in CallRow /\ call'.status # "none" /\ call'.event = call.event
  BY <1>1, <1>2 DEF RecordCreated, RecordNotCreated, RecordMoved, RecordNotMoved, CallRow
<1>5. call'.status \in {"scheduled", "rescheduling"} => Booked(call.event)
  BY <1>1, <1>3 DEF RecordCreated, RecordNotCreated, RecordMoved, RecordNotMoved, CallRow, Here
<1> QED
  BY <1>1, <1>2, <1>4, <1>5, CallsRecorded

LEMMA CallMarkKeeps ==
    ASSUME CallsIInv, NEW r \in Submissions, MarkRescheduling(r)
    PROVE  CallsIInv'
<1> DEFINE s == submissions[r]
<1>1. /\ s.at = "mark" /\ ~s.refreshing /\ GoTo(r, "patch") /\ UNCHANGED <<calendars, accounts>>
      /\ call \in CallRow /\ CallsTypeOK
  BY DEF MarkRescheduling, Here, CallsIInv, CallsTypeOK
<1>2. /\ s.user \in Teammates /\ s.schedule \in Schedule
      /\ call.status # "none" /\ s.row.event = call.event /\ Booked(call.event)
  BY <1>1 DEF CallsIInv, KnowsTheEvent, SeesRow, SeesBooking
<1>3. call' \in CallRow /\ call'.status = "rescheduling" /\ call'.event = call.event
  BY <1>1 DEF MarkRescheduling, CallRow
<1>4. /\ submissions' \in [Submissions -> Submission]
      /\ \A q \in Submissions : q # r => submissions'[q] = submissions[q]
      /\ submissions'[r].user = s.user /\ submissions'[r].schedule = s.schedule
      /\ submissions'[r].row = s.row /\ submissions'[r].at = "patch"
  BY <1>1, CallsGoTo
<1>5. CallsMove(r)
  BY <1>1, <1>2, <1>3, <1>4 DEF CallsMove, CallsIInv, CallsTypeOK
<1>6. Booked(call.event)'
  BY <1>1, <1>2, <1>3 DEF Booked
<1>7. KnowsTheEvent(r)'
  BY <1>2, <1>3, <1>4, <1>6 DEF KnowsTheEvent, Booked
<1>8. EventsAreTheCalls'
  BY <1>1, <1>2, <1>3 DEF CallsIInv, EventsAreTheCalls
<1> QED
  BY <1>2, <1>5, <1>7, <1>8, CallsMoveKeeps

LEMMA CallDropKeeps ==
    ASSUME CallsIInv, NEW r \in Submissions, DropSubmission(r)
    PROVE  CallsIInv'
  BY CallsEnds DEF DropSubmission

\* Connecting and disconnecting an account leaves the calendars and the call alone.
LEMMA CallAccountsKeep ==
    ASSUME CallsIInv, NEW u \in Teammates, Disconnect(u) \/ Connect(u)
    PROVE  CallsIInv'
<1>1. accounts \in [Teammates -> AccountRow] /\ accounts[u].token \in BOOLEAN
  BY DEF CallsIInv, CallsTypeOK, AccountRow
<1>2. accounts' \in [Teammates -> AccountRow]
  <2>1. CASE Disconnect(u)
    BY <1>1, <2>1 DEF Disconnect, AccountRow
  <2>2. CASE Connect(u)
    <3>1. PICK given \in BOOLEAN :
          accounts' = [accounts EXCEPT ![u] =
             [status |-> IF given \/ @.token THEN "connected" ELSE "needs_reconnect",
              calendar |-> TRUE, token |-> given \/ @.token]]
      BY <2>2 DEF Connect
    <3>2. PICK kept \in BOOLEAN : kept = (given \/ accounts[u].token)
      BY Zenon
    <3>3. accounts' = [accounts EXCEPT ![u] =
             [status |-> IF kept THEN "connected" ELSE "needs_reconnect",
              calendar |-> TRUE, token |-> kept]]
      BY <3>1, <3>2
    <3> QED
      BY <1>1, <3>3 DEF AccountRow
  <2> QED
    BY <2>1, <2>2
<1>3. UNCHANGED <<call, calendars, submissions>>
  BY DEF Disconnect, Connect
<1> QED
  BY <1>2, <1>3 DEF CallsIInv, CallsTypeOK, EventsAreTheCalls, KnowsTheEvent, Booked

LEMMA CallsKeepInvariant == CallsIInv /\ [CallsNext]_callVars => CallsIInv'
<1> SUFFICES ASSUME CallsIInv, [CallsNext]_callVars PROVE CallsIInv'
  OBVIOUS
<1>1. CASE CallsNext
  BY <1>1, CallSubmitKeeps, CallRefreshKeeps, CallReadKeeps, CallCreateKeeps, CallRetryKeeps,
     CallInsertKeeps, CallRecordKeeps, CallMarkKeeps, CallPatchKeeps, CallDropKeeps,
     CallAccountsKeep, Zenon DEF CallsNext
<1>2. CASE UNCHANGED callVars
  BY <1>2 DEF callVars, CallsIInv, CallsTypeOK, EventsAreTheCalls, KnowsTheEvent, Booked
<1> QED
  BY <1>1, <1>2

\* A call is on a calendar once, however often its booking is retried and whoever retries
\* it, and a row that says it is booked has its event.
THEOREM CallsAreBookedOnce == CallsSpec => []CallsInv
<1>1. CallsSpec => []CallsIInv
  BY CallsInitially, CallsKeepInvariant, PTL DEF CallsSpec
<1> QED
  BY <1>1, CallsInvFollows, PTL

-----------------------------------------------------------------------------
(* Publishing a draft.  A call works on its own copy of the draft, so what *)
(* it does late is right only because what it goes by cannot change: the   *)
(* role of a draft and of a snapshot, the text of a snapshot and that the  *)
(* snapshot exists.  The waivers are bounded with those still to be        *)
(* written.                                                                *)

RequestRow == [pc : {"none", "screen", "write"}, draft : Drafts \cup {"none"}, copy : DraftRow,
               snapshot : Snapshots \cup {"none"},
               was : {"none", "published", "paused"}, waive : BOOLEAN]

Waiving == {r \in Requests : requests[r].waive}

PublicationRows ==
    /\ drafts \in [Drafts -> DraftRow]
    /\ snapshots \in [Snapshots -> SnapshotRow]
    /\ requests \in [Requests -> RequestRow]
    /\ waivers \in Nat

\* A row exists or it does not, and the role of a snapshot is that of its draft.
SnapshotsFollowDrafts ==
    /\ \A d \in Drafts : drafts[d].status = "none" => drafts[d] = NoDraft
    /\ \A s \in Snapshots :
          /\ snapshots[s].status = "none" => snapshots[s] = NoSnapshot
          /\ snapshots[s].draft # "none" =>
                /\ snapshots[s].job = drafts[snapshots[s].draft].job
                /\ drafts[snapshots[s].draft].status # "none"

OneSnapshotPerDraft ==
    \A s, t \in Snapshots : snapshots[s].draft = snapshots[t].draft =>
                               s = t \/ snapshots[s].draft = "none"

\* What a call goes by is what is still so, and what it will write was screened.
GoesByWhatLasts(r) ==
    LET q == requests[r]
    IN  /\ q.pc # "none" =>
              /\ q.draft \in Drafts
              /\ drafts[q.draft].status # "none" /\ q.copy.job = drafts[q.draft].job
        /\ q.pc # "none" /\ q.snapshot # "none" =>
              /\ snapshots[q.snapshot].status # "none"
              /\ snapshots[q.snapshot].job = q.copy.job
        /\ q.pc = "write" => q.copy.text = "clean" \/ (q.copy.text = "sensitive" /\ q.waive)

PublicationIInv ==
    /\ PublicationRows
    /\ SnapshotsFollowDrafts
    /\ OneSnapshotPerDraft
    /\ \A r \in Requests : GoesByWhatLasts(r)
    /\ waivers + Cardinality(Waiving) <= WaiverLimit + Cardinality(Requests)
    /\ PublishedRolesWithinPlan
    /\ OnlyScreenedIsPublished

LEMMA PublishedJobsFinite == IsFiniteSet(PublishedJobs) /\ Cardinality(PublishedJobs) \in Nat
<1>1. IsFiniteSet({x \in Snapshots : Published(x)})
  BY PublicationAssumption, FS_Subset
<1>2. IsFiniteSet(PublishedJobs)
  <2> DEFINE S == {x \in Snapshots : Published(x)}
             f == [s \in S |-> snapshots[s].job]
  <2>1. f \in Surjection(S, PublishedJobs)
    BY DEF Surjection, PublishedJobs
  <2> QED
    BY <1>1, <2>1, FS_Surjection
<1> QED
  BY <1>2, FS_CardinalityType

LEMMA WaivingFinite ==
    /\ IsFiniteSet(Waiving) /\ Cardinality(Waiving) \in Nat /\ Cardinality(Requests) \in Nat
    /\ Cardinality(Waiving) <= Cardinality(Requests)
<1>1. Waiving \subseteq Requests
  BY DEF Waiving
<1> QED
  BY <1>1, PublicationAssumption, FS_Subset, FS_CardinalityType

LEMMA PublicationInitially == PublicationInit => PublicationIInv
<1> SUFFICES ASSUME PublicationInit PROVE PublicationIInv
  OBVIOUS
<1>1. PublicationRows /\ SnapshotsFollowDrafts /\ OneSnapshotPerDraft
  BY DEF PublicationInit, PublicationRows, SnapshotsFollowDrafts, OneSnapshotPerDraft, NoDraft,
     NoSnapshot, NoRequest, DraftRow, SnapshotRow, RequestRow, Text
<1>2. \A r \in Requests : GoesByWhatLasts(r)
  BY DEF PublicationInit, GoesByWhatLasts, NoRequest
<1>3. Waiving = {}
  BY DEF PublicationInit, Waiving, NoRequest
<1>4. waivers + Cardinality(Waiving) <= WaiverLimit + Cardinality(Requests)
  <2>1. Cardinality(Waiving) = 0
    BY <1>3, FS_EmptySet
  <2> QED
    BY <2>1, WaivingFinite, PublicationAssumption DEF PublicationInit
<1>5. PublishedRolesWithinPlan
  <2>1. PublishedJobs = {}
    BY DEF PublicationInit, PublishedJobs, Published, NoSnapshot
  <2> QED
    BY <2>1, FS_EmptySet, PublicationAssumption DEF PublishedRolesWithinPlan
<1>6. OnlyScreenedIsPublished
  BY DEF PublicationInit, OnlyScreenedIsPublished
<1> QED
  BY <1>1, <1>2, <1>4, <1>5, <1>6 DEF PublicationIInv

LEMMA PublicationInvFollows == PublicationIInv => PublicationInv
<1> SUFFICES ASSUME PublicationIInv PROVE PublicationInv
  OBVIOUS
<1>1. waivers \in 0 .. WaiverLimit + Cardinality(Requests)
  BY WaivingFinite, PublicationAssumption DEF PublicationIInv, PublicationRows
<1> QED
  BY <1>1 DEF PublicationIInv, PublicationInv, PublicationRows, PublicationTypeOK, OneSnapshotPerDraft

\* Publishing one more snapshot of an admitted role keeps the workspace within its plan.
LEMMA AdmittedFits ==
    ASSUME NEW j, Admitted(j), PublishedRolesWithinPlan, PublishedJobs' \subseteq PublishedJobs \cup {j}
    PROVE  PublishedRolesWithinPlan'
<1>1. IsFiniteSet(PublishedJobs) /\ Cardinality(PublishedJobs) \in Nat
  BY PublishedJobsFinite
<1>2. CASE j \in PublishedJobs
  <2>1. PublishedJobs' \subseteq PublishedJobs
    BY <1>2
  <2>2. Cardinality(PublishedJobs') <= Cardinality(PublishedJobs) /\ Cardinality(PublishedJobs') \in Nat
    BY <1>1, <2>1, FS_Subset, FS_CardinalityType
  <2> QED
    BY <1>1, <2>2, PublicationAssumption DEF PublishedRolesWithinPlan
<1>3. CASE j \notin PublishedJobs
  <2>1. Cardinality(PublishedJobs) < RoleLimit
    BY <1>3 DEF Admitted
  <2>2. /\ IsFiniteSet(PublishedJobs \cup {j})
        /\ Cardinality(PublishedJobs \cup {j}) = Cardinality(PublishedJobs) + 1
    BY <1>1, <1>3, FS_AddElement
  <2>3. /\ Cardinality(PublishedJobs') <= Cardinality(PublishedJobs \cup {j})
        /\ Cardinality(PublishedJobs') \in Nat
    BY <2>2, FS_Subset, FS_CardinalityType
  <2> QED
    BY <1>1, <2>1, <2>2, <2>3, PublicationAssumption DEF PublishedRolesWithinPlan
<1> QED
  BY <1>2, <1>3

LEMMA SamePublished ==
    ASSUME PublishedRolesWithinPlan, PublishedJobs' \subseteq PublishedJobs
    PROVE  PublishedRolesWithinPlan'
<1>1. IsFiniteSet(PublishedJobs) /\ Cardinality(PublishedJobs) \in Nat
  BY PublishedJobsFinite
<1>2. Cardinality(PublishedJobs') <= Cardinality(PublishedJobs) /\ Cardinality(PublishedJobs') \in Nat
  BY <1>1, FS_Subset, FS_CardinalityType
<1> QED
  BY <1>1, <1>2, PublicationAssumption DEF PublishedRolesWithinPlan

\* A call that asks for no waiver now takes none of the room for them.
LEMMA FewerWaiving ==
    ASSUME PublicationRows, waivers' = waivers, Waiving' \subseteq Waiving,
           waivers + Cardinality(Waiving) <= WaiverLimit + Cardinality(Requests)
    PROVE  waivers' + Cardinality(Waiving)' <= WaiverLimit + Cardinality(Requests)
<1>1. Cardinality(Waiving') <= Cardinality(Waiving) /\ Cardinality(Waiving') \in Nat
  BY WaivingFinite, FS_Subset, FS_CardinalityType
<1> QED
  BY <1>1, WaivingFinite, PublicationAssumption DEF PublicationRows

LEMMA SaveDraftKeeps ==
    ASSUME PublicationIInv, NEW d \in Drafts, SaveDraft(d)
    PROVE  PublicationIInv'
<1>1. PICK text \in Text, j \in (IF drafts[d] = NoDraft THEN Jobs ELSE {drafts[d].job}) :
          drafts' = [drafts EXCEPT ![d] = [status |-> "draft", text |-> text, job |-> j]]
  BY DEF SaveDraft
<1>2. /\ drafts \in [Drafts -> DraftRow] /\ drafts[d] \in DraftRow
      /\ UNCHANGED <<snapshots, requests, waivers>>
  BY DEF PublicationIInv, PublicationRows, SaveDraft
<1>3. j \in Jobs \cup {"none"}
  BY <1>2 DEF DraftRow
<1> DEFINE row == [status |-> "draft", text |-> text, job |-> j]
<1>4. row \in DraftRow /\ row.job = j /\ row.status = "draft"
  BY <1>3 DEF DraftRow, Text
<1> HIDE DEF row
<1>5. /\ drafts' \in [Drafts -> DraftRow] /\ drafts'[d] = row
      /\ \A x \in Drafts : x # d => drafts'[x] = drafts[x]
  BY <1>1, <1>2, <1>4 DEF row
<1>6. drafts[d].status # "none" => j = drafts[d].job
  BY DEF NoDraft
<1>7. \A x \in Drafts : drafts[x].status # "none" =>
          drafts'[x].job = drafts[x].job /\ drafts'[x].status # "none"
  BY <1>4, <1>5, <1>6
<1>8. \A s \in Snapshots : snapshots[s].draft \in Drafts \cup {"none"}
  BY DEF PublicationIInv, PublicationRows, SnapshotRow
<1>9. PublicationRows' /\ SnapshotsFollowDrafts'
  BY <1>2, <1>4, <1>5, <1>7, <1>8 DEF PublicationIInv, PublicationRows, SnapshotsFollowDrafts
<1>10. ASSUME NEW r \in Requests PROVE GoesByWhatLasts(r)'
  BY <1>2, <1>7 DEF PublicationIInv, GoesByWhatLasts
<1>11. Waiving' = Waiving
  BY <1>2 DEF Waiving
<1>12. PublishedJobs' = PublishedJobs
  BY <1>2 DEF PublishedJobs, Published
<1> QED
  BY <1>2, <1>9, <1>10, <1>11, <1>12
     DEF PublicationIInv, OneSnapshotPerDraft, PublishedRolesWithinPlan, OnlyScreenedIsPublished

\* A step of a call that leaves the rows alone and asks for no more waivers than it did.
LEMMA RequestGoesOn ==
    ASSUME PublicationIInv, NEW r \in Requests, UNCHANGED <<drafts, snapshots, waivers>>,
           requests' \in [Requests -> RequestRow],
           \A q \in Requests : q # r => requests'[q] = requests[q],
           GoesByWhatLasts(r)',
           waivers + Cardinality(Waiving)' <= WaiverLimit + Cardinality(Requests)
    PROVE  PublicationIInv'
<1>1. ASSUME NEW q \in Requests PROVE GoesByWhatLasts(q)'
  BY DEF PublicationIInv, GoesByWhatLasts
<1>2. PublishedJobs' = PublishedJobs
  BY DEF PublishedJobs, Published
<1> QED
  BY <1>1, <1>2
     DEF PublicationIInv, PublicationRows, SnapshotsFollowDrafts, OneSnapshotPerDraft,
         PublishedRolesWithinPlan, OnlyScreenedIsPublished

LEMMA BeginPublishKeeps ==
    ASSUME PublicationIInv, NEW r \in Requests, BeginPublish(r)
    PROVE  PublicationIInv'
<1>1. PICK d \in Drafts : /\ drafts[d].status # "none"
          /\ \E s \in IF SnapshotOf(d) = {} THEN {"none"} ELSE SnapshotOf(d) :
                requests' = [requests EXCEPT ![r] =
                   [pc |-> "screen", draft |-> d, copy |-> drafts[d], snapshot |-> s,
                    was |-> IF s = "none" THEN "none" ELSE snapshots[s].status, waive |-> FALSE]]
  BY DEF BeginPublish
<1>2. PICK s \in (IF SnapshotOf(d) = {} THEN {"none"} ELSE SnapshotOf(d)) :
                requests' = [requests EXCEPT ![r] =
                   [pc |-> "screen", draft |-> d, copy |-> drafts[d], snapshot |-> s,
                    was |-> IF s = "none" THEN "none" ELSE snapshots[s].status, waive |-> FALSE]]
  BY <1>1
<1>3. PICK was : was = IF s = "none" THEN "none" ELSE snapshots[s].status
  OBVIOUS
<1>4. /\ drafts \in [Drafts -> DraftRow] /\ drafts[d] \in DraftRow
      /\ snapshots \in [Snapshots -> SnapshotRow] /\ requests \in [Requests -> RequestRow]
      /\ UNCHANGED <<drafts, snapshots, waivers>>
  BY DEF PublicationIInv, PublicationRows, BeginPublish
<1>5. s # "none" => s \in Snapshots /\ snapshots[s].draft = d /\ snapshots[s] \in SnapshotRow
  BY <1>4 DEF SnapshotOf
<1>6. d # "none"
  BY PublicationAssumption
<1>7. s # "none" => snapshots[s].status # "none" /\ snapshots[s].job = drafts[d].job
  BY <1>5, <1>6 DEF PublicationIInv, SnapshotsFollowDrafts, NoSnapshot
<1>8. was \in {"none", "published", "paused"}
  BY <1>3, <1>5 DEF SnapshotRow
<1> DEFINE row == [pc |-> "screen", draft |-> d, copy |-> drafts[d], snapshot |-> s, was |-> was,
                   waive |-> FALSE]
<1>9. /\ row \in RequestRow
      /\ row.pc = "screen" /\ row.draft = d /\ row.copy = drafts[d] /\ row.snapshot = s
      /\ ~row.waive
  BY <1>4, <1>5, <1>8 DEF RequestRow
<1>10. requests' = [requests EXCEPT ![r] = row]
  BY <1>2, <1>3
<1> HIDE DEF row
<1>11. /\ requests' \in [Requests -> RequestRow] /\ requests'[r] = row
       /\ \A q \in Requests : q # r => requests'[q] = requests[q]
  BY <1>4, <1>9, <1>10
<1>12. GoesByWhatLasts(r)'
  BY <1>1, <1>4, <1>7, <1>9, <1>11 DEF GoesByWhatLasts
<1>13. Waiving' \subseteq Waiving
  BY <1>9, <1>11 DEF Waiving
<1>14. waivers + Cardinality(Waiving)' <= WaiverLimit + Cardinality(Requests)
  BY <1>4, <1>13, FewerWaiving DEF PublicationIInv
<1> QED
  BY <1>4, <1>11, <1>12, <1>14, RequestGoesOn

\* A call that has ended.
LEMMA RequestEnds ==
    ASSUME PublicationRows, NEW r \in Requests, requests' = [requests EXCEPT ![r] = NoRequest]
    PROVE  /\ requests' \in [Requests -> RequestRow]
           /\ requests'[r].pc = "none"
           /\ \A q \in Requests : q # r => requests'[q] = requests[q]
           /\ GoesByWhatLasts(r)'
           /\ Waiving' = Waiving \ {r}
<1>1. NoRequest \in RequestRow /\ NoRequest.pc = "none" /\ ~NoRequest.waive
  BY DEF NoRequest, RequestRow, NoDraft, DraftRow
<1>2. requests \in [Requests -> RequestRow]
  BY DEF PublicationRows
<1>3. requests' \in [Requests -> RequestRow] /\ requests'[r] = NoRequest
  BY <1>1, <1>2
<1> QED
  BY <1>1, <1>2, <1>3 DEF GoesByWhatLasts, Waiving

LEMMA RefuseKeeps ==
    ASSUME PublicationIInv, NEW r \in Requests, requests' = [requests EXCEPT ![r] = NoRequest],
           UNCHANGED <<drafts, snapshots, waivers>>
    PROVE  PublicationIInv'
<1>1. PublicationRows
  BY DEF PublicationIInv
<1>2. waivers + Cardinality(Waiving)' <= WaiverLimit + Cardinality(Requests)
  <2>1. Waiving' \subseteq Waiving
    BY <1>1, RequestEnds
  <2> QED
    BY <1>1, <2>1, FewerWaiving DEF PublicationIInv
<1> QED
  BY <1>1, <1>2, RequestEnds, RequestGoesOn

LEMMA ScreenPlanKeeps ==
    ASSUME PublicationIInv, NEW r \in Requests, ScreenPlan(r)
    PROVE  PublicationIInv'
<1>1. CASE requests' = [requests EXCEPT ![r] = NoRequest]
  BY <1>1, RefuseKeeps DEF ScreenPlan
<1>2. CASE LET text == requests[r].copy.text
           IN  /\ text = "clean" \/ Waivable(text)
               /\ requests' = [requests EXCEPT ![r].pc = "write", ![r].waive = text # "clean"]
  <2> DEFINE text == requests[r].copy.text
  <2>1. /\ requests \in [Requests -> RequestRow] /\ requests[r] \in RequestRow
        /\ requests[r].pc = "screen" /\ UNCHANGED <<drafts, snapshots, waivers>>
    BY DEF PublicationIInv, PublicationRows, ScreenPlan
  <2>2. PICK asks \in BOOLEAN : asks = (text # "clean")
    OBVIOUS
  <2>3. /\ text = "clean" \/ (text = "sensitive" /\ waivers < WaiverLimit)
        /\ requests' = [requests EXCEPT ![r].pc = "write", ![r].waive = asks]
    BY <1>2, <2>2 DEF Waivable
  <2>4. /\ requests' \in [Requests -> RequestRow]
        /\ \A q \in Requests : q # r => requests'[q] = requests[q]
        /\ requests'[r].pc = "write" /\ requests'[r].waive = asks
        /\ requests'[r].draft = requests[r].draft /\ requests'[r].copy = requests[r].copy
        /\ requests'[r].snapshot = requests[r].snapshot
    BY <2>1, <2>3 DEF RequestRow
  <2>5. GoesByWhatLasts(r)
    BY DEF PublicationIInv
  <2>6. GoesByWhatLasts(r)'
    BY <2>1, <2>2, <2>3, <2>4, <2>5 DEF GoesByWhatLasts
  <2>7. waivers + Cardinality(Waiving)' <= WaiverLimit + Cardinality(Requests)
    <3>1. CASE text = "clean"
      <4>1. Waiving' \subseteq Waiving
        BY <2>2, <2>4, <3>1 DEF Waiving
      <4> QED
        BY <2>1, <4>1, FewerWaiving DEF PublicationIInv
    <3>2. CASE text # "clean"
      <4>1. Waiving' \subseteq Requests
        BY DEF Waiving
      <4>2. Cardinality(Waiving') <= Cardinality(Requests) /\ Cardinality(Waiving') \in Nat
        BY <4>1, PublicationAssumption, FS_Subset, FS_CardinalityType
      <4> QED
        BY <2>3, <3>2, <4>2, WaivingFinite, PublicationAssumption DEF PublicationIInv, PublicationRows
    <3> QED
      BY <3>1, <3>2
  <2> QED
    BY <2>1, <2>4, <2>6, <2>7, RequestGoesOn
<1> QED
  BY <1>1, <1>2 DEF ScreenPlan

\* A snapshot that is there is published or paused; whose role it is and what it asks stay.
LEMMA StatusChangeKeeps ==
    ASSUME PublicationIInv, NEW s \in Snapshots, snapshots[s].status # "none",
           NEW status \in {"published", "paused"},
           snapshots' = [snapshots EXCEPT ![s].status = status],
           status = "published" => Admitted(snapshots[s].job),
           UNCHANGED <<drafts, waivers>>,
           requests' \in [Requests -> RequestRow],
           \A q \in Requests : requests'[q] = requests[q] \/ GoesByWhatLasts(q)',
           Waiving' \subseteq Waiving
    PROVE  PublicationIInv'
<1>1. snapshots \in [Snapshots -> SnapshotRow] /\ snapshots[s] \in SnapshotRow
  BY DEF PublicationIInv, PublicationRows
<1>2. /\ snapshots' \in [Snapshots -> SnapshotRow]
      /\ \A x \in Snapshots : x # s => snapshots'[x] = snapshots[x]
      /\ snapshots'[s].status = status /\ snapshots'[s].job = snapshots[s].job
      /\ snapshots'[s].draft = snapshots[s].draft /\ snapshots'[s].text = snapshots[s].text
      /\ snapshots'[s].waived = snapshots[s].waived
  BY <1>1 DEF SnapshotRow
<1>3. PublicationRows' /\ SnapshotsFollowDrafts' /\ OneSnapshotPerDraft'
  BY <1>2 DEF PublicationIInv, PublicationRows, SnapshotsFollowDrafts, OneSnapshotPerDraft
<1>4. ASSUME NEW q \in Requests PROVE GoesByWhatLasts(q)'
  BY <1>2 DEF PublicationIInv, GoesByWhatLasts
<1>5. PublishedRolesWithinPlan'
  <2>1. CASE status = "published"
    <3>1. PublishedJobs' \subseteq PublishedJobs \cup {snapshots[s].job}
      BY <1>2 DEF PublishedJobs, Published
    <3> QED
      BY <2>1, <3>1, AdmittedFits DEF PublicationIInv
  <2>2. CASE status = "paused"
    <3>1. PublishedJobs' \subseteq PublishedJobs
      BY <1>2, <2>2 DEF PublishedJobs, Published
    <3> QED
      BY <3>1, SamePublished DEF PublicationIInv
  <2> QED
    BY <2>1, <2>2
<1>6. OnlyScreenedIsPublished'
  <2> SUFFICES ASSUME NEW x \in Snapshots, snapshots'[x] # NoSnapshot
               PROVE  \/ snapshots'[x].text = "clean"
                      \/ snapshots'[x].text = "sensitive" /\ snapshots'[x].waived
    BY DEF OnlyScreenedIsPublished
  <2>1. snapshots[x] # NoSnapshot
    <3>1. snapshots[s] # NoSnapshot
      BY DEF NoSnapshot
    <3>2. x # s => snapshots[x] # NoSnapshot
      BY <1>2
    <3> QED
      BY <3>1, <3>2
  <2> QED
    BY <1>2, <2>1 DEF PublicationIInv, OnlyScreenedIsPublished
<1>7. waivers + Cardinality(Waiving)' <= WaiverLimit + Cardinality(Requests)
  BY FewerWaiving DEF PublicationIInv
<1> QED
  BY <1>3, <1>4, <1>5, <1>6, <1>7 DEF PublicationIInv

LEMMA PauseResumeKeep ==
    ASSUME PublicationIInv, NEW s \in Snapshots, Pause(s) \/ Resume(s)
    PROVE  PublicationIInv'
<1>1. snapshots[s].status # "none" /\ requests' = requests /\ UNCHANGED <<drafts, waivers>>
  BY DEF PublicationIInv, SnapshotsFollowDrafts, Pause, Resume
<1>2. requests' \in [Requests -> RequestRow] /\ Waiving' \subseteq Waiving
  BY <1>1 DEF PublicationIInv, PublicationRows, Waiving
<1>3. \/ snapshots' = [snapshots EXCEPT ![s].status = "paused"]
      \/ snapshots' = [snapshots EXCEPT ![s].status = "published"] /\ Admitted(snapshots[s].job)
  BY DEF Pause, Resume
<1> QED
  BY <1>1, <1>2, <1>3, StatusChangeKeeps

LEMMA ReturnedKeeps ==
    ASSUME PublicationIInv, NEW r \in Requests, NEW s \in Snapshots, requests[r].pc = "write",
           requests' = [requests EXCEPT ![r] = NoRequest],
           Admitted(requests[r].copy.job), Returned(r, s)
    PROVE  PublicationIInv'
<1>1. s # "none" /\ s = requests[r].snapshot /\ UNCHANGED <<drafts, waivers>>
  BY PublicationAssumption DEF Returned
<1>2. snapshots[s].status # "none" /\ snapshots[s].job = requests[r].copy.job
  BY <1>1 DEF PublicationIInv, GoesByWhatLasts
<1>3. PublicationRows
  BY DEF PublicationIInv
<1>4. CASE snapshots' = snapshots
  BY <1>1, <1>4, RefuseKeeps
<1>5. CASE snapshots' = [snapshots EXCEPT ![s].status = "published"]
  BY <1>1, <1>2, <1>3, <1>5, RequestEnds, StatusChangeKeeps
<1> QED
  BY <1>4, <1>5 DEF Returned

LEMMA CreatedKeeps ==
    ASSUME PublicationIInv, NEW r \in Requests, NEW s \in Snapshots, requests[r].pc = "write",
           requests' = [requests EXCEPT ![r] = NoRequest],
           Admitted(requests[r].copy.job), Created(r, s)
    PROVE  PublicationIInv'
<1> DEFINE q == requests[r]
           d == q.draft
           old == q.snapshot
           new == [status |-> "published", job |-> q.copy.job, draft |-> d, text |-> q.copy.text,
                   waived |-> q.waive]
<1>1. /\ drafts \in [Drafts -> DraftRow] /\ snapshots \in [Snapshots -> SnapshotRow]
      /\ requests \in [Requests -> RequestRow] /\ q \in RequestRow /\ waivers \in Nat
      /\ q.copy \in DraftRow
  BY DEF PublicationIInv, PublicationRows, RequestRow
<1>2. /\ d \in Drafts /\ d # "none"
      /\ drafts[d].status # "none" /\ q.copy.job = drafts[d].job
      /\ old # "none" => snapshots[old].status # "none" /\ snapshots[old].job = q.copy.job
      /\ q.copy.text = "clean" \/ (q.copy.text = "sensitive" /\ q.waive)
  BY PublicationAssumption DEF PublicationIInv, GoesByWhatLasts
<1>3. /\ new \in SnapshotRow /\ new.status = "published" /\ new.job = q.copy.job /\ new.draft = d
      /\ new.text = q.copy.text /\ new.waived = q.waive
  BY <1>1, <1>2 DEF SnapshotRow, DraftRow, RequestRow, Text
<1>4. /\ snapshots' = [x \in Snapshots |->
              IF x = s THEN new
              ELSE IF x = old THEN [snapshots[x] EXCEPT !.draft = "none"]
              ELSE snapshots[x]]
      /\ snapshots[s] = NoSnapshot
      /\ \A x \in Snapshots : snapshots[x].draft = d => x = old
      /\ drafts' = [drafts EXCEPT ![d].status = "published"]
      /\ waivers' = IF q.waive THEN waivers + 1 ELSE waivers
  BY DEF Created, PublishedText, SnapshotOf
<1> HIDE DEF new
<1>5. /\ drafts' \in [Drafts -> DraftRow]
      /\ \A x \in Drafts : drafts'[x].job = drafts[x].job
      /\ \A x \in Drafts : x # d => drafts'[x] = drafts[x]
      /\ drafts'[d].status = "published"
  BY <1>1, <1>2, <1>4 DEF DraftRow
<1>6. s # old \/ old = "none"
  BY <1>2, <1>4 DEF NoSnapshot
<1>7. s # old
  BY <1>6, PublicationAssumption
<1>8. ASSUME NEW x \in Snapshots, x = old
      PROVE  /\ snapshots'[x] \in SnapshotRow
             /\ snapshots'[x].status = snapshots[x].status /\ snapshots'[x].job = snapshots[x].job
             /\ snapshots'[x].draft = "none" /\ snapshots'[x].text = snapshots[x].text
             /\ snapshots'[x].waived = snapshots[x].waived
             /\ snapshots[x].status # "none"
  <2>1. snapshots'[x] = [snapshots[x] EXCEPT !.draft = "none"] /\ snapshots[x] \in SnapshotRow
    BY <1>1, <1>4, <1>7, <1>8
  <2>2. old # "none"
    BY <1>8, PublicationAssumption
  <2> QED
    BY <1>2, <1>8, <2>1, <2>2 DEF SnapshotRow
<1>9. snapshots'[s] = new /\ \A x \in Snapshots : x # s /\ x # old => snapshots'[x] = snapshots[x]
  BY <1>4
<1>10. snapshots' \in [Snapshots -> SnapshotRow]
  <2>1. \A x \in Snapshots : snapshots'[x] \in SnapshotRow
    BY <1>1, <1>3, <1>8, <1>9
  <2>2. snapshots' = [x \in Snapshots |-> snapshots'[x]]
    BY <1>4
  <2> QED
    BY <2>1, <2>2
<1>11. PublicationRows
  BY DEF PublicationIInv
<1>12. PublicationRows'
  <2>1. waivers' \in Nat
    BY <1>1, <1>4
  <2>2. requests' \in [Requests -> RequestRow]
    BY <1>11, RequestEnds
  <2> QED
    BY <1>5, <1>10, <2>1, <2>2 DEF PublicationRows
<1>13. \A x \in Snapshots : snapshots[x].draft \in Drafts \cup {"none"}
  BY <1>1 DEF SnapshotRow
<1>14. SnapshotsFollowDrafts'
  <2>1. \A x \in Drafts : drafts'[x].status = "none" => drafts'[x] = NoDraft
    BY <1>5 DEF PublicationIInv, SnapshotsFollowDrafts
  <2>2. ASSUME NEW x \in Snapshots
        PROVE  /\ snapshots'[x].status = "none" => snapshots'[x] = NoSnapshot
               /\ snapshots'[x].draft # "none" =>
                     /\ snapshots'[x].job = drafts'[snapshots'[x].draft].job
                     /\ drafts'[snapshots'[x].draft].status # "none"
    <3>1. CASE x = s
      BY <1>2, <1>3, <1>5, <1>9, <3>1
    <3>2. CASE x = old
      BY <1>8, <3>2
    <3>3. CASE x # s /\ x # old
      BY <1>2, <1>5, <1>9, <1>13, <3>3 DEF PublicationIInv, SnapshotsFollowDrafts
    <3> QED
      BY <3>1, <3>2, <3>3
  <2> QED
    BY <2>1, <2>2 DEF SnapshotsFollowDrafts
<1>15. OneSnapshotPerDraft'
  <2>1. \A x \in Snapshots : x # s => snapshots'[x].draft = "none" \/
                                         (snapshots'[x].draft = snapshots[x].draft /\ snapshots[x].draft # d)
    BY <1>4, <1>8, <1>9
  <2> QED
    BY <1>2, <1>3, <1>9, <2>1 DEF PublicationIInv, OneSnapshotPerDraft
<1>16. ASSUME NEW p \in Requests PROVE GoesByWhatLasts(p)'
  <2>1. CASE p = r
    BY <1>11, <2>1, RequestEnds
  <2>2. CASE p # r
    <3>1. requests'[p] = requests[p] /\ GoesByWhatLasts(p) /\ requests[p] \in RequestRow
      BY <1>1, <1>11, <2>2, RequestEnds DEF PublicationIInv
    <3>2. \A x \in Snapshots : snapshots[x].status # "none" =>
              snapshots'[x].status # "none" /\ snapshots'[x].job = snapshots[x].job
      BY <1>4, <1>8, <1>9 DEF NoSnapshot
    <3>3. requests[p].snapshot \in Snapshots \cup {"none"}
      BY <3>1 DEF RequestRow
    <3> QED
      BY <1>5, <3>1, <3>2, <3>3 DEF GoesByWhatLasts
  <2> QED
    BY <2>1, <2>2
<1>17. PublishedRolesWithinPlan'
  <2>1. PublishedJobs' \subseteq PublishedJobs \cup {q.copy.job}
    BY <1>3, <1>8, <1>9 DEF PublishedJobs, Published
  <2> QED
    BY <2>1, AdmittedFits DEF PublicationIInv
<1>18. OnlyScreenedIsPublished'
  <2> SUFFICES ASSUME NEW x \in Snapshots, snapshots'[x] # NoSnapshot
               PROVE  \/ snapshots'[x].text = "clean"
                      \/ snapshots'[x].text = "sensitive" /\ snapshots'[x].waived
    BY DEF OnlyScreenedIsPublished
  <2>1. CASE x = s
    BY <1>2, <1>3, <1>9, <2>1
  <2>2. CASE x = old
    <3>1. snapshots[x] # NoSnapshot
      BY <1>8, <2>2 DEF NoSnapshot
    <3> QED
      BY <1>8, <2>2, <3>1 DEF PublicationIInv, OnlyScreenedIsPublished
  <2>3. CASE x # s /\ x # old
    BY <1>9, <2>3 DEF PublicationIInv, OnlyScreenedIsPublished
  <2> QED
    BY <2>1, <2>2, <2>3
<1>19. waivers' + Cardinality(Waiving)' <= WaiverLimit + Cardinality(Requests)
  <2>1. Waiving' = Waiving \ {r}
    BY <1>11, RequestEnds
  <2>2. CASE q.waive
    <3>1. r \in Waiving
      BY <2>2 DEF Waiving
    <3>2. Cardinality(Waiving') = Cardinality(Waiving) - 1
      BY <2>1, <3>1, WaivingFinite, FS_RemoveElement
    <3> QED
      BY <1>1, <1>4, <2>2, <3>2, WaivingFinite DEF PublicationIInv
  <2>3. CASE ~q.waive
    BY <1>4, <1>11, <2>1, <2>3, FewerWaiving DEF PublicationIInv
  <2> QED
    BY <2>2, <2>3
<1> QED
  BY <1>12, <1>14, <1>15, <1>16, <1>17, <1>18, <1>19 DEF PublicationIInv

LEMMA PublicationKeepsInvariant == PublicationIInv /\ [PublicationNext]_publicationVars => PublicationIInv'
<1> SUFFICES ASSUME PublicationIInv, [PublicationNext]_publicationVars PROVE PublicationIInv'
  OBVIOUS
<1>1. ASSUME NEW r \in Requests, Publish(r) PROVE PublicationIInv'
  <2>1. PICK s \in Snapshots : Returned(r, s) \/ Created(r, s)
    BY <1>1 DEF Publish
  <2> QED
    BY <1>1, <2>1, ReturnedKeeps, CreatedKeeps DEF Publish
<1>2. ASSUME NEW r \in Requests, Refuse(r) PROVE PublicationIInv'
  BY <1>2, RefuseKeeps DEF Refuse
<1>3. CASE PublicationNext
  BY <1>1, <1>2, <1>3, SaveDraftKeeps, BeginPublishKeeps, ScreenPlanKeeps, PauseResumeKeep, Zenon
     DEF PublicationNext
<1>4. CASE UNCHANGED publicationVars
  <2>1. UNCHANGED <<drafts, snapshots, requests, waivers>>
    BY <1>4 DEF publicationVars
  <2>2. Waiving' = Waiving /\ PublishedJobs' = PublishedJobs
    BY <2>1 DEF Waiving, PublishedJobs, Published
  <2> QED
    BY <2>1, <2>2
       DEF PublicationIInv, PublicationRows, SnapshotsFollowDrafts, OneSnapshotPerDraft,
           GoesByWhatLasts, PublishedRolesWithinPlan, OnlyScreenedIsPublished
<1> QED
  BY <1>3, <1>4

\* Whatever is saved over a draft while it is being published, however many tabs publish,
\* pause and resume, the workspace stays within its plan and nothing is published that was
\* not screened.
THEOREM PublishingIsScreenedAndWithinPlan == PublicationSpec => []PublicationInv
<1>1. PublicationSpec => []PublicationIInv
  BY PublicationInitially, PublicationKeepsInvariant, PTL DEF PublicationSpec
<1> QED
  BY <1>1, PublicationInvFollows, PTL

-----------------------------------------------------------------------------
(* The public demo.  The counter of the day counts reservations, and a     *)
(* room carries the end of its reservation: a demo let in is counted on    *)
(* the day its room ends, less the time it runs, whether the answer about  *)
(* the room was heard or not.                                              *)

\* The end of what was reserved: the room's own once there is one.
ReservedUntil(d) ==
    IF demoRooms[d].status = "none" THEN previews[d].runtime ELSE demoRooms[d].until

ReservedOn(day) ==
    {d \in Demos : starts[d] # "idle" /\ (ReservedUntil(d) - RuntimeTtl) \div Day = day}

\* A demo goes forward only: reserved, opened, completed, handed over, erased.
DemoGoesForward(d) ==
    /\ starts[d] = "idle" => demoRooms[d].status = "none" /\ previews[d].runtime = 0
    /\ starts[d] = "provision" => demoRooms[d].status = "none"
    /\ starts[d] # "idle" => previews[d].state # "none"
    /\ starts[d] # "idle" /\ demoRooms[d].status = "none" => previews[d].state = "open"
    /\ demoRooms[d].status = "open" =>
          previews[d].state = "open" /\ demoRooms[d].until = previews[d].runtime
    /\ previews[d].completed \/ previews[d].state = "gone" => demoRooms[d].status = "completed"
    /\ relays[d].state # "none" \/ relays[d].shown \/ handoffs[d] # "idle" =>
          demoRooms[d].status = "completed"
    /\ relays[d].shown \/ handoffs[d] = "complete" => ~demoRooms[d].transcript

DemoIInv ==
    /\ DemoTypeOK
    /\ \A d \in Demos : DemoGoesForward(d)
    /\ Cardinality(Holding) <= ConcurrentCap
    /\ \A day \in Days : Cardinality(ReservedOn(day)) <= startedOn[day] /\ startedOn[day] <= DailyCap

LEMMA DemoSetsFinite ==
    /\ IsFiniteSet(Holding) /\ Cardinality(Holding) \in Nat
    /\ \A day \in Days : IsFiniteSet(ReservedOn(day)) /\ Cardinality(ReservedOn(day)) \in Nat
<1>1. Holding \subseteq Demos /\ \A day \in Days : ReservedOn(day) \subseteq Demos
  BY DEF Holding, ReservedOn
<1> QED
  BY <1>1, DemoAssumption, FS_Subset, FS_CardinalityType

LEMMA DemoInitially == DemoInit => DemoIInv
<1> SUFFICES ASSUME DemoInit PROVE DemoIInv
  OBVIOUS
<1>1. DemoTypeOK
  BY DemoAssumption DEF DemoInit, DemoTypeOK, PreviewRow, RoomRow, RelayRow
<1>2. \A d \in Demos : DemoGoesForward(d)
  BY DEF DemoInit, DemoGoesForward
<1>3. Holding = {} /\ \A day \in Days : ReservedOn(day) = {}
  BY DEF DemoInit, Holding, ReservedOn
<1>4. Cardinality(Holding) = 0 /\ \A day \in Days : Cardinality(ReservedOn(day)) = 0
  BY <1>3, FS_EmptySet
<1> QED
  BY <1>1, <1>2, <1>4, DemoAssumption DEF DemoIInv, DemoInit

LEMMA DemoInvFollows == DemoIInv => DemoInv
<1> SUFFICES ASSUME DemoIInv PROVE DemoInv
  OBVIOUS
<1>1. Cardinality({d \in Demos : Alive(d)}) <= ConcurrentCap
  <2> DEFINE Open == {d \in Demos : Alive(d)}
  <2>1. Open \subseteq Holding
    BY DemoAssumption DEF DemoIInv, DemoTypeOK, DemoGoesForward, Alive, Holding, RoomRow, PreviewRow
  <2>2. Cardinality(Open) <= Cardinality(Holding) /\ Cardinality(Open) \in Nat
    BY <2>1, DemoSetsFinite, FS_Subset, FS_CardinalityType
  <2> QED
    BY <2>2, DemoSetsFinite, DemoAssumption DEF DemoIInv
<1>2. ASSUME NEW day \in Days
      PROVE  Cardinality({d \in Demos : demoRooms[d].status # "none"
                          /\ (demoRooms[d].until - RuntimeTtl) \div Day = day}) <= DailyCap
  <2> DEFINE In == {d \in Demos : demoRooms[d].status # "none"
                          /\ (demoRooms[d].until - RuntimeTtl) \div Day = day}
  <2>1. In \subseteq ReservedOn(day)
    BY DEF DemoIInv, DemoGoesForward, ReservedOn, ReservedUntil
  <2>2. Cardinality(In) <= Cardinality(ReservedOn(day)) /\ Cardinality(In) \in Nat
    BY <2>1, DemoSetsFinite, FS_Subset, FS_CardinalityType
  <2>3. startedOn[day] \in Nat
    BY DEF DemoIInv, DemoTypeOK
  <2> QED
    BY <2>2, <2>3, DemoSetsFinite, DemoAssumption DEF DemoIInv
<1>3. CodeMeansErased
  BY DEF DemoIInv, DemoGoesForward, CodeMeansErased
<1> QED
  BY <1>1, <1>2, <1>3 DEF DemoInv, DemoIsContained, DemoRoomsWithinCap, DemoIInv

\* A step of one demo that reserves nothing: it counts for no more than it did.
LEMMA DemoStepKeeps ==
    ASSUME DemoIInv, NEW d \in Demos, DemoTypeOK', UNCHANGED <<startedOn, demoClock>>,
           \A x \in Demos : x # d =>
              /\ previews'[x] = previews[x] /\ demoRooms'[x] = demoRooms[x]
              /\ relays'[x] = relays[x] /\ starts'[x] = starts[x] /\ handoffs'[x] = handoffs[x],
           starts'[d] = "idle" <=> starts[d] = "idle",
           starts[d] # "idle" => ReservedUntil(d)' = ReservedUntil(d),
           d \in Holding' => d \in Holding,
           DemoGoesForward(d)'
    PROVE  DemoIInv'
<1>1. ASSUME NEW x \in Demos PROVE DemoGoesForward(x)'
  BY DEF DemoIInv, DemoGoesForward
<1>2. Holding' \subseteq Holding
  BY DEF Holding
<1>3. \A day \in Days : ReservedOn(day)' = ReservedOn(day)
  BY DEF ReservedOn, ReservedUntil
<1>4. Cardinality(Holding') <= Cardinality(Holding) /\ Cardinality(Holding') \in Nat
  BY <1>2, DemoSetsFinite, FS_Subset, FS_CardinalityType
<1>5. Cardinality(Holding)' <= ConcurrentCap
  BY <1>4, DemoSetsFinite, DemoAssumption DEF DemoIInv
<1> QED
  BY <1>1, <1>3, <1>5 DEF DemoIInv, Days

LEMMA CreatePreviewKeeps ==
    ASSUME DemoIInv, NEW d \in Demos, CreatePreview(d)
    PROVE  DemoIInv'
<1>1. /\ DemoTypeOK /\ DemoGoesForward(d) /\ previews[d] \in PreviewRow
      /\ demoClock + AccessTtl \in Nat /\ demoClock \in Nat
      /\ UNCHANGED <<demoRooms, relays, starts, handoffs, startedOn, demoClock>>
  BY DemoAssumption DEF DemoIInv, DemoTypeOK, CreatePreview
<1>2. /\ previews' \in [Demos -> PreviewRow]
      /\ \A x \in Demos : x # d => previews'[x] = previews[x]
      /\ previews'[d].state = "open" /\ previews'[d].runtime = previews[d].runtime
      /\ previews'[d].completed = previews[d].completed
  BY <1>1 DEF CreatePreview, DemoTypeOK, PreviewRow
<1>3. starts[d] = "idle" /\ previews[d].runtime = 0
  BY <1>1 DEF CreatePreview, DemoGoesForward
<1>4. DemoTypeOK'
  BY <1>1, <1>2 DEF DemoTypeOK
<1>5. DemoGoesForward(d)'
  BY <1>1, <1>2, <1>3 DEF DemoGoesForward
<1>6. d \notin Holding'
  BY <1>1, <1>2, <1>3 DEF Holding
<1> QED
  BY <1>1, <1>2, <1>3, <1>4, <1>5, <1>6, DemoStepKeeps

LEMMA ReserveStartKeeps ==
    ASSUME DemoIInv, NEW d \in Demos, ReserveStart(d)
    PROVE  DemoIInv'
<1>1. /\ DemoTypeOK /\ DemoGoesForward(d) /\ previews[d] \in PreviewRow
      /\ demoClock + RuntimeTtl \in Nat /\ demoClock \in Nat /\ RuntimeTtl \in Nat
      /\ UNCHANGED <<demoRooms, relays, handoffs, demoClock>>
      /\ starts[d] = "idle" /\ demoRooms[d].status = "none"
  BY DemoAssumption DEF DemoIInv, DemoTypeOK, ReserveStart, DemoGoesForward
<1>2. /\ previews' \in [Demos -> PreviewRow]
      /\ \A x \in Demos : x # d => previews'[x] = previews[x]
      /\ previews'[d].state = "open" /\ previews'[d].runtime = demoClock + RuntimeTtl
      /\ previews'[d].completed = previews[d].completed
  BY <1>1 DEF ReserveStart, DemoTypeOK, PreviewRow
<1>3. /\ starts' \in [Demos -> {"idle", "provision", "confirm", "done"}] /\ starts'[d] = "provision"
      /\ \A x \in Demos : x # d => starts'[x] = starts[x]
  BY <1>1 DEF ReserveStart, DemoTypeOK
<1>4. /\ startedOn' \in [Days -> Nat]
      /\ \A day \in Days : startedOn[day] \in Nat
      /\ \A day \in Days : day # Today => startedOn'[day] = startedOn[day]
      /\ Today \in Days => startedOn'[Today] = startedOn[Today] + 1
  <2>1. startedOn \in [Days -> Nat]
    BY <1>1 DEF DemoTypeOK
  <2>2. PICK today : today = Today
    OBVIOUS
  <2>3. startedOn' = [startedOn EXCEPT ![today] = startedOn[today] + 1]
    BY <2>2 DEF ReserveStart
  <2>4. CASE today \in Days
    <3>1. startedOn[today] + 1 \in Nat
      BY <2>1, <2>4
    <3> QED
      BY <2>1, <2>2, <2>3, <2>4, <3>1
  <2>5. CASE today \notin Days
    BY <2>1, <2>2, <2>3, <2>5
  <2> QED
    BY <2>4, <2>5
<1>5. DemoTypeOK'
  BY <1>1, <1>2, <1>3, <1>4 DEF DemoTypeOK, Days
<1>6. ASSUME NEW x \in Demos PROVE DemoGoesForward(x)'
  <2>1. CASE x = d
    BY <1>1, <1>2, <1>3, <2>1 DEF DemoGoesForward
  <2>2. CASE x # d
    BY <1>1, <1>2, <1>3, <2>2 DEF DemoIInv, DemoGoesForward
  <2> QED
    BY <2>1, <2>2
<1>7. Cardinality(Holding)' <= ConcurrentCap
  <2>1. Holding' \subseteq Holding \cup {d}
    BY <1>1, <1>2 DEF Holding
  <2>2. Cardinality(Holding) < ConcurrentCap
    BY DEF ReserveStart, RoomLeft
  <2>3. /\ IsFiniteSet(Holding \cup {d})
        /\ Cardinality(Holding \cup {d}) <= Cardinality(Holding) + 1
        /\ Cardinality(Holding \cup {d}) \in Nat
    <3>1. IsFiniteSet(Holding) /\ Cardinality(Holding) \in Nat
      BY DemoSetsFinite
    <3>2. /\ IsFiniteSet(Holding \cup {d})
          /\ Cardinality(Holding \cup {d}) =
                IF d \in Holding THEN Cardinality(Holding) ELSE Cardinality(Holding) + 1
      BY <3>1, FS_AddElement
    <3> QED
      BY <3>1, <3>2
  <2>4. Cardinality(Holding') <= Cardinality(Holding \cup {d}) /\ Cardinality(Holding') \in Nat
    BY <2>1, <2>3, FS_Subset, FS_CardinalityType
  <2> QED
    BY <2>2, <2>3, <2>4, DemoSetsFinite, DemoAssumption
<1>8. ASSUME NEW day \in Days
      PROVE  Cardinality(ReservedOn(day))' <= startedOn'[day] /\ startedOn'[day] <= DailyCap
  <2>1. \A x \in Demos : x # d => ReservedUntil(x)' = ReservedUntil(x)
    BY <1>1, <1>2 DEF ReservedUntil
  <2>2. ReservedUntil(d)' - RuntimeTtl = demoClock
    BY <1>1, <1>2 DEF ReservedUntil
  <2>3. d \notin ReservedOn(day)
    BY <1>1 DEF ReservedOn
  <2>4. ReservedOn(day)' = IF day = Today THEN ReservedOn(day) \cup {d} ELSE ReservedOn(day)
    <3>1. ASSUME NEW x \in Demos, x # d
          PROVE  x \in ReservedOn(day)' <=> x \in ReservedOn(day)
      BY <1>3, <2>1, <3>1 DEF ReservedOn
    <3>2. d \in ReservedOn(day)' <=> day = Today
      BY <1>3, <2>2 DEF ReservedOn, Today
    <3>3. ReservedOn(day)' \subseteq Demos /\ ReservedOn(day) \subseteq Demos
      BY DEF ReservedOn
    <3> QED
      BY <2>3, <3>1, <3>2, <3>3
  <2>5. Cardinality(ReservedOn(day)) <= startedOn[day] /\ startedOn[day] <= DailyCap
    BY DEF DemoIInv
  <2>6. CASE day = Today
    <3>1. Cardinality(ReservedOn(day)') = Cardinality(ReservedOn(day)) + 1
      BY <2>3, <2>4, <2>6, DemoSetsFinite, FS_AddElement
    <3>2. startedOn[day] < DailyCap
      BY <2>6 DEF ReserveStart, RoomLeft
    <3> QED
      BY <1>4, <2>5, <2>6, <3>1, <3>2, DemoSetsFinite, DemoAssumption
  <2>7. CASE day # Today
    BY <1>4, <2>4, <2>5, <2>7
  <2> QED
    BY <2>6, <2>7
<1> QED
  BY <1>5, <1>6, <1>7, <1>8 DEF DemoIInv, Days

LEMMA ProvisionRoomKeeps ==
    ASSUME DemoIInv, NEW d \in Demos, ProvisionRoom(d)
    PROVE  DemoIInv'
<1> DEFINE room == [status |-> "open", until |-> previews[d].runtime, transcript |-> TRUE]
<1>1. /\ DemoTypeOK /\ DemoGoesForward(d) /\ previews[d] \in PreviewRow
      /\ starts[d] = "provision" /\ demoRooms[d].status = "none"
      /\ previews[d].state = "open"
      /\ UNCHANGED <<previews, relays, handoffs, startedOn, demoClock>>
  BY DEF DemoIInv, DemoTypeOK, ProvisionRoom, DemoGoesForward
<1>2. /\ starts' \in [Demos -> {"idle", "provision", "confirm", "done"}]
      /\ starts'[d] \in {"confirm", "done"}
      /\ \A x \in Demos : x # d => starts'[x] = starts[x]
  BY <1>1 DEF ProvisionRoom, DemoTypeOK
<1>3. /\ room \in RoomRow /\ room.status = "open" /\ room.until = previews[d].runtime
  BY <1>1 DEF RoomRow, PreviewRow
<1>4. demoRooms' = demoRooms \/ demoRooms' = [demoRooms EXCEPT ![d] = room]
  BY DEF ProvisionRoom
<1> HIDE DEF room
<1>5. /\ demoRooms' \in [Demos -> RoomRow]
      /\ \A x \in Demos : x # d => demoRooms'[x] = demoRooms[x]
      /\ demoRooms'[d] = demoRooms[d] \/ demoRooms'[d] = room
  BY <1>1, <1>3, <1>4 DEF DemoTypeOK
<1>6. DemoTypeOK'
  BY <1>1, <1>2, <1>5 DEF DemoTypeOK
<1>7. DemoGoesForward(d)'
  BY <1>1, <1>2, <1>3, <1>5 DEF DemoGoesForward
<1>8. ReservedUntil(d)' = ReservedUntil(d)
  BY <1>1, <1>3, <1>5 DEF ReservedUntil
<1>9. Holding' = Holding
  BY <1>1 DEF Holding
<1> QED
  BY <1>1, <1>2, <1>5, <1>6, <1>7, <1>8, <1>9, DemoStepKeeps

LEMMA FiledOrDroppedKeeps ==
    ASSUME DemoIInv, NEW d \in Demos, ConfirmRoom(d) \/ DropStart(d)
    PROVE  DemoIInv'
<1>1. /\ DemoTypeOK /\ DemoGoesForward(d) /\ previews[d] \in PreviewRow
      /\ starts[d] # "idle" /\ starts' = [starts EXCEPT ![d] = "done"]
      /\ UNCHANGED <<demoRooms, relays, handoffs, startedOn, demoClock>>
  BY DEF DemoIInv, DemoTypeOK, ConfirmRoom, DropStart
<1>2. /\ starts' \in [Demos -> {"idle", "provision", "confirm", "done"}] /\ starts'[d] = "done"
      /\ \A x \in Demos : x # d => starts'[x] = starts[x]
  BY <1>1 DEF DemoTypeOK
<1>3. previews' = previews \/ previews' = [previews EXCEPT ![d].known = TRUE]
  BY DEF ConfirmRoom, DropStart
<1>4. /\ previews' \in [Demos -> PreviewRow]
      /\ \A x \in Demos : x # d => previews'[x] = previews[x]
      /\ previews'[d].state = previews[d].state /\ previews'[d].runtime = previews[d].runtime
      /\ previews'[d].completed = previews[d].completed
  <2>1. CASE previews' = previews
    BY <1>1, <2>1 DEF DemoTypeOK
  <2>2. CASE previews' = [previews EXCEPT ![d].known = TRUE]
    BY <1>1, <2>2 DEF DemoTypeOK, PreviewRow
  <2> QED
    BY <1>3, <2>1, <2>2
<1>5. DemoTypeOK'
  BY <1>1, <1>2, <1>4 DEF DemoTypeOK
<1>6. DemoGoesForward(d)'
  BY <1>1, <1>2, <1>4 DEF DemoGoesForward
<1>7. ReservedUntil(d)' = ReservedUntil(d)
  BY <1>1, <1>4 DEF ReservedUntil
<1>8. d \in Holding' => d \in Holding
  BY <1>1, <1>4 DEF Holding
<1> QED
  BY <1>1, <1>2, <1>4, <1>5, <1>6, <1>7, <1>8, DemoStepKeeps

LEMMA CompleteDemoKeeps ==
    ASSUME DemoIInv, NEW d \in Demos, CompleteDemo(d)
    PROVE  DemoIInv'
<1>1. /\ DemoTypeOK /\ DemoGoesForward(d) /\ demoRooms[d] \in RoomRow
      /\ demoRooms[d].status = "open"
      /\ UNCHANGED <<previews, relays, starts, handoffs, startedOn, demoClock>>
  BY DEF DemoIInv, DemoTypeOK, CompleteDemo, Alive
<1>2. /\ demoRooms' \in [Demos -> RoomRow]
      /\ \A x \in Demos : x # d => demoRooms'[x] = demoRooms[x]
      /\ demoRooms'[d].status = "completed" /\ demoRooms'[d].until = demoRooms[d].until
      /\ demoRooms'[d].transcript = demoRooms[d].transcript
  BY <1>1 DEF CompleteDemo, DemoTypeOK, RoomRow
<1>3. DemoTypeOK'
  BY <1>1, <1>2 DEF DemoTypeOK
<1>4. DemoGoesForward(d)'
  BY <1>1, <1>2 DEF DemoGoesForward
<1>5. ReservedUntil(d)' = ReservedUntil(d)
  BY <1>1, <1>2 DEF ReservedUntil
<1>6. Holding' = Holding
  BY <1>1 DEF Holding
<1> QED
  BY <1>1, <1>2, <1>3, <1>4, <1>5, <1>6, DemoStepKeeps

\* A step about the relay of a demo whose room has closed: it reserves and holds nothing.
LEMMA RelayStepKeeps ==
    ASSUME DemoIInv, NEW d \in Demos, DemoTypeOK', UNCHANGED <<starts, startedOn, demoClock>>,
           \A x \in Demos : x # d =>
              /\ previews'[x] = previews[x] /\ demoRooms'[x] = demoRooms[x]
              /\ relays'[x] = relays[x] /\ handoffs'[x] = handoffs[x],
           demoRooms[d].status = "completed", demoRooms'[d].status = "completed",
           demoRooms'[d].until = demoRooms[d].until,
           demoRooms'[d].transcript => demoRooms[d].transcript,
           previews'[d] = previews[d] \/ previews'[d].completed \/ previews'[d].state = "gone",
           previews'[d].state = previews[d].state \/ previews'[d].state = "gone",
           relays'[d].shown \/ handoffs'[d] = "complete" => ~demoRooms'[d].transcript
    PROVE  DemoIInv'
<1>1. DemoGoesForward(d)
  BY DEF DemoIInv
<1>2. DemoGoesForward(d)'
  BY <1>1 DEF DemoGoesForward
<1>3. ReservedUntil(d)' = ReservedUntil(d)
  BY DEF ReservedUntil
<1>4. d \in Holding' => d \in Holding
  BY DEF Holding
<1> QED
  BY <1>2, <1>3, <1>4, DemoStepKeeps

LEMMA MakeRelayKeeps ==
    ASSUME DemoIInv, NEW d \in Demos, MakeRelay(d)
    PROVE  DemoIInv'
<1>1. /\ DemoTypeOK /\ demoClock + HandoffTtl \in Nat /\ handoffs' = [handoffs EXCEPT ![d] = "erase"]
      /\ demoRooms[d].status = "completed"
      /\ UNCHANGED <<previews, demoRooms, starts, startedOn, demoClock>>
  BY DemoAssumption DEF DemoIInv, DemoTypeOK, MakeRelay
<1>2. /\ relays' \in [Demos -> RelayRow] /\ ~relays'[d].shown
      /\ \A x \in Demos : x # d => relays'[x] = relays[x]
  BY <1>1 DEF MakeRelay, DemoTypeOK, RelayRow
<1>3. /\ DemoTypeOK' /\ handoffs'[d] = "erase"
      /\ \A x \in Demos : x # d => handoffs'[x] = handoffs[x]
  BY <1>1, <1>2 DEF DemoTypeOK
<1> QED
  BY <1>1, <1>2, <1>3, RelayStepKeeps

\* A relay that goes or does not.
LEMMA RelayGoes ==
    ASSUME DemoTypeOK, NEW d \in Demos, NoRelay(d) \/ relays' = relays
    PROVE  /\ relays' \in [Demos -> RelayRow]
           /\ relays'[d].shown = relays[d].shown
           /\ \A x \in Demos : x # d => relays'[x] = relays[x]
<1>1. relays \in [Demos -> RelayRow] /\ relays[d] \in RelayRow
  BY DEF DemoTypeOK
<1>2. CASE NoRelay(d)
  BY <1>1, <1>2 DEF NoRelay, RelayRow
<1>3. CASE relays' = relays
  BY <1>1, <1>3
<1> QED
  BY <1>2, <1>3

LEMMA EraseDemoKeeps ==
    ASSUME DemoIInv, NEW d \in Demos, EraseDemo(d)
    PROVE  DemoIInv'
<1>1. /\ DemoTypeOK /\ DemoGoesForward(d) /\ demoRooms[d] \in RoomRow
      /\ handoffs[d] = "erase" /\ demoRooms[d].status = "completed"
      /\ UNCHANGED <<previews, starts, startedOn, demoClock>>
  BY DEF DemoIInv, DemoTypeOK, EraseDemo, DemoGoesForward
<1>2. /\ relays' \in [Demos -> RelayRow] /\ relays'[d].shown = relays[d].shown
      /\ \A x \in Demos : x # d => relays'[x] = relays[x]
  BY <1>1, RelayGoes DEF EraseDemo
<1>3. PICK next \in {"complete", "idle"} : handoffs' = [handoffs EXCEPT ![d] = next]
  BY DEF EraseDemo
<1>4. /\ handoffs' \in [Demos -> {"idle", "erase", "complete"}] /\ handoffs'[d] = next
      /\ \A x \in Demos : x # d => handoffs'[x] = handoffs[x]
  BY <1>1, <1>3 DEF DemoTypeOK
<1>5. \/ demoRooms' = demoRooms /\ next = "idle"
      \/ demoRooms' = [demoRooms EXCEPT ![d].transcript = FALSE]
  BY <1>1, <1>3, <1>4 DEF EraseDemo, DemoTypeOK
<1>6. /\ demoRooms' \in [Demos -> RoomRow]
      /\ \A x \in Demos : x # d => demoRooms'[x] = demoRooms[x]
      /\ demoRooms'[d].status = "completed" /\ demoRooms'[d].until = demoRooms[d].until
      /\ demoRooms'[d].transcript => demoRooms[d].transcript
      /\ next = "complete" => ~demoRooms'[d].transcript
  <2>1. CASE demoRooms' = demoRooms /\ next = "idle"
    BY <1>1, <2>1 DEF DemoTypeOK
  <2>2. CASE demoRooms' = [demoRooms EXCEPT ![d].transcript = FALSE]
    BY <1>1, <2>2 DEF DemoTypeOK, RoomRow
  <2> QED
    BY <1>5, <2>1, <2>2
<1>7. DemoTypeOK'
  BY <1>1, <1>2, <1>4, <1>6 DEF DemoTypeOK
<1>8. relays'[d].shown \/ handoffs'[d] = "complete" => ~demoRooms'[d].transcript
  BY <1>1, <1>2, <1>4, <1>6 DEF DemoGoesForward
<1> QED
  BY <1>1, <1>2, <1>4, <1>6, <1>7, <1>8, RelayStepKeeps

LEMMA CompleteHandoffKeeps ==
    ASSUME DemoIInv, NEW d \in Demos, CompleteHandoff(d)
    PROVE  DemoIInv'
<1>1. /\ DemoTypeOK /\ DemoGoesForward(d) /\ previews[d] \in PreviewRow
      /\ relays[d] \in RelayRow /\ relays[d].expires \in Nat
      /\ handoffs[d] = "complete" /\ demoRooms[d].status = "completed" /\ ~demoRooms[d].transcript
      /\ handoffs' = [handoffs EXCEPT ![d] = "idle"]
      /\ UNCHANGED <<demoRooms, starts, startedOn, demoClock>>
  BY DEF DemoIInv, DemoTypeOK, CompleteHandoff, DemoGoesForward, RelayRow
<1>2. /\ handoffs' \in [Demos -> {"idle", "erase", "complete"}] /\ handoffs'[d] = "idle"
      /\ \A x \in Demos : x # d => handoffs'[x] = handoffs[x]
  BY <1>1 DEF DemoTypeOK
<1>3. CASE /\ previews' = [previews EXCEPT ![d].completed = TRUE, ![d].runtime = relays[d].expires]
           /\ relays' = [relays EXCEPT ![d].shown = TRUE]
  <2>1. /\ previews' \in [Demos -> PreviewRow] /\ previews'[d].completed
        /\ previews'[d].state = previews[d].state
        /\ \A x \in Demos : x # d => previews'[x] = previews[x]
    BY <1>1, <1>3 DEF DemoTypeOK, PreviewRow
  <2>2. /\ relays' \in [Demos -> RelayRow]
        /\ \A x \in Demos : x # d => relays'[x] = relays[x]
    BY <1>1, <1>3 DEF DemoTypeOK, RelayRow
  <2>3. DemoTypeOK'
    BY <1>1, <1>2, <2>1, <2>2 DEF DemoTypeOK
  <2> QED
    BY <1>1, <1>2, <2>1, <2>2, <2>3, RelayStepKeeps
<1>4. CASE NoRelay(d) /\ previews' = previews
  <2>1. /\ relays' \in [Demos -> RelayRow]
        /\ \A x \in Demos : x # d => relays'[x] = relays[x]
    BY <1>1, <1>4, RelayGoes
  <2>2. DemoTypeOK'
    BY <1>1, <1>2, <1>4, <2>1 DEF DemoTypeOK
  <2> QED
    BY <1>1, <1>2, <1>4, <2>1, <2>2, RelayStepKeeps
<1> QED
  BY <1>3, <1>4 DEF CompleteHandoff

LEMMA RelayEndsKeeps ==
    ASSUME DemoIInv, NEW d \in Demos, DropHandoff(d) \/ ExchangeRelay(d)
    PROVE  DemoIInv'
<1>1. DemoTypeOK /\ DemoGoesForward(d) /\ previews[d] \in PreviewRow /\ relays[d] \in RelayRow
  BY DEF DemoIInv, DemoTypeOK
<1>2. CASE DropHandoff(d)
  <2>1. demoRooms[d].status = "completed"
    BY <1>1, <1>2 DEF DropHandoff, DemoGoesForward
  <2>2. /\ DemoTypeOK' /\ handoffs'[d] = "idle"
        /\ \A x \in Demos : x # d => handoffs'[x] = handoffs[x]
    BY <1>1, <1>2 DEF DropHandoff, DemoTypeOK
  <2>3. relays'[d].shown \/ handoffs'[d] = "complete" => ~demoRooms'[d].transcript
    BY <1>1, <1>2, <2>2 DEF DropHandoff, DemoGoesForward
  <2> QED
    BY <1>2, <2>1, <2>2, <2>3, RelayStepKeeps DEF DropHandoff
<1>3. CASE ExchangeRelay(d)
  <2>1. demoRooms[d].status = "completed" /\ UNCHANGED <<demoRooms, starts, handoffs, startedOn, demoClock>>
    BY <1>1, <1>3 DEF ExchangeRelay, DemoGoesForward
  <2>2. /\ previews' \in [Demos -> PreviewRow] /\ previews'[d].state = "gone"
        /\ \A x \in Demos : x # d => previews'[x] = previews[x]
    BY <1>1, <1>3 DEF ExchangeRelay, DemoTypeOK, PreviewRow
  <2>3. /\ relays' \in [Demos -> RelayRow] /\ relays'[d].shown = relays[d].shown
        /\ \A x \in Demos : x # d => relays'[x] = relays[x]
    BY <1>1, <1>3 DEF ExchangeRelay, DemoTypeOK, RelayRow
  <2>4. DemoTypeOK'
    BY <1>1, <2>1, <2>2, <2>3 DEF DemoTypeOK
  <2>5. relays'[d].shown \/ handoffs'[d] = "complete" => ~demoRooms'[d].transcript
    BY <1>1, <2>1, <2>3 DEF DemoGoesForward
  <2> QED
    BY <2>1, <2>2, <2>3, <2>4, <2>5, RelayStepKeeps
<1> QED
  BY <1>2, <1>3

LEMMA DemoKeepsInvariant == DemoIInv /\ [DemoNext]_demoVars => DemoIInv'
<1> SUFFICES ASSUME DemoIInv, [DemoNext]_demoVars PROVE DemoIInv'
  OBVIOUS
<1>1. CASE PassDemoTime
  <2>1. UNCHANGED <<previews, demoRooms, relays, starts, handoffs, startedOn>>
    BY <1>1 DEF PassDemoTime
  <2>2. DemoTypeOK' /\ demoClock' = demoClock + 1 /\ demoClock \in Nat
    BY <1>1, <2>1, DemoAssumption DEF PassDemoTime, DemoIInv, DemoTypeOK, Days
  <2>3. \A d \in Demos : DemoGoesForward(d)'
    BY <2>1 DEF DemoIInv, DemoGoesForward
  <2>4. Holding' \subseteq Holding
    BY <2>1, <2>2 DEF Holding, DemoIInv, DemoTypeOK, PreviewRow
  <2>5. Cardinality(Holding') <= Cardinality(Holding) /\ Cardinality(Holding') \in Nat
    BY <2>4, DemoSetsFinite, FS_Subset, FS_CardinalityType
  <2>6. Cardinality(Holding)' <= ConcurrentCap
    BY <2>5, DemoSetsFinite, DemoAssumption DEF DemoIInv
  <2>7. \A day \in Days : ReservedOn(day)' = ReservedOn(day)
    BY <2>1 DEF ReservedOn, ReservedUntil
  <2> QED
    BY <2>1, <2>2, <2>3, <2>6, <2>7 DEF DemoIInv, Days
<1>2. CASE \E d \in Demos :
          \/ CreatePreview(d) \/ ReserveStart(d) \/ ProvisionRoom(d) \/ ConfirmRoom(d) \/ DropStart(d)
          \/ CompleteDemo(d)
          \/ MakeRelay(d) \/ EraseDemo(d) \/ CompleteHandoff(d) \/ DropHandoff(d) \/ ExchangeRelay(d)
  BY <1>2, CreatePreviewKeeps, ReserveStartKeeps, ProvisionRoomKeeps, FiledOrDroppedKeeps,
     CompleteDemoKeeps, MakeRelayKeeps, EraseDemoKeeps, CompleteHandoffKeeps, RelayEndsKeeps, Zenon
<1>3. CASE UNCHANGED demoVars
  <2>1. UNCHANGED <<previews, demoRooms, relays, starts, handoffs, startedOn, demoClock>>
    BY <1>3 DEF demoVars
  <2>2. Holding' = Holding /\ \A day \in Days : ReservedOn(day)' = ReservedOn(day)
    BY <2>1 DEF Holding, ReservedOn, ReservedUntil
  <2> QED
    BY <2>1, <2>2 DEF DemoIInv, DemoTypeOK, DemoGoesForward, Days
<1> QED
  BY <1>1, <1>2, <1>3 DEF DemoNext

\* The rooms really open to visitors, those nobody heard of included, stay within the
\* limits, and a code for the website means that what was said is erased.
THEOREM TheDemoIsContained == DemoSpec => []DemoInv
<1>1. DemoSpec => []DemoIInv
  BY DemoInitially, DemoKeepsInvariant, PTL DEF DemoSpec
<1> QED
  BY <1>1, DemoInvFollows, PTL

-----------------------------------------------------------------------------
(* One tab of the role builder.  Only a save that was sent before the tab  *)
(* knew its draft can make one; while it is under way the tab is saving,   *)
(* knows no draft and has no other save under way.                         *)

CallKinds == {"none", "generate", "add", "refine", "save", "share", "publish", "publishing"}

CallSent == [kind : CallKinds, form : Form, known : BOOLEAN]

\* A save that will make a draft.
FirstSave(c) == calls[c].kind \in SaveKinds /\ ~calls[c].known

BuilderRows ==
    /\ BuilderTypeOK
    /\ calls \in [Calls -> CallSent]
    /\ \A c \in Calls : calls[c].kind = "add" => calls[c].form < MaxQuestions

OneFirstSave ==
    /\ \A c \in Calls : FirstSave(c) =>
          /\ screen.saving /\ ~screen.known
          /\ \A d \in Calls : calls[d].kind \in SaveKinds => d = c
    /\ \A c \in Calls : calls[c].known => screen.known
    /\ \A c \in Calls : calls[c].kind = "publishing" => screen.known
    /\ screen.review => screen.known
    /\ ~screen.known => server <= lost

BuilderIInv ==
    /\ BuilderRows
    /\ OneFirstSave
    /\ server <= 1 + lost

LEMMA StepsAre ==
    /\ Len(Steps) = 5
    /\ \A n \in 1 .. Len(Steps) :
          /\ (Steps[n] = "brief") = (n = 1)
          /\ (Steps[n] = "questions") = (n = 3)
          /\ (Steps[n] = "share") = (n = 5)
  BY DEF Steps

LEMMA BuilderInitially == BuilderInit => BuilderIInv
<1> SUFFICES ASSUME BuilderInit PROVE BuilderIInv
  OBVIOUS
<1>1. 0 \in Form /\ 0 \in 0 .. LostAnswers
  BY PlanPolicyAssumption, BuilderAssumption DEF Form
<1>2. BuilderTypeOK
  BY <1>1, StepsAre DEF BuilderInit, BuilderTypeOK, Screen
<1>3. calls \in [Calls -> CallSent] /\ \A c \in Calls : calls[c] = NoCall
  BY <1>1 DEF BuilderInit, NoCall, CallSent, CallKinds
<1> QED
  BY <1>2, <1>3
     DEF BuilderInit, BuilderIInv, BuilderRows, OneFirstSave, FirstSave, SaveKinds, NoCall

LEMMA BuilderInvFollows == BuilderIInv => BuilderInv
  BY DEF BuilderIInv, BuilderInv, BuilderRows, OneDraftPerTab

\* A step of the recruiter or of an answer that saves nothing: no call becomes a save, the
\* draft and the losses stay, and the tab keeps saving and knowing as it did.
LEMMA SavesNothingKeeps ==
    ASSUME BuilderIInv, BuilderRows', UNCHANGED <<server, lost>>,
           screen'.saving = screen.saving, screen'.known = screen.known,
           screen'.review => screen.review \/ screen.known,
           \A c \in Calls : \/ calls'[c] = calls[c]
                            \/ calls'[c].kind \notin SaveKinds \cup {"publishing"}
                               /\ (calls'[c].known => screen.known)
    PROVE  BuilderIInv'
<1>1. OneFirstSave /\ server <= 1 + lost
  BY DEF BuilderIInv
<1>2. \A c \in Calls : calls'[c].kind \in SaveKinds \cup {"publishing"} => calls'[c] = calls[c]
  OBVIOUS
<1>3. OneFirstSave'
  BY <1>1, <1>2 DEF OneFirstSave, FirstSave
<1> QED
  BY <1>1, <1>3 DEF BuilderIInv

\* The screen's fields, the length of the way through the builder spelled out.
LEMMA ScreenIs ==
    Screen = [step : 1 .. 5, saving : BOOLEAN, publishing : BOOLEAN, generating : BOOLEAN,
              working : BOOLEAN, marker : {"none", "saved", "published"}, review : BOOLEAN,
              known : BOOLEAN]
  BY StepsAre DEF Screen

LEMMA DirtyScreen ==
    ASSUME screen \in Screen
    PROVE  /\ Dirty(screen) \in Screen
           /\ Dirty(screen).saving = screen.saving /\ Dirty(screen).known = screen.known
           /\ ~Dirty(screen).review /\ Dirty(screen).step = screen.step
  BY ScreenIs DEF Dirty

\* What the recruiter does to the form by hand, and where they go.
LEMMA HandKeeps ==
    ASSUME BuilderIInv, Back \/ Continue \/ EditBrief \/ EditText \/ RemoveQuestion \/ EditDraft
    PROVE  BuilderIInv'
<1>1. /\ form \in Form /\ screen \in Screen /\ UNCHANGED <<calls, server, lost>>
      /\ BuilderRows /\ server \in Nat
  BY DEF BuilderIInv, BuilderRows, BuilderTypeOK, Back, Continue, EditBrief, EditText,
         RemoveQuestion, EditDraft
<1>2. form' \in Form
  <2>1. CASE RemoveQuestion
    BY <1>1, <2>1, PlanPolicyAssumption DEF RemoveQuestion, Form
  <2>2. CASE ~RemoveQuestion
    BY <1>1, <2>2 DEF Back, Continue, EditBrief, EditText, EditDraft
  <2> QED
    BY <2>1, <2>2
<1>3. /\ screen' \in Screen /\ screen'.saving = screen.saving /\ screen'.known = screen.known
      /\ screen'.review => screen.review
  <2>1. CASE Back
    BY <1>1, <2>1, ScreenIs DEF Back
  <2>2. CASE Continue
    <3>1. screen.step \in {1, 3}
      BY <1>1, <2>2, ScreenIs, StepsAre DEF Continue, At
    <3> QED
      BY <1>1, <2>2, <3>1, ScreenIs DEF Continue
  <2>3. CASE EditDraft
    BY <1>1, <2>3, ScreenIs DEF EditDraft
  <2>4. CASE EditBrief \/ EditText \/ RemoveQuestion
    BY <1>1, <2>4, DirtyScreen DEF EditBrief, EditText, RemoveQuestion
  <2> QED
    BY <2>1, <2>2, <2>3, <2>4
<1>4. BuilderRows'
  BY <1>1, <1>2, <1>3 DEF BuilderRows, BuilderTypeOK
<1> QED
  BY <1>1, <1>3, <1>4, SavesNothingKeeps

\* A call that leaves or ends, the others as they were.
LEMMA SendsIs ==
    ASSUME BuilderRows, NEW c \in Calls, NEW kind \in CallKinds, NEW sent \in Form, Sends(c, kind, sent),
           kind = "add" => sent < MaxQuestions
    PROVE  /\ calls' \in [Calls -> CallSent]
           /\ \A d \in Calls : d # c => calls'[d] = calls[d]
           /\ calls'[c].kind = kind /\ calls'[c].form = sent /\ calls'[c].known = screen.known
           /\ \A d \in Calls : calls'[d].kind = "add" => calls'[d].form < MaxQuestions
<1> DEFINE new == [kind |-> kind, form |-> sent, known |-> screen.known]
<1>1. /\ new \in CallSent /\ new.kind = kind /\ new.form = sent /\ new.known = screen.known
  BY DEF BuilderRows, BuilderTypeOK, Screen, CallSent
<1>2. calls' = [calls EXCEPT ![c] = new] /\ calls \in [Calls -> CallSent]
  BY DEF Sends, BuilderRows
<1> HIDE DEF new
<1>3. calls'[c] = new /\ \A d \in Calls : d # c => calls'[d] = calls[d]
  BY <1>2
<1> QED
  BY <1>1, <1>2, <1>3 DEF BuilderRows

LEMMA CallEndsIs ==
    ASSUME BuilderRows, NEW c \in Calls, CallEnds(c)
    PROVE  /\ calls' \in [Calls -> CallSent]
           /\ \A d \in Calls : d # c => calls'[d] = calls[d]
           /\ calls'[c].kind = "none" /\ ~calls'[c].known
           /\ \A d \in Calls : calls'[d].kind = "add" => calls'[d].form < MaxQuestions
<1>1. NoCall \in CallSent /\ NoCall.kind = "none" /\ ~NoCall.known
  BY PlanPolicyAssumption DEF NoCall, CallSent, CallKinds, Form
<1>2. calls' = [calls EXCEPT ![c] = NoCall] /\ calls \in [Calls -> CallSent]
  BY DEF CallEnds, BuilderRows
<1>3. calls'[c] = NoCall /\ \A d \in Calls : d # c => calls'[d] = calls[d]
  BY <1>2
<1> QED
  BY <1>1, <1>2, <1>3 DEF BuilderRows

LEMMA AsksKeep ==
    ASSUME BuilderIInv, NEW c \in Calls, StartGeneration(c) \/ AskAI(c)
    PROVE  BuilderIInv'
<1>1. /\ form \in Form /\ screen \in Screen /\ UNCHANGED <<server, lost>>
      /\ BuilderRows /\ server \in Nat
  BY DEF BuilderIInv, BuilderRows, BuilderTypeOK, StartGeneration, AskAI
<1>2. PICK kind \in {"generate", "add", "refine"} :
          Sends(c, kind, form) /\ (kind = "add" => form < MaxQuestions)
  BY DEF StartGeneration, AskAI
<1>3. /\ calls' \in [Calls -> CallSent]
      /\ \A d \in Calls : d # c => calls'[d] = calls[d]
      /\ calls'[c].kind = kind /\ calls'[c].known = screen.known
      /\ \A d \in Calls : calls'[d].kind = "add" => calls'[d].form < MaxQuestions
  BY <1>1, <1>2, SendsIs DEF CallKinds
<1>4. /\ screen' \in Screen /\ screen'.saving = screen.saving /\ screen'.known = screen.known
      /\ screen'.review = screen.review
      /\ form' \in Form
  <2>1. CASE StartGeneration(c)
    <3>1. form' = 0 /\ screen' = [screen EXCEPT !.step = 3, !.generating = TRUE]
      BY <2>1 DEF StartGeneration
    <3>2. form' \in Form
      BY <3>1, PlanPolicyAssumption DEF Form
    <3>3. 3 \in 1 .. 5
      OBVIOUS
    <3>4. screen' \in Screen
      BY <1>1, <3>1, <3>3, ScreenIs
    <3>5. /\ screen'.saving = screen.saving /\ screen'.known = screen.known
          /\ screen'.review = screen.review
      BY <1>1, <3>1, ScreenIs
    <3> QED
      BY <3>2, <3>4, <3>5
  <2>2. CASE AskAI(c)
    <3>1. PICK b \in BOOLEAN : b = (calls'[c].kind = "add")
      OBVIOUS
    <3>2. screen' = [screen EXCEPT !.working = b] /\ form' = form
      BY <2>2, <3>1 DEF AskAI
    <3> QED
      BY <1>1, <3>2, ScreenIs
  <2> QED
    BY <2>1, <2>2
<1>5. BuilderRows'
  BY <1>1, <1>3, <1>4 DEF BuilderRows, BuilderTypeOK
<1>6. \A d \in Calls : \/ calls'[d] = calls[d]
                       \/ calls'[d].kind \notin SaveKinds \cup {"publishing"}
                          /\ (calls'[d].known => screen.known)
  BY <1>3 DEF SaveKinds
<1> QED
  BY <1>1, <1>4, <1>5, <1>6, SavesNothingKeeps

\* The model's answers, and a publication's.
LEMMA AnswersKeep ==
    ASSUME BuilderIInv, NEW c \in Calls,
           GenerationAnswers(c) \/ AddAnswers(c) \/ RefineAnswers(c) \/ PublishAnswers(c)
    PROVE  BuilderIInv'
<1>1. /\ form \in Form /\ screen \in Screen /\ UNCHANGED <<server, lost>>
      /\ BuilderRows /\ server \in Nat /\ CallEnds(c) /\ calls[c] \in CallSent
  BY DEF BuilderIInv, BuilderRows, BuilderTypeOK, GenerationAnswers, AddAnswers, RefineAnswers,
         PublishAnswers
<1>2. /\ calls' \in [Calls -> CallSent]
      /\ \A d \in Calls : d # c => calls'[d] = calls[d]
      /\ calls'[c].kind = "none" /\ ~calls'[c].known
      /\ \A d \in Calls : calls'[d].kind = "add" => calls'[d].form < MaxQuestions
  BY <1>1, CallEndsIs
<1>3. form' \in Form
  <2>1. CASE form' = TargetQuestions
    BY <2>1, BuilderAssumption, PlanPolicyAssumption DEF Form
  <2>2. CASE AddAnswers(c)
    <3>1. calls[c].form \in Form /\ calls[c].form < MaxQuestions
      BY <1>1, <2>2 DEF AddAnswers, BuilderRows, CallSent
    <3>2. form' = form \/ form' = calls[c].form + 1
      BY <2>2 DEF AddAnswers, AddedTo
    <3> QED
      BY <1>1, <3>1, <3>2, PlanPolicyAssumption DEF Form
  <2>3. CASE RefineAnswers(c)
    BY <1>1, <2>3 DEF RefineAnswers, CallSent
  <2> QED
    BY <1>1, <2>1, <2>2, <2>3 DEF GenerationAnswers, PublishAnswers
<1>4. /\ screen' \in Screen /\ screen'.saving = screen.saving /\ screen'.known = screen.known
      /\ screen'.review => screen.review \/ screen.known
  <2> DEFINE dirty == Dirty(screen)
  <2>1. /\ dirty \in Screen /\ dirty.saving = screen.saving /\ dirty.known = screen.known
        /\ ~dirty.review
    BY <1>1, DirtyScreen
  <2>2. PublishAnswers(c) => screen.known
    BY DEF PublishAnswers, BuilderIInv, OneFirstSave
  <2> HIDE DEF dirty
  <2>3. CASE GenerationAnswers(c)
    <3>1. \/ screen' = [dirty EXCEPT !.generating = FALSE]
          \/ screen' = [screen EXCEPT !.generating = FALSE]
      BY <2>3 DEF GenerationAnswers, dirty
    <3> QED
      BY <1>1, <2>1, <3>1, ScreenIs
  <2>4. CASE AddAnswers(c) \/ RefineAnswers(c)
    <3>1. \/ screen' = [dirty EXCEPT !.working = FALSE]
          \/ screen' = [screen EXCEPT !.working = FALSE]
      BY <2>4 DEF AddAnswers, RefineAnswers, dirty
    <3> QED
      BY <1>1, <2>1, <3>1, ScreenIs
  <2>5. CASE PublishAnswers(c)
    BY <1>1, <2>2, <2>5, ScreenIs DEF PublishAnswers
  <2> QED
    BY <2>3, <2>4, <2>5
<1>5. BuilderRows'
  BY <1>1, <1>2, <1>3, <1>4 DEF BuilderRows, BuilderTypeOK
<1>6. \A d \in Calls : \/ calls'[d] = calls[d]
                       \/ calls'[d].kind \notin SaveKinds \cup {"publishing"}
                          /\ (calls'[d].known => screen.known)
  BY <1>2 DEF SaveKinds
<1> QED
  BY <1>1, <1>4, <1>5, <1>6, SavesNothingKeeps

LEMMA SaveKeeps ==
    ASSUME BuilderIInv, NEW c \in Calls, Save(c)
    PROVE  BuilderIInv'
<1>1. /\ form \in Form /\ screen \in Screen /\ BuilderRows /\ OneFirstSave /\ server \in Nat
  BY DEF BuilderIInv, BuilderRows, BuilderTypeOK
<1>2. PICK kind \in SaveKinds : Saves(c, kind)
  BY DEF Save, SaveKinds
<1>3. ~screen.known => ~screen.saving
  BY <1>1 DEF Save, Footer, FooterWaits, OneFirstSave
<1>4. Sends(c, kind, form) /\ UNCHANGED <<form, server, lost>>
  BY <1>2 DEF Saves
<1>5. /\ calls' \in [Calls -> CallSent]
      /\ \A d \in Calls : d # c => calls'[d] = calls[d]
      /\ calls'[c].kind = kind /\ calls'[c].known = screen.known
      /\ \A d \in Calls : calls'[d].kind = "add" => calls'[d].form < MaxQuestions
  BY <1>1, <1>4, SendsIs DEF CallKinds, SaveKinds
<1>6. /\ screen' \in Screen /\ screen'.saving /\ screen'.known = screen.known
      /\ screen'.review = screen.review
  BY <1>1, <1>2, ScreenIs DEF Saves
<1>7. BuilderRows'
  BY <1>1, <1>4, <1>5, <1>6 DEF BuilderRows, BuilderTypeOK
<1>8. ~screen.known => \A d \in Calls : calls[d].kind \notin SaveKinds
  BY <1>1, <1>3 DEF OneFirstSave, FirstSave
<1>9. OneFirstSave'
  <2>1. ASSUME NEW d \in Calls, FirstSave(d)'
        PROVE  screen'.saving /\ ~screen'.known
               /\ \A e \in Calls : calls'[e].kind \in SaveKinds => e = d
    BY <1>1, <1>5, <1>6, <1>8, <2>1 DEF OneFirstSave, FirstSave
  <2> QED
    BY <1>1, <1>4, <1>5, <1>6, <2>1 DEF OneFirstSave, SaveKinds
<1> QED
  BY <1>4, <1>7, <1>9 DEF BuilderIInv

LEMMA SaveAnswersKeeps ==
    ASSUME BuilderIInv, NEW c \in Calls, SaveAnswers(c)
    PROVE  BuilderIInv'
<1>1. /\ form \in Form /\ screen \in Screen /\ BuilderRows /\ OneFirstSave
      /\ server \in Nat /\ lost \in Nat /\ server <= 1 + lost
      /\ calls \in [Calls -> CallSent] /\ calls[c] \in CallSent
      /\ calls[c].kind \in SaveKinds /\ UNCHANGED <<form, lost>>
  BY BuilderAssumption DEF BuilderIInv, BuilderRows, BuilderTypeOK, SaveAnswers
<1>2. /\ calls' \in [Calls -> CallSent]
      /\ \A d \in Calls : d # c => calls'[d] = calls[d]
      /\ calls'[c].kind \in {"none", "publishing"}
  <2>1. NoCall \in CallSent /\ NoCall.kind = "none"
    BY PlanPolicyAssumption DEF NoCall, CallSent, CallKinds, Form
  <2>2. CASE calls[c].kind = "publish"
    <3>1. calls' = [calls EXCEPT ![c].kind = "publishing"]
      BY <1>1, <2>2 DEF SaveAnswers
    <3> QED
      BY <1>1, <3>1 DEF CallSent, CallKinds
  <2>3. CASE calls[c].kind # "publish"
    <3>1. calls' = [calls EXCEPT ![c] = NoCall]
      BY <1>1, <2>3 DEF SaveAnswers
    <3> QED
      BY <1>1, <2>1, <3>1
  <2> QED
    BY <2>2, <2>3
<1>3. /\ screen' \in Screen /\ ~screen'.saving /\ screen'.known
  <2>1. PICK publishing \in BOOLEAN, step \in 1 .. 5 :
           screen' = [screen EXCEPT !.saving = FALSE, !.known = TRUE, !.marker = "saved",
                                    !.publishing = publishing, !.step = step]
    <3>1. PICK publishing \in BOOLEAN : publishing = (screen.publishing \/ calls[c].kind = "publish")
      BY Zenon
    <3>2. screen.step \in 1 .. 5 /\ 5 \in 1 .. 5
      BY <1>1, ScreenIs
    <3> QED
      BY <3>1, <3>2 DEF SaveAnswers
  <2> QED
    BY <1>1, <2>1, ScreenIs
<1>4. server' = IF calls[c].known THEN server ELSE server + 1
  BY DEF SaveAnswers, Stored
<1>5. BuilderRows'
  <2>1. server' \in Nat
    BY <1>1, <1>4
  <2>2. \A d \in Calls : calls'[d].kind = "add" => calls'[d].form < MaxQuestions
    BY <1>1, <1>2 DEF BuilderRows
  <2> QED
    BY <1>1, <1>2, <1>3, <2>1, <2>2 DEF BuilderRows, BuilderTypeOK
<1>6. ASSUME NEW d \in Calls PROVE ~FirstSave(d)'
  <2>1. CASE d = c
    BY <1>2, <2>1 DEF FirstSave, SaveKinds
  <2>2. CASE d # c
    BY <1>1, <1>2, <2>2 DEF OneFirstSave, FirstSave
  <2> QED
    BY <2>1, <2>2
<1>7. OneFirstSave'
  BY <1>3, <1>6 DEF OneFirstSave
<1>8. server' <= 1 + lost'
  <2>1. ~calls[c].known => server <= lost
    BY <1>1 DEF OneFirstSave, FirstSave
  <2> QED
    BY <1>1, <1>4, <2>1
<1> QED
  BY <1>5, <1>7, <1>8 DEF BuilderIInv

LEMMA SaveFailsKeeps ==
    ASSUME BuilderIInv, NEW c \in Calls, SaveFails(c)
    PROVE  BuilderIInv'
<1>1. /\ form \in Form /\ screen \in Screen /\ BuilderRows /\ OneFirstSave
      /\ server \in Nat /\ lost \in 0 .. LostAnswers /\ server <= 1 + lost
      /\ calls[c].kind \in SaveKinds /\ CallEnds(c) /\ form' = form
      /\ screen' = [screen EXCEPT !.saving = FALSE]
  BY DEF BuilderIInv, BuilderRows, BuilderTypeOK, SaveFails
<1>2. /\ calls' \in [Calls -> CallSent]
      /\ \A d \in Calls : d # c => calls'[d] = calls[d]
      /\ calls'[c].kind = "none" /\ ~calls'[c].known
      /\ \A d \in Calls : calls'[d].kind = "add" => calls'[d].form < MaxQuestions
  BY <1>1, CallEndsIs
<1>3. /\ screen' \in Screen /\ ~screen'.saving /\ screen'.known = screen.known
      /\ screen'.review = screen.review
  BY <1>1, ScreenIs
<1>4. /\ server' \in Nat /\ lost' \in 0 .. LostAnswers /\ server' <= 1 + lost'
      /\ server <= lost => server' <= lost'
  <2>1. CASE UNCHANGED <<server, lost>>
    BY <1>1, <2>1
  <2>2. CASE Stored(c) /\ lost < LostAnswers /\ lost' = lost + 1
    <3>1. server' \in {server, server + 1}
      BY <2>2 DEF Stored
    <3> QED
      BY <1>1, <2>2, <3>1, BuilderAssumption
  <2> QED
    BY <2>1, <2>2 DEF SaveFails
<1>5. BuilderRows'
  BY <1>1, <1>2, <1>3, <1>4 DEF BuilderRows, BuilderTypeOK
<1>6. ASSUME NEW d \in Calls PROVE ~FirstSave(d)'
  <2>1. CASE d = c
    BY <1>2, <2>1 DEF FirstSave, SaveKinds
  <2>2. CASE d # c
    BY <1>1, <1>2, <2>2 DEF OneFirstSave, FirstSave
  <2> QED
    BY <2>1, <2>2
<1>7. OneFirstSave'
  BY <1>1, <1>2, <1>3, <1>4, <1>6 DEF OneFirstSave
<1> QED
  BY <1>4, <1>5, <1>7 DEF BuilderIInv

LEMMA BuilderKeepsInvariant == BuilderIInv /\ [BuilderNext]_builderVars => BuilderIInv'
<1> SUFFICES ASSUME BuilderIInv, [BuilderNext]_builderVars PROVE BuilderIInv'
  OBVIOUS
<1>1. CASE BuilderNext
  BY <1>1, HandKeeps, AsksKeep, SaveKeeps, AnswersKeep, SaveAnswersKeeps, SaveFailsKeeps, Zenon
     DEF BuilderNext
<1>2. CASE UNCHANGED builderVars
  BY <1>2 DEF builderVars, BuilderIInv, BuilderRows, BuilderTypeOK, OneFirstSave, FirstSave
<1> QED
  BY <1>1, <1>2

\* However many saves, drafts and edits cross in a tab, it fills one draft, but for those
\* whose answer was lost, and the plan on the screen keeps to its limit.
THEOREM ATabFillsOneDraft == BuilderSpec => []BuilderInv
<1>1. BuilderSpec => []BuilderIInv
  BY BuilderInitially, BuilderKeepsInvariant, PTL DEF BuilderSpec
<1> QED
  BY <1>1, BuilderInvFollows, PTL

-----------------------------------------------------------------------------
(* Reviews.  What an update was not asked for it will leave alone, however *)
(* long ago it read the row.                                               *)

LeavesAloneWhatWasNotAsked ==
    /\ review = [s \in Reviews |-> review[s]]
    /\ updates \in [Updates -> [asked : SUBSET {"status", "note"}, session : Reviews \cup {Keep},
                                status : Decisions \cup {Keep}, note : ReviewNotes \cup {NoNote, Keep}]]
    /\ \A u \in Updates :
          /\ "status" \notin updates[u].asked => updates[u].status = Keep
          /\ "note" \notin updates[u].asked => updates[u].note = Keep

LEMMA ReviewsInitially == ReviewsInit => LeavesAloneWhatWasNotAsked
  BY DEF ReviewsInit, LeavesAloneWhatWasNotAsked, NoUpdate

LEMMA ReviewsKeepWhatIsAsked ==
    LeavesAloneWhatWasNotAsked /\ [ReviewsNext]_reviewVars => LeavesAloneWhatWasNotAsked'
<1> SUFFICES ASSUME LeavesAloneWhatWasNotAsked, [ReviewsNext]_reviewVars
             PROVE  LeavesAloneWhatWasNotAsked'
  OBVIOUS
<1>1. ASSUME NEW u \in Updates, ReadReview(u) PROVE LeavesAloneWhatWasNotAsked'
  <2>1. PICK s \in Reviews, fields \in {{"status"}, {"note"}, {"status", "note"}},
             status \in Decisions, note \in ReviewNotes \cup {NoNote} :
          updates' = [updates EXCEPT ![u] =
             [asked |-> fields, session |-> s,
              status |-> Changed("status", review[s], fields, status),
              note |-> Changed("note", review[s], fields, note)]]
    BY <1>1 DEF ReadReview
  <2>2. PICK first : first = Changed("status", review[s], fields, status)
    OBVIOUS
  <2>3. PICK second : second = Changed("note", review[s], fields, note)
    OBVIOUS
  <2>4. /\ first \in Decisions \cup {Keep} /\ ("status" \notin fields => first = Keep)
        /\ second \in ReviewNotes \cup {NoNote, Keep} /\ ("note" \notin fields => second = Keep)
        /\ fields \in SUBSET {"status", "note"}
    BY <2>2, <2>3 DEF Changed
  <2>5. updates' = [updates EXCEPT ![u] =
             [asked |-> fields, session |-> s, status |-> first, note |-> second]]
    BY <2>1, <2>2, <2>3
  <2>6. UNCHANGED review
    BY <1>1 DEF ReadReview
  <2> QED
    BY <2>4, <2>5, <2>6 DEF LeavesAloneWhatWasNotAsked
<1>2. ASSUME NEW u \in Updates, WriteReview(u) PROVE LeavesAloneWhatWasNotAsked'
  <2>1. PICK row : review' = [review EXCEPT ![updates[u].session] = row]
    BY <1>2 DEF WriteReview
  <2>2. review' = [s \in Reviews |-> review'[s]]
    BY <2>1 DEF LeavesAloneWhatWasNotAsked
  <2>3. updates' = [updates EXCEPT ![u] = NoUpdate]
    BY <1>2 DEF WriteReview
  <2> QED
    BY <2>2, <2>3 DEF LeavesAloneWhatWasNotAsked, NoUpdate
<1>3. CASE UNCHANGED reviewVars
  BY <1>3 DEF reviewVars, LeavesAloneWhatWasNotAsked
<1> QED
  BY <1>1, <1>2, <1>3 DEF ReviewsNext

\* A write changes nothing its update was not asked for.
LEMMA WritesOnlyWhatWasAsked ==
    ASSUME LeavesAloneWhatWasNotAsked,
           NEW u \in Updates, WriteReview(u),
           NEW field \in {"status", "note"}, field \notin updates[u].asked, NEW s \in Reviews
    PROVE  review'[s][field] = review[s][field]
<1>1. updates[u].status = Keep \/ field # "status"
  BY DEF LeavesAloneWhatWasNotAsked
<1>2. updates[u].note = Keep \/ field # "note"
  BY DEF LeavesAloneWhatWasNotAsked
<1>3. updates[u][field] = Keep
  BY <1>1, <1>2
<1> DEFINE written == [f \in {"status", "note"} |->
                          IF f \in {g \in {"status", "note"} : updates[u][g] # Keep}
                          THEN updates[u][f] ELSE review[updates[u].session][f]]
<1>4. /\ review' = [review EXCEPT ![updates[u].session] = written]
      /\ review = [r \in Reviews |-> review[r]]
  BY DEF WriteReview, LeavesAloneWhatWasNotAsked
<1>5. written[field] = review[updates[u].session][field]
  BY <1>3
<1> HIDE DEF written
<1>6. CASE s = updates[u].session
  <2>1. review'[s] = written
    BY <1>4, <1>6
  <2> QED
    BY <1>5, <1>6, <2>1
<1>7. CASE s # updates[u].session
  BY <1>4, <1>7
<1> QED
  BY <1>6, <1>7

LEMMA ReviewsStep ==
    LeavesAloneWhatWasNotAsked /\ [ReviewsNext]_reviewVars =>
        [\A u \in Updates : \A field \in {"status", "note"} :
            updates[u] # NoUpdate /\ updates'[u] = NoUpdate /\ field \notin updates[u].asked =>
                \A s \in Reviews : review'[s][field] = review[s][field]]_reviewVars
<1> SUFFICES ASSUME LeavesAloneWhatWasNotAsked, ReviewsNext,
                    NEW u \in Updates, NEW field \in {"status", "note"},
                    updates[u] # NoUpdate, updates'[u] = NoUpdate,
                    field \notin updates[u].asked, NEW s \in Reviews
             PROVE  review'[s][field] = review[s][field]
  OBVIOUS
<1>1. PICK v \in Updates : ReadReview(v) \/ WriteReview(v)
  BY DEF ReviewsNext
<1>2. CASE ReadReview(v)
  BY <1>2 DEF ReadReview
<1>3. CASE WriteReview(v)
  <2>1. v = u
    BY <1>3 DEF WriteReview, LeavesAloneWhatWasNotAsked
  <2> QED
    BY <1>3, <2>1, WritesOnlyWhatWasAsked
<1> QED
  BY <1>1, <1>2, <1>3

\* A decision saved while a note is, and a note while a decision is, lose neither,
\* for any number of sessions under review and of updates crossing each other.
THEOREM ReviewsLoseNothing == ReviewsSpec => ReviewsDoNotCollide
<1>1. ReviewsSpec => []LeavesAloneWhatWasNotAsked
  BY ReviewsInitially, ReviewsKeepWhatIsAsked, PTL DEF ReviewsSpec
<1> QED
  BY <1>1, ReviewsStep, PTL DEF ReviewsSpec, ReviewsDoNotCollide

-----------------------------------------------------------------------------
(* The live room.  A start that waits for a session or for the microphone  *)
(* is one of this page, and not of one that was left.                      *)

RoomRows ==
    /\ RoomTypeOK
    /\ start \in [at : {"none", "session", "media", "room", "failing", "aborted"},
                  stream : 0 .. MaxStarts]
    /\ recovery \in [at : {"none", "wait", "room"}, stream : 0 .. MaxStarts, tries : Nat]

StartsAreCurrent ==
    /\ start.at \in {"session", "media"} => start.stream \in Starts
    /\ page.abandoning => start.at \in {"none", "aborted"}

RoomIInv == RoomRows /\ StartsAreCurrent /\ LeavingEndsRecovery

LEMMA RoomInitially == RoomInit => RoomIInv
<1> SUFFICES ASSUME RoomInit PROVE RoomIInv
  OBVIOUS
<1>1. page \in Page /\ ~page.abandoning
  BY RoomAssumption DEF RoomInit, Page, Status
<1>2. NoRoom \in Room /\ rooms = [g \in Generations |-> NoRoom]
  BY RoomAssumption DEF RoomInit, NoRoom, Room
<1>3. /\ refs \in [active : 0 .. MaxGenerations, room : 0 .. MaxGenerations, last : 0 .. MaxGenerations]
      /\ mic \subseteq Starts
  BY RoomAssumption DEF RoomInit
<1>4. /\ start \in [at : {"none", "session", "media", "room", "failing", "aborted"},
                    stream : 0 .. MaxStarts]
      /\ start.at = "none"
      /\ recovery \in [at : {"none", "wait", "room"}, stream : 0 .. MaxStarts, tries : Nat]
  BY RoomAssumption DEF RoomInit, NoStart, NoRecovery
<1> QED
  BY <1>1, <1>2, <1>3, <1>4
     DEF RoomIInv, RoomRows, RoomTypeOK, StartsAreCurrent, LeavingEndsRecovery

LEMMA RoomInvFollows == RoomIInv => RoomInv
  BY DEF RoomIInv, RoomRows, RoomInv

\* No connection comes up again, or changes hands.
NothingNewConnects ==
    \A g \in Generations : Unfinished(g)' => Unfinished(g) /\ rooms'[g].by = rooms[g].by

\* Who had left has still left, if a step connects nothing and waits for nothing new.
LEMMA LeftRemainsLeft ==
    ASSUME LeavingEndsRecovery, page'.abandoning => page.abandoning,
           recovery = NoRecovery => recovery' = NoRecovery,
           refs'.active \in {refs.active, 0}, NothingNewConnects
    PROVE  LeavingEndsRecovery'
  BY DEF LeavingEndsRecovery, NothingNewConnects, NoRecovery

LEMMA RoomsGo ==
    ASSUME rooms \in [Generations -> Room], NEW g \in Generations
    PROVE  /\ Gone(g) \in [Generations -> Room]
           /\ \A h \in Generations : /\ Gone(g)[h].by = rooms[h].by
                                     /\ Gone(g)[h].state \in {"gone", rooms[h].state}
           /\ Gone(g)[g].state = "gone"
           /\ Gone(g)[g] \in Room
<1> DEFINE left == [rooms[g] EXCEPT !.state = "gone"]
<1>1. left \in Room /\ left.by = rooms[g].by /\ left.state = "gone"
  BY DEF Room
<1>2. Gone(g) = [rooms EXCEPT ![g] = left]
  BY DEF Gone
<1> HIDE DEF left
<1> QED
  BY <1>1, <1>2

LEMMA TheRoomIsLeft ==
    ASSUME RoomRows, rooms' = LeaveRoom
    PROVE  rooms' \in [Generations -> Room] /\ NothingNewConnects
<1>1. refs.room \in 0 .. MaxGenerations /\ rooms \in [Generations -> Room] /\ MaxGenerations \in Nat
  BY RoomAssumption DEF RoomRows, RoomTypeOK
<1>2. CASE refs.room = 0
  BY <1>1, <1>2 DEF LeaveRoom, NothingNewConnects, Unfinished
<1>3. CASE refs.room # 0
  <2>1. refs.room \in Generations
    BY <1>1, <1>3 DEF Generations
  <2> QED
    BY <1>1, <1>3, <2>1, RoomsGo DEF LeaveRoom, NothingNewConnects, Unfinished
<1> QED
  BY <1>2, <1>3

LEMMA NothingFits ==
    /\ 0 \in 0 .. MaxStarts /\ 0 \in 0 .. MaxGenerations
    /\ NoRecovery \in [at : {"none", "wait", "room"}, stream : 0 .. MaxStarts, tries : Nat]
<1>1. 0 \in 0 .. MaxStarts /\ 0 \in 0 .. MaxGenerations
  BY RoomAssumption
<1> QED
  BY <1>1 DEF NoRecovery

LEMMA RefsCleared ==
    ASSUME RoomRows
    PROVE  /\ NoRoomInHand \in [active : 0 .. MaxGenerations, room : 0 .. MaxGenerations,
                                last : 0 .. MaxGenerations]
           /\ NoRoomInHand.active = 0
  BY NothingFits DEF RoomRows, RoomTypeOK, NoRoomInHand

\* A page that shows something else, and may have let go of its stream.
LEMMA PageShows ==
    ASSUME page \in Page, NEW status \in Status
    PROVE  /\ [page EXCEPT !.status = status] \in Page
           /\ [page EXCEPT !.status = status].abandoning = page.abandoning
           /\ [page EXCEPT !.status = status, !.stream = 0] \in Page
           /\ [page EXCEPT !.status = status, !.stream = 0].abandoning = page.abandoning
           /\ [page EXCEPT !.stream = 0] \in Page
           /\ [page EXCEPT !.stream = 0].abandoning = page.abandoning
  BY NothingFits DEF Page

\* The candidate.
LEMMA PressStartKeeps == ASSUME RoomIInv, PressStart PROVE RoomIInv'
<1>1. /\ page \in Page /\ page.starts < MaxStarts /\ MaxStarts \in Nat
      /\ UNCHANGED <<refs, rooms, mic, recovery>>
  BY RoomAssumption DEF RoomIInv, RoomRows, RoomTypeOK, PressStart
<1>2. page.starts \in 0 .. MaxStarts /\ page.starts + 1 \in 0 .. MaxStarts
  BY <1>1 DEF Page
<1>3. page' \in Page /\ ~page'.abandoning
  BY <1>1, <1>2 DEF PressStart, Page, Status
<1>4. start' = [at |-> "session", stream |-> page.starts + 1] /\ page.starts + 1 \in Starts
  BY <1>1, <1>2 DEF PressStart, Starts
<1> QED
  BY <1>1, <1>2, <1>3, <1>4
     DEF RoomIInv, RoomRows, RoomTypeOK, StartsAreCurrent, LeavingEndsRecovery

LEMMA PressEndKeeps == ASSUME RoomIInv, PressEnd PROVE RoomIInv'
<1>1. /\ RoomRows /\ page \in Page /\ rooms \in [Generations -> Room] /\ mic \subseteq Starts
      /\ start \in [at : {"none", "session", "media", "room", "failing", "aborted"},
                    stream : 0 .. MaxStarts]
      /\ MaxStarts \in Nat
  BY RoomAssumption DEF RoomIInv, RoomRows, RoomTypeOK
<1>2. page' \in Page /\ recovery' = NoRecovery /\ refs' = NoRoomInHand
  BY <1>1, NothingFits DEF PressEnd, Page, Status, RecoveryLeft
<1>3. /\ start' \in [at : {"none", "session", "media", "room", "failing", "aborted"},
                     stream : 0 .. MaxStarts]
      /\ start'.at \in {"none", "aborted"}
  BY <1>1 DEF PressEnd
<1>4. \A g \in Generations : rooms'[g] = IF g = refs.room \/ Unfinished(g)
                                         THEN Gone(g)[g] ELSE rooms[g]
  <2>1. ASSUME NEW g \in Generations
        PROVE  rooms'[g] = IF \/ g = refs.room
                              \/ Unfinished(g) /\ rooms[g].by = "start"
                              \/ Unfinished(g) /\ recovery' = NoRecovery
                           THEN Gone(g)[g] ELSE rooms[g]
    BY DEF PressEnd
  <2> QED
    BY <1>2, <2>1
<1>5. rooms' = [g \in Generations |-> rooms'[g]]
  BY DEF PressEnd
<1>6. \A g \in Generations : rooms'[g] \in Room /\ ~Unfinished(g)'
  BY <1>1, <1>4, RoomsGo DEF Unfinished
<1>7. rooms' \in [Generations -> Room]
  BY <1>5, <1>6
<1>8. mic' \subseteq Starts
  BY <1>1 DEF PressEnd
<1> QED
  BY <1>1, <1>2, <1>3, <1>6, <1>7, <1>8, RefsCleared, NothingFits
     DEF RoomIInv, RoomRows, RoomTypeOK, StartsAreCurrent, LeavingEndsRecovery

\* A step that only changes what is shown.
LEMMA OnlyShows ==
    ASSUME RoomIInv, page' \in Page, page'.abandoning => page.abandoning,
           UNCHANGED <<refs, rooms, mic, start, recovery>>
    PROVE  RoomIInv'
  BY DEF RoomIInv, RoomRows, RoomTypeOK, StartsAreCurrent, LeavingEndsRecovery, Unfinished

\* What the candidate and the poll do to the page alone.
LEMMA PageActionsKeep ==
    ASSUME RoomIInv, RetryAfterAbandon \/ UseForm \/ SessionEnds \/ PollReads \/ PollAnswers
    PROVE  RoomIInv'
<1>1. page \in Page /\ UNCHANGED <<refs, rooms, mic, start, recovery>>
  BY DEF RoomIInv, RoomRows, RoomTypeOK, RetryAfterAbandon, UseForm, SessionEnds, PollReads,
         PollAnswers
<1>2. page' \in Page /\ (page'.abandoning => page.abandoning)
  <2>1. CASE RetryAfterAbandon
    BY <1>1, <2>1 DEF RetryAfterAbandon, Page, Status
  <2>2. CASE UseForm
    <3>1. page' \in {[page EXCEPT !.status = "ready", !.form = TRUE], [page EXCEPT !.form = FALSE],
                     [page EXCEPT !.status = "completed"]}
      BY <2>2 DEF UseForm
    <3> QED
      BY <1>1, <3>1 DEF Page, Status
  <2>3. CASE SessionEnds \/ PollReads
    BY <1>1, <2>3 DEF SessionEnds, PollReads
  <2>4. CASE PollAnswers
    <3>1. page' \in {[page EXCEPT !.finishing = TRUE, !.timer = TRUE, !.status = "closing"],
                     [page EXCEPT !.failing = TRUE], page}
      BY <2>4 DEF PollAnswers
    <3> QED
      BY <1>1, <3>1 DEF Page, Status
  <2> QED
    BY <2>1, <2>2, <2>3, <2>4
<1> QED
  BY <1>1, <1>2, OnlyShows

\* The room in hand is put down, whatever else goes on.
LEMMA PutsDownKeeps ==
    ASSUME RoomIInv, ContinueInWriting \/ FailureTakesDown
    PROVE  RoomIInv'
<1>1. /\ page \in Page /\ mic \subseteq Starts /\ RoomRows /\ LeavingEndsRecovery
      /\ UNCHANGED <<start, recovery>> /\ refs' = NoRoomInHand /\ rooms' = LeaveRoom
      /\ mic' = mic \ {page.stream}
  BY DEF RoomIInv, RoomRows, RoomTypeOK, ContinueInWriting, FailureTakesDown
<1>2. page' \in Page /\ page'.abandoning = page.abandoning
  <2>1. page' = [page EXCEPT !.status = "ready", !.form = TRUE, !.stream = 0]
        \/ page' = [page EXCEPT !.status = "failed", !.stream = 0]
    BY DEF ContinueInWriting, FailureTakesDown
  <2> QED
    BY <1>1, <2>1, NothingFits DEF Page, Status
<1>3. rooms' \in [Generations -> Room] /\ NothingNewConnects
  BY <1>1, TheRoomIsLeft
<1>4. LeavingEndsRecovery'
  BY <1>1, <1>2, <1>3, RefsCleared, LeftRemainsLeft
<1> QED
  BY <1>1, <1>2, <1>3, <1>4, RefsCleared
     DEF RoomIInv, RoomRows, RoomTypeOK, StartsAreCurrent

LEMMA TimerKeeps == ASSUME RoomIInv, TimerFires PROVE RoomIInv'
<1>1. /\ page \in Page /\ mic \subseteq Starts /\ RoomRows /\ LeavingEndsRecovery
      /\ rooms \in [Generations -> Room]
      /\ UNCHANGED start /\ recovery' = NoRecovery /\ refs' = NoRoomInHand
      /\ mic' = mic \ {page.stream}
  BY DEF RoomIInv, RoomRows, RoomTypeOK, TimerFires
<1>2. page' \in Page /\ page'.abandoning = page.abandoning
  BY <1>1, NothingFits DEF TimerFires, Page, Status
<1>3. rooms' = [g \in Generations |-> IF g = refs.room \/ (Unfinished(g) /\ rooms[g].by = "recovery")
                                      THEN Gone(g)[g] ELSE rooms[g]]
  BY DEF TimerFires
<1>4. \A g \in Generations : rooms'[g] = rooms[g] \/ rooms'[g] = Gone(g)[g]
  BY <1>3
<1>5. rooms' \in [Generations -> Room] /\ NothingNewConnects
  <2>1. rooms' \in [Generations -> Room]
    BY <1>1, <1>3, <1>4, RoomsGo
  <2>2. ASSUME NEW g \in Generations, Unfinished(g)' PROVE Unfinished(g) /\ rooms'[g].by = rooms[g].by
    BY <1>1, <1>4, <2>2, RoomsGo DEF Unfinished
  <2> QED
    BY <2>1, <2>2 DEF NothingNewConnects
<1>6. LeavingEndsRecovery'
  BY <1>1, <1>2, <1>5, RefsCleared, LeftRemainsLeft
<1> QED
  BY <1>1, <1>2, <1>5, <1>6, RefsCleared, NothingFits
     DEF RoomIInv, RoomRows, RoomTypeOK, StartsAreCurrent

LEMMA ExhaustedKeeps == ASSUME RoomIInv, RecoveryExhausted PROVE RoomIInv'
<1>1. /\ page \in Page /\ recovery # NoRecovery
      /\ recovery' = NoRecovery /\ mic' \subseteq mic /\ UNCHANGED <<refs, rooms, start>>
  BY DEF RoomIInv, RoomRows, RoomTypeOK, RecoveryExhausted, NoRecovery
<1>2. page' \in Page /\ page'.abandoning = page.abandoning
  BY <1>1, PageShows DEF RecoveryExhausted, Status
<1>3. ~page.abandoning
  BY <1>1 DEF RoomIInv, LeavingEndsRecovery
<1> QED
  BY <1>1, <1>2, <1>3, NothingFits
     DEF RoomIInv, RoomRows, RoomTypeOK, StartsAreCurrent, LeavingEndsRecovery

\* The next connection, and the only one to come up.
LEMMA ConnectsIs ==
    ASSUME RoomRows, NEW by \in {"start", "recovery"}, NEW stream \in 0 .. MaxStarts,
           Connects(by, stream)
    PROVE  /\ refs' \in [active : 0 .. MaxGenerations, room : 0 .. MaxGenerations,
                         last : 0 .. MaxGenerations]
           /\ rooms' \in [Generations -> Room]
<1>1. /\ refs.last \in 0 .. MaxGenerations /\ refs.last < MaxGenerations /\ MaxGenerations \in Nat
      /\ refs \in [active : 0 .. MaxGenerations, room : 0 .. MaxGenerations,
                   last : 0 .. MaxGenerations]
      /\ rooms \in [Generations -> Room]
  BY RoomAssumption DEF RoomRows, RoomTypeOK, Connects
<1>2. refs.last + 1 \in 0 .. MaxGenerations /\ refs.last + 1 \in Generations
  BY <1>1 DEF Generations
<1>3. [state |-> "connecting", by |-> by, stream |-> stream] \in Room
  BY DEF Room
<1> QED
  BY <1>1, <1>2, <1>3 DEF Connects

LEMMA RecoversKeeps == ASSUME RoomIInv, Recovers PROVE RoomIInv'
<1>1. /\ page \in Page /\ RoomRows /\ recovery # NoRecovery /\ UNCHANGED <<mic, start>>
      /\ recovery \in [at : {"none", "wait", "room"}, stream : 0 .. MaxStarts, tries : Nat]
  BY DEF RoomIInv, RoomRows, RoomTypeOK, Recovers, NoRecovery
<1>2. ~page.abandoning
  BY <1>1 DEF RoomIInv, LeavingEndsRecovery
<1>3. page' \in Page /\ page'.abandoning = page.abandoning
  BY <1>1, PageShows DEF Recovers, Status
<1>4. recovery' \in [at : {"none", "wait", "room"}, stream : 0 .. MaxStarts, tries : Nat]
  <2>1. recovery.tries + 1 \in Nat
    BY <1>1
  <2>2. recovery' \in {[recovery EXCEPT !.at = "room", !.tries = @ + 1],
                       [recovery EXCEPT !.tries = @ + 1]}
    BY DEF Recovers
  <2> QED
    BY <1>1, <2>1, <2>2
<1>5. /\ refs' \in [active : 0 .. MaxGenerations, room : 0 .. MaxGenerations,
                    last : 0 .. MaxGenerations]
      /\ rooms' \in [Generations -> Room]
  <2>1. CASE Connects("recovery", recovery.stream)
    BY <1>1, <2>1, ConnectsIs
  <2>2. CASE UNCHANGED <<refs, rooms>>
    BY <1>1, <2>2 DEF RoomRows, RoomTypeOK
  <2> QED
    BY <2>1, <2>2 DEF Recovers
<1> QED
  BY <1>1, <1>2, <1>3, <1>4, <1>5
     DEF RoomIInv, RoomRows, RoomTypeOK, StartsAreCurrent, LeavingEndsRecovery

LEMMA StartGoesOnKeeps ==
    ASSUME RoomIInv, StartGoesOn, UNCHANGED recovery
    PROVE  RoomIInv'
<1>1. /\ page \in Page /\ RoomRows /\ start.at \in {"session", "media"}
      /\ start \in [at : {"none", "session", "media", "room", "failing", "aborted"},
                    stream : 0 .. MaxStarts]
      /\ start.stream \in Starts /\ ~page.abandoning
  BY DEF RoomIInv, RoomRows, RoomTypeOK, StartsAreCurrent, StartGoesOn
<1>2. CASE start.at = "session"
  <2>1. UNCHANGED <<page, refs, rooms, mic>> /\ start' = [start EXCEPT !.at = "media"]
    BY <1>2 DEF StartGoesOn
  <2> QED
    BY <1>1, <2>1 DEF RoomIInv, RoomRows, RoomTypeOK, StartsAreCurrent, LeavingEndsRecovery
<1>3. CASE start.at = "media"
  <2>1. /\ start' = [start EXCEPT !.at = "room"] /\ mic' = mic \cup {start.stream}
        /\ page' = [page EXCEPT !.stream = start.stream]
        /\ Connects("start", start.stream)
    BY <1>3 DEF StartGoesOn
  <2>2. page' \in Page /\ page'.abandoning = page.abandoning
    BY <1>1, <2>1 DEF Page
  <2>3. /\ refs' \in [active : 0 .. MaxGenerations, room : 0 .. MaxGenerations,
                      last : 0 .. MaxGenerations]
        /\ rooms' \in [Generations -> Room]
    BY <1>1, <2>1, ConnectsIs
  <2>4. mic' \subseteq Starts
    BY <1>1, <2>1 DEF RoomRows, RoomTypeOK
  <2> QED
    BY <1>1, <2>1, <2>2, <2>3, <2>4
       DEF RoomIInv, RoomRows, RoomTypeOK, StartsAreCurrent, LeavingEndsRecovery
<1> QED
  BY <1>1, <1>2, <1>3

LEMMA StartFailsKeeps ==
    ASSUME RoomIInv, StartFails, UNCHANGED recovery
    PROVE  RoomIInv'
<1>1. /\ page \in Page /\ RoomRows /\ LeavingEndsRecovery /\ rooms' = LeaveRoom
      /\ refs \in [active : 0 .. MaxGenerations, room : 0 .. MaxGenerations,
                   last : 0 .. MaxGenerations]
      /\ refs' = [refs EXCEPT !.room = 0] /\ start' = NoStart /\ mic' \subseteq Starts
  BY DEF RoomIInv, RoomRows, RoomTypeOK, StartFails
<1>2. page' \in Page /\ page'.abandoning = page.abandoning
  <2>1. page' = [page EXCEPT !.status = "failed", !.stream = 0]
        \/ page' = [page EXCEPT !.stream = 0]
    BY DEF StartFails
  <2> QED
    BY <1>1, <2>1, PageShows DEF Status
<1>3. rooms' \in [Generations -> Room] /\ NothingNewConnects
  BY <1>1, TheRoomIsLeft
<1>4. refs' \in [active : 0 .. MaxGenerations, room : 0 .. MaxGenerations,
                 last : 0 .. MaxGenerations] /\ refs'.active = refs.active
  BY <1>1, NothingFits
<1>5. LeavingEndsRecovery'
  BY <1>1, <1>2, <1>3, <1>4, LeftRemainsLeft
<1> QED
  BY <1>1, <1>2, <1>3, <1>4, <1>5, NothingFits
     DEF RoomIInv, RoomRows, RoomTypeOK, StartsAreCurrent, NoStart

\* Whoever's room ended goes on, and nobody who was not waiting for one.
LEMMA EndsIs ==
    ASSUME RoomRows, NEW g \in Generations, NEW well \in BOOLEAN, Ends(g, well)
    PROVE  /\ start' \in [at : {"none", "session", "media", "room", "failing", "aborted"},
                          stream : 0 .. MaxStarts]
           /\ recovery' \in [at : {"none", "wait", "room"}, stream : 0 .. MaxStarts, tries : Nat]
           /\ recovery = NoRecovery => recovery' = NoRecovery
           /\ start' = start \/ (start.at = "room" /\ start'.at \in {"none", "failing"})
<1>1. /\ start \in [at : {"none", "session", "media", "room", "failing", "aborted"},
                    stream : 0 .. MaxStarts]
      /\ recovery \in [at : {"none", "wait", "room"}, stream : 0 .. MaxStarts, tries : Nat]
  BY DEF RoomRows
<1>2. CASE rooms[g].by = "start"
  <2>1. recovery' = recovery
    BY <1>2 DEF Ends
  <2>2. \/ start' = start
        \/ start.at = "room" /\ start' \in {NoStart, [start EXCEPT !.at = "failing"]}
    BY <1>2 DEF Ends
  <2> QED
    BY <1>1, <2>1, <2>2, NothingFits DEF NoStart
<1>3. CASE rooms[g].by # "start"
  <2>1. start' = start
    BY <1>3 DEF Ends
  <2>2. \/ recovery' = recovery
        \/ recovery.at = "room" /\ recovery' \in {NoRecovery, [recovery EXCEPT !.at = "wait"]}
    BY <1>3 DEF Ends
  <2> QED
    BY <1>1, <2>1, <2>2, NothingFits DEF NoRecovery
<1> QED
  BY <1>2, <1>3

\* A connection is opened, handed over, lost or gone.
LEMMA RoomStateIs ==
    ASSUME RoomRows, NEW g \in Generations, rooms[g].state \in {"connecting", "open", "lost", "ready"},
           NEW state \in {"open", "lost", "ready", "gone"},
           rooms' = [rooms EXCEPT ![g].state = state],
           state \in {"open", "lost"} => Unfinished(g)
    PROVE  rooms' \in [Generations -> Room] /\ NothingNewConnects
<1> DEFINE room == [rooms[g] EXCEPT !.state = state]
<1>1. rooms \in [Generations -> Room] /\ rooms[g] \in Room
  BY DEF RoomRows, RoomTypeOK
<1>2. room \in Room /\ room.by = rooms[g].by /\ room.state = state
  BY <1>1 DEF Room
<1>3. rooms' = [rooms EXCEPT ![g] = room]
  OBVIOUS
<1> HIDE DEF room
<1> QED
  BY <1>1, <1>2, <1>3 DEF NothingNewConnects, Unfinished

\* What a connection does that leaves who left alone, and brings nothing new up.
LEMMA ConnectionKeeps ==
    ASSUME RoomIInv, UNCHANGED mic, page' \in Page, page'.abandoning => page.abandoning,
           refs' \in [active : 0 .. MaxGenerations, room : 0 .. MaxGenerations,
                      last : 0 .. MaxGenerations],
           refs'.active \in {refs.active, 0},
           rooms' \in [Generations -> Room], NothingNewConnects,
           start' \in [at : {"none", "session", "media", "room", "failing", "aborted"},
                       stream : 0 .. MaxStarts],
           start' = start \/ (start.at = "room" /\ start'.at \in {"none", "failing"}),
           recovery' \in [at : {"none", "wait", "room"}, stream : 0 .. MaxStarts, tries : Nat],
           recovery = NoRecovery => recovery' = NoRecovery
    PROVE  RoomIInv'
<1>1. LeavingEndsRecovery'
  BY LeftRemainsLeft DEF RoomIInv
<1> QED
  BY <1>1 DEF RoomIInv, RoomRows, RoomTypeOK, StartsAreCurrent

LEMMA ConnectionsKeep ==
    ASSUME RoomIInv, NEW g \in Generations, UNCHANGED mic,
           RoomOpens(g) \/ RoomReady(g) \/ ConnectFails(g) \/ RoomReports(g)
    PROVE  RoomIInv'
<1>1. /\ RoomRows /\ page \in Page /\ rooms \in [Generations -> Room]
      /\ refs \in [active : 0 .. MaxGenerations, room : 0 .. MaxGenerations,
                   last : 0 .. MaxGenerations]
      /\ start \in [at : {"none", "session", "media", "room", "failing", "aborted"},
                    stream : 0 .. MaxStarts]
      /\ recovery \in [at : {"none", "wait", "room"}, stream : 0 .. MaxStarts, tries : Nat]
      /\ g \in 0 .. MaxGenerations
  BY RoomAssumption DEF RoomIInv, RoomRows, RoomTypeOK, Generations
<1>2. CASE RoomOpens(g)
  <2>1. rooms' \in [Generations -> Room] /\ NothingNewConnects
    BY <1>1, <1>2, RoomStateIs DEF RoomOpens, Unfinished
  <2>2. UNCHANGED <<page, refs, start, recovery>>
    BY <1>2 DEF RoomOpens
  <2> QED
    BY <1>1, <2>1, <2>2, ConnectionKeeps
<1>3. CASE RoomReady(g)
  <2>1. PICK state \in {"ready", "gone"} : rooms' = [rooms EXCEPT ![g].state = state]
    BY <1>3 DEF RoomReady
  <2>2. rooms' \in [Generations -> Room] /\ NothingNewConnects
    BY <1>1, <1>3, <2>1, RoomStateIs DEF RoomReady
  <2>3. refs' \in {refs, [refs EXCEPT !.room = g]}
    BY <1>3 DEF RoomReady
  <2>4. page' \in Page /\ page'.abandoning = page.abandoning
    BY <1>1, <1>3, PageShows DEF RoomReady, Status
  <2>5. Ends(g, TRUE)
    BY <1>3 DEF RoomReady
  <2>6. /\ refs' \in [active : 0 .. MaxGenerations, room : 0 .. MaxGenerations,
                      last : 0 .. MaxGenerations]
        /\ refs'.active = refs.active
    BY <1>1, <2>3
  <2> QED
    BY <1>1, <2>2, <2>4, <2>5, <2>6, EndsIs, ConnectionKeeps
<1>4. CASE ConnectFails(g)
  <2>1. rooms' \in [Generations -> Room] /\ NothingNewConnects
    BY <1>1, <1>4, RoomsGo DEF ConnectFails, NothingNewConnects, Unfinished
  <2>2. refs' \in {refs, [refs EXCEPT !.active = 0]} /\ UNCHANGED page
    BY <1>4 DEF ConnectFails
  <2>3. /\ refs' \in [active : 0 .. MaxGenerations, room : 0 .. MaxGenerations,
                      last : 0 .. MaxGenerations]
        /\ refs'.active \in {refs.active, 0}
    BY <1>1, <2>2, NothingFits
  <2>4. Ends(g, FALSE)
    BY <1>4 DEF ConnectFails
  <2> QED
    BY <1>1, <2>1, <2>2, <2>3, <2>4, EndsIs, ConnectionKeeps
<1>5. CASE RoomReports(g)
  <2>1. PICK status \in {"live", "reconnecting"} : page' = [page EXCEPT !.status = status]
    BY <1>5 DEF RoomReports
  <2>2. page' \in Page /\ page'.abandoning = page.abandoning
    BY <1>1, <2>1, PageShows DEF Status
  <2>3. UNCHANGED <<refs, rooms, start, recovery>>
    BY <1>5 DEF RoomReports
  <2> QED
    BY <1>1, <2>2, <2>3, OnlyShows
<1> QED
  BY <1>2, <1>3, <1>4, <1>5

\* A connection is lost: a recovery begins only for who has not left.
LEMMA DisconnectsKeeps ==
    ASSUME RoomIInv, NEW g \in Generations, UNCHANGED mic, Disconnects(g)
    PROVE  RoomIInv'
<1>1. /\ RoomRows /\ page \in Page /\ rooms \in [Generations -> Room] /\ rooms[g] \in Room
      /\ refs \in [active : 0 .. MaxGenerations, room : 0 .. MaxGenerations,
                   last : 0 .. MaxGenerations]
      /\ start' = start
      /\ start \in [at : {"none", "session", "media", "room", "failing", "aborted"},
                    stream : 0 .. MaxStarts]
      /\ recovery \in [at : {"none", "wait", "room"}, stream : 0 .. MaxStarts, tries : Nat]
  BY DEF RoomIInv, RoomRows, RoomTypeOK, Disconnects
<1>2. rooms' \in [Generations -> Room] /\ NothingNewConnects
  <2>1. PICK state \in {"lost", "gone"} :
            /\ rooms' = [rooms EXCEPT ![g].state = state]
            /\ state = "lost" => rooms[g].state = "open"
    <3>1. CASE rooms[g].state = "open"
      BY <1>1, <3>1 DEF Disconnects
    <3>2. CASE rooms[g].state # "open"
      BY <1>1, <3>2 DEF Disconnects
    <3> QED
      BY <3>1, <3>2
  <2> QED
    BY <1>1, <2>1, RoomStateIs DEF Disconnects, Unfinished
<1>3. refs' \in {refs, NoRoomInHand}
  BY DEF Disconnects
<1>4. /\ refs' \in [active : 0 .. MaxGenerations, room : 0 .. MaxGenerations,
                    last : 0 .. MaxGenerations]
      /\ refs'.active \in {refs.active, 0}
  BY <1>1, <1>3, RefsCleared
<1>5. CASE UNCHANGED recovery
  <2>1. page' \in {page, [page EXCEPT !.status = "failed"], [page EXCEPT !.status = "reconnecting"]}
    BY DEF Disconnects
  <2>2. page' \in Page /\ page'.abandoning = page.abandoning
    BY <1>1, <2>1, PageShows DEF Status
  <2> QED
    BY <1>1, <1>2, <1>4, <1>5, <2>2, ConnectionKeeps
<1>6. CASE /\ ~page.abandoning
           /\ recovery' = [at |-> "wait", stream |-> rooms[g].stream, tries |-> 0]
           /\ page' = [page EXCEPT !.status = "reconnecting"]
  <2>1. page' \in Page /\ page'.abandoning = page.abandoning
    BY <1>1, <1>6, PageShows DEF Status
  <2>2. recovery' \in [at : {"none", "wait", "room"}, stream : 0 .. MaxStarts, tries : Nat]
    BY <1>1, <1>6 DEF Room
  <2> QED
    BY <1>1, <1>2, <1>4, <1>6, <2>1, <2>2
       DEF RoomIInv, RoomRows, RoomTypeOK, StartsAreCurrent, LeavingEndsRecovery
<1> QED
  BY <1>5, <1>6, Zenon DEF Disconnects

LEMMA RoomKeepsInvariant == RoomIInv /\ [RoomNext]_roomVars => RoomIInv'
<1> SUFFICES ASSUME RoomIInv, [RoomNext]_roomVars PROVE RoomIInv'
  OBVIOUS
<1>1. CASE PressStart \/ PressEnd
  BY <1>1, PressStartKeeps, PressEndKeeps
<1>2. CASE RetryAfterAbandon \/ UseForm \/ SessionEnds \/ PollReads \/ PollAnswers
  BY <1>2, PageActionsKeep
<1>3. CASE ContinueInWriting \/ FailureTakesDown
  BY <1>3, PutsDownKeeps
<1>4. CASE TimerFires \/ RecoveryExhausted \/ Recovers
  BY <1>4, TimerKeeps, ExhaustedKeeps, RecoversKeeps
<1>5. CASE (StartGoesOn \/ StartFails) /\ UNCHANGED <<recovery, poll>>
  BY <1>5, StartGoesOnKeeps, StartFailsKeeps
<1>6. CASE \E g \in Generations : /\ \/ RoomOpens(g) \/ RoomReady(g) \/ ConnectFails(g)
                                     \/ RoomReports(g) \/ Disconnects(g)
                                  /\ UNCHANGED <<mic, poll, session>>
  BY <1>6, ConnectionsKeep, DisconnectsKeeps
<1>7. CASE UNCHANGED roomVars
  BY <1>7 DEF roomVars, RoomIInv, RoomRows, RoomTypeOK, StartsAreCurrent, LeavingEndsRecovery,
              Unfinished
<1> QED
  BY <1>1, <1>2, <1>3, <1>4, <1>5, <1>6, <1>7, Zenon DEF RoomNext

\* A candidate who leaves by the button has left, however many starts, connections and
\* attempts of a recovery the tab had under way.
THEOREM WhoLeavesHasLeft == RoomSpec => []RoomInv
<1>1. RoomSpec => []RoomIInv
  BY RoomInitially, RoomKeepsInvariant, PTL DEF RoomSpec
<1> QED
  BY <1>1, RoomInvFollows, PTL

-----------------------------------------------------------------------------
(* A generated draft.  Everything the code filters keeps its order: the    *)
(* places kept are ranked by how many are kept up to each, no two of them  *)
(* rank alike, and so every rank up to their number is somebody's.         *)

\* Every place of a set of places is the i-th for one i up to their number.
LEMMA PlacesAreRanked ==
    ASSUME NEW n \in Nat, NEW places \in SUBSET (1 .. n)
    PROVE  /\ Cardinality(places) \in Nat
           /\ \A i \in 1 .. Cardinality(places) :
                 /\ Place(places, i) \in places
                 /\ Cardinality(Upto(places, Place(places, i))) = i
<1> DEFINE count == Cardinality(places)
           rank == [k \in places |-> Cardinality(Upto(places, k))]
<1>1. IsFiniteSet(places) /\ count \in Nat
  <2>1. IsFiniteSet(1 .. n)
    BY FS_Interval
  <2>2. IsFiniteSet(places)
    BY <2>1, FS_Subset
  <2> QED
    BY <2>2, FS_CardinalityType
<1>2. ASSUME NEW k \in places
      PROVE  /\ IsFiniteSet(Upto(places, k)) /\ k \in Upto(places, k)
             /\ Cardinality(Upto(places, k)) \in 1 .. count
  <2>1. Upto(places, k) \in SUBSET places /\ k \in Upto(places, k)
    BY DEF Upto
  <2>2. IsFiniteSet(Upto(places, k)) /\ Cardinality(Upto(places, k)) <= count
    BY <1>1, <2>1, FS_Subset
  <2>3. Cardinality(Upto(places, k)) \in Nat /\ Cardinality(Upto(places, k)) # 0
    BY <2>1, <2>2, FS_CardinalityType, FS_EmptySet
  <2>4. \A c, m \in Nat : c # 0 /\ c <= m => c \in 1 .. m
    OBVIOUS
  <2>5. Cardinality(Upto(places, k)) \in 1 .. count
    BY <1>1, <2>2, <2>3, <2>4
  <2> QED
    BY <2>1, <2>2, <2>5
<1>3. ASSUME NEW k \in places, NEW l \in places, k < l
      PROVE  Cardinality(Upto(places, k)) # Cardinality(Upto(places, l))
  <2>1. Upto(places, k) \in SUBSET Upto(places, l) /\ l \in Upto(places, l) /\ l \notin Upto(places, k)
    <3>1. \A j \in places : j \in Nat
      OBVIOUS
    <3>2. \A j \in places : j <= k => j <= l
      BY <1>3, <3>1
    <3>3. l <= l /\ ~(l <= k)
      BY <1>3, <3>1
    <3> QED
      BY <3>2, <3>3 DEF Upto
  <2>2. Upto(places, k) # Upto(places, l)
    BY <2>1
  <2> QED
    BY <1>2, <2>1, <2>2, FS_Subset
<1>4. rank \in Injection(places, 1 .. count)
  <2>1. rank \in [places -> 1 .. count]
    BY <1>2
  <2>2. \A k, l \in places : Cardinality(Upto(places, k)) = Cardinality(Upto(places, l)) => k = l
    <3> SUFFICES ASSUME NEW k \in places, NEW l \in places, k # l
                 PROVE  Cardinality(Upto(places, k)) # Cardinality(Upto(places, l))
      OBVIOUS
    <3>1. CASE k < l
      BY <1>3, <3>1
    <3>2. CASE l < k
      <4>1. Cardinality(Upto(places, l)) # Cardinality(Upto(places, k))
        BY <1>3, <3>2
      <4> QED
        BY <4>1
    <3>3. k < l \/ l < k
      OBVIOUS
    <3> QED
      BY <3>1, <3>2, <3>3
  <2>3. \A k, l \in places : rank[k] = rank[l] => k = l
    BY <2>2
  <2> QED
    BY <2>1, <2>3 DEF Injection, IsInjective
<1>5. rank \in Surjection(places, 1 .. count)
  <2>1. IsFiniteSet(1 .. count) /\ Cardinality(1 .. count) = count
    BY <1>1, FS_Interval
  <2> QED
    BY <1>1, <1>4, <2>1, FS_Injection
<1>6. ASSUME NEW i \in 1 .. count
      PROVE  Place(places, i) \in places /\ Cardinality(Upto(places, Place(places, i))) = i
  <2>1. PICK k \in places : rank[k] = i
    BY <1>5 DEF Surjection
  <2>2. Cardinality(Upto(places, k)) = i
    BY <2>1
  <2> QED
    BY <2>2 DEF Place
<1> QED
  BY <1>1, <1>6

\* What is kept of a list is a list of its members, each taken from a place of its
\* own.
LEMMA KeptAreMembers ==
    ASSUME NEW S, NEW questions \in Seq(S), NEW places \in SUBSET DOMAIN questions
    PROVE  /\ Kept(questions, places) \in Seq(S)
           /\ \A i \in DOMAIN Kept(questions, places) :
                 /\ Place(places, i) \in places
                 /\ Kept(questions, places)[i] = questions[Place(places, i)]
           /\ \A i, j \in DOMAIN Kept(questions, places) :
                 Place(places, i) = Place(places, j) => i = j
<1> DEFINE count == Cardinality(places)
<1>1. Len(questions) \in Nat /\ DOMAIN questions = 1 .. Len(questions)
  OBVIOUS
<1>2. count \in Nat
  BY <1>1, PlacesAreRanked
<1>3. \A i \in 1 .. count :
         /\ Place(places, i) \in places
         /\ Cardinality(Upto(places, Place(places, i))) = i
  BY <1>1, PlacesAreRanked
<1>4. \A i, j \in 1 .. count : Place(places, i) = Place(places, j) => i = j
  BY <1>3
<1>5. Kept(questions, places) = [i \in 1 .. count |-> questions[Place(places, i)]]
  BY DEF Kept
<1> HIDE DEF count
<1>6. \A i \in 1 .. count : questions[Place(places, i)] \in S
  BY <1>3
<1>7. Kept(questions, places) \in Seq(S)
  BY <1>2, <1>5, <1>6
<1>8. DOMAIN Kept(questions, places) = 1 .. count
  BY <1>5
<1> QED
  BY <1>3, <1>4, <1>5, <1>7, <1>8

Ids == ModelIds \cup ({"q", "template"} \X Nat)

Question == [id : Ids, prompt : {"short", "dirty", "fine"}]

FineQuestion == [id : Ids, prompt : {"fine"}]

\* No two questions of a list have one id.
Distinct(questions) ==
    \A k, l \in DOMAIN questions : questions[k].id = questions[l].id => k = l

\* What is normalized are questions, and what is screened are fine ones.
LEMMA ScreenedAreFine ==
    ASSUME NEW length \in Nat, NEW payload \in [1 .. length -> Written]
    PROVE  Screened(Normalized(payload)) \in Seq(FineQuestion)
<1> DEFINE named == [k \in DOMAIN payload |->
                       [payload[k] EXCEPT !.id = IF @ = Missing THEN <<"q", k>> ELSE @]]
           long == {k \in DOMAIN payload : payload[k].prompt # "short"}
           questions == Normalized(payload)
           clean == {k \in DOMAIN questions : questions[k].prompt = "fine"}
<1>1. named \in [1 .. length -> Question]
  <2> SUFFICES ASSUME NEW k \in 1 .. length
               PROVE  [payload[k] EXCEPT !.id = IF @ = Missing THEN <<"q", k>> ELSE @] \in Question
    OBVIOUS
  <2>1. payload[k] \in [id : ModelIds, prompt : {"short", "dirty", "fine"}]
    BY DEF Written
  <2>2. <<"q", k>> \in Ids /\ payload[k].id \in Ids
    BY <2>1 DEF Ids
  <2> QED
    BY <2>1, <2>2 DEF Question
<1>2. named \in Seq(Question) /\ long \in SUBSET DOMAIN named
  <2>1. DOMAIN named = 1 .. length /\ DOMAIN payload = 1 .. length
    OBVIOUS
  <2>2. long \in SUBSET DOMAIN named
    BY <2>1
  <2> HIDE DEF named, long
  <2>3. named \in Seq(Question)
    BY <1>1
  <2> QED
    BY <2>2, <2>3
<1>3. questions \in Seq(Question)
  <2>1. questions = Kept(named, long)
    BY DEF Normalized
  <2> HIDE DEF named, long, questions
  <2> QED
    BY <1>2, <2>1, KeptAreMembers
<1> HIDE DEF questions
<1>4. /\ Screened(questions) \in Seq(Question)
      /\ \A i \in DOMAIN Screened(questions) : Screened(questions)[i].prompt = "fine"
  <2>1. clean \in SUBSET DOMAIN questions
    OBVIOUS
  <2>2. Screened(questions) = Kept(questions, clean)
    BY DEF Screened
  <2>3. \A k \in clean : questions[k].prompt = "fine"
    OBVIOUS
  <2> HIDE DEF clean
  <2> QED
    BY <1>3, <2>1, <2>2, <2>3, KeptAreMembers
<1>5. \A q \in Question : q.prompt = "fine" => q \in FineQuestion
  BY DEF Question, FineQuestion
<1>6. Screened(questions) \in Seq(FineQuestion)
  <2> DEFINE screened == Screened(questions)
  <2>1. screened \in Seq(Question) /\ \A i \in DOMAIN screened : screened[i] \in FineQuestion
    BY <1>4, <1>5
  <2> HIDE DEF screened
  <2>2. screened \in Seq(FineQuestion)
    BY <2>1
  <2> QED
    BY <2>2 DEF screened
<1> QED
  BY <1>6 DEF questions

\* What is deduplicated has each id once.
LEMMA DedupedAreDistinct ==
    ASSUME NEW questions \in Seq(FineQuestion)
    PROVE  Deduped(questions) \in Seq(FineQuestion) /\ Distinct(Deduped(questions))
<1> DEFINE firsts == {k \in DOMAIN questions :
                        \A l \in 1 .. k - 1 : questions[l].id # questions[k].id}
<1>1. firsts \in SUBSET DOMAIN questions /\ DOMAIN questions = 1 .. Len(questions)
      /\ Len(questions) \in Nat
  OBVIOUS
<1>2. \A k, l \in firsts : k < l => questions[k].id # questions[l].id
  BY <1>1
<1>3. \A k, l \in firsts : questions[k].id = questions[l].id => k = l
  <2> SUFFICES ASSUME NEW k \in firsts, NEW l \in firsts, k # l
               PROVE  questions[k].id # questions[l].id
    OBVIOUS
  <2>1. k < l \/ l < k
    BY <1>1
  <2> QED
    BY <1>2, <2>1
<1>4. Deduped(questions) = Kept(questions, firsts)
  BY DEF Deduped
<1> HIDE DEF firsts
<1> QED
  BY <1>1, <1>3, <1>4, KeptAreMembers DEF Distinct

\* A cut keeps the first ones.
LEMMA CutKeepsTheFirst ==
    ASSUME asked.target \in Nat, NEW S, NEW questions \in Seq(S)
    PROVE  /\ Cut(questions) \in Seq(S)
           /\ Len(Cut(questions)) <= asked.target
           /\ \A k \in DOMAIN Cut(questions) :
                 k \in DOMAIN questions /\ Cut(questions)[k] = questions[k]
<1>1. Len(questions) \in Nat /\ DOMAIN questions = 1 .. Len(questions)
  OBVIOUS
<1>2. \A a, b \in Nat : Smaller(a, b) \in Nat /\ Smaller(a, b) <= a /\ Smaller(a, b) <= b
  BY DEF Smaller
<1> DEFINE m == Smaller(Len(questions), asked.target)
<1>3. m \in Nat /\ m <= Len(questions) /\ m <= asked.target
  BY <1>1, <1>2
<1>4. Cut(questions) = SubSeq(questions, 1, m)
  BY DEF Cut
<1> HIDE DEF m
<1>5. /\ SubSeq(questions, 1, m) \in Seq(S)
      /\ Len(SubSeq(questions, 1, m)) = m
      /\ \A k \in 1 .. m : SubSeq(questions, 1, m)[k] = questions[k]
  BY <1>1, <1>3
<1>6. DOMAIN SubSeq(questions, 1, m) = 1 .. m
  BY <1>5
<1> QED
  BY <1>1, <1>3, <1>4, <1>5, <1>6

\* What is left of the template is fine, distinct, and of ids the others do not have.
LEMMA UntakenAreNew ==
    ASSUME asked \in [target : Nat, template : Nat], NEW own
    PROVE  /\ Untaken(own) \in Seq(FineQuestion)
           /\ Distinct(Untaken(own))
           /\ \A k \in DOMAIN Untaken(own), l \in DOMAIN own : own[l].id # Untaken(own)[k].id
<1> DEFINE free == {k \in DOMAIN Template : \A l \in DOMAIN own : own[l].id # Template[k].id}
<1>1. PICK m \in Nat : m = Smaller(asked.template, asked.target)
  BY DEF Smaller
<1>2. /\ DOMAIN Template = 1 .. m
      /\ \A k \in 1 .. m : Template[k] = Fine(<<"template", k>>)
  BY <1>1 DEF Template
<1>3. \A k \in 1 .. m : Template[k].id = <<"template", k>>
  BY <1>2 DEF Fine
<1>4. \A k \in 1 .. m : Template[k] \in FineQuestion
  <2> SUFFICES ASSUME NEW k \in 1 .. m
               PROVE  Template[k] \in FineQuestion
    OBVIOUS
  <2>1. <<"template", k>> \in Ids
    BY DEF Ids
  <2> QED
    BY <1>2, <2>1 DEF Fine, FineQuestion
<1>5. Template \in Seq(FineQuestion)
  <2>1. Template = [k \in 1 .. m |-> Template[k]]
    BY <1>1 DEF Template
  <2> QED
    BY <1>4, <2>1
<1>6. free \in SUBSET DOMAIN Template
  OBVIOUS
<1>7. \A k, l \in free : Template[k].id = Template[l].id => k = l
  <2> SUFFICES ASSUME NEW k \in free, NEW l \in free, <<"template", k>> = <<"template", l>>
               PROVE  k = l
    BY <1>2, <1>3
  <2> QED
    OBVIOUS
<1>8. \A k \in free, l \in DOMAIN own : own[l].id # Template[k].id
  OBVIOUS
<1>9. Untaken(own) = Kept(Template, free)
  BY DEF Untaken
<1> HIDE DEF free
<1> QED
  BY <1>5, <1>6, <1>7, <1>8, <1>9, KeptAreMembers DEF Distinct

\* Two lists of which neither repeats an id of its own or of the other's.
LEMMA JoinedAreDistinct ==
    ASSUME NEW S, NEW these \in Seq(S), NEW those \in Seq(S), Distinct(these), Distinct(those),
           \A k \in DOMAIN those, l \in DOMAIN these : these[l].id # those[k].id
    PROVE  Distinct(these \o those)
<1> DEFINE all == these \o those
           n == Len(these)
<1>1. /\ n \in Nat /\ DOMAIN these = 1 .. n
      /\ DOMAIN those = 1 .. Len(those) /\ Len(those) \in Nat
      /\ all \in Seq(S) /\ DOMAIN all = 1 .. (n + Len(those))
  OBVIOUS
<1>2. \A k \in DOMAIN all : \/ k \in DOMAIN these /\ all[k] = these[k]
                            \/ k - n \in DOMAIN those /\ all[k] = those[k - n]
  BY <1>1
<1>3. \A k, l \in DOMAIN all : k - n = l - n => k = l
  BY <1>1
<1> HIDE DEF all, n
<1>4. Distinct(all)
  <2> SUFFICES ASSUME NEW k \in DOMAIN all, NEW l \in DOMAIN all, all[k].id = all[l].id
               PROVE  k = l
    BY DEF Distinct
  <2>1. CASE k \in DOMAIN these /\ all[k] = these[k]
    <3>1. CASE l \in DOMAIN these /\ all[l] = these[l]
      BY <2>1, <3>1 DEF Distinct
    <3>2. CASE l - n \in DOMAIN those /\ all[l] = those[l - n]
      <4>1. these[k].id # those[l - n].id
        BY <2>1, <3>2
      <4> QED
        BY <2>1, <3>2, <4>1
    <3> QED
      BY <1>2, <3>1, <3>2
  <2>2. CASE k - n \in DOMAIN those /\ all[k] = those[k - n]
    <3>1. CASE l \in DOMAIN these /\ all[l] = these[l]
      <4>1. these[l].id # those[k - n].id
        BY <2>2, <3>1
      <4> QED
        BY <2>2, <3>1, <4>1
    <3>2. CASE l - n \in DOMAIN those /\ all[l] = those[l - n]
      <4>1. those[k - n].id = those[l - n].id
        BY <2>2, <3>2
      <4>2. k - n = l - n
        BY <2>2, <3>2, <4>1 DEF Distinct
      <4> QED
        BY <1>3, <4>2
    <3> QED
      BY <1>2, <3>1, <3>2
  <2> QED
    BY <1>2, <2>1, <2>2
<1> QED
  BY <1>4 DEF all

\* What is filled up is as long as was asked, fine, and repeats an id with its
\* padding at most.
LEMMA FilledIsSound ==
    ASSUME asked \in [target : Nat, template : Nat], NEW questions \in Seq(FineQuestion)
    PROVE  LET filled == Filled(questions)
           IN  /\ DOMAIN filled = 1 .. asked.target
               /\ Len(filled) = asked.target
               /\ \A k \in DOMAIN filled : filled[k].prompt = "fine"
               /\ \A k, l \in DOMAIN filled :
                     k < l /\ filled[k].id = filled[l].id => filled[l] = Padding(l)
<1> DEFINE own == Deduped(Cut(questions))
           joined == own \o Untaken(own)
           more == Cut(joined)
           filled == [k \in 1 .. asked.target |-> IF k <= Len(more) THEN more[k] ELSE Padding(k)]
<1>1. asked.target \in Nat
  OBVIOUS
<1>2. Cut(questions) \in Seq(FineQuestion)
  BY <1>1, CutKeepsTheFirst
<1>3. own \in Seq(FineQuestion) /\ Distinct(own)
  BY <1>2, DedupedAreDistinct
<1>4. /\ Untaken(own) \in Seq(FineQuestion) /\ Distinct(Untaken(own))
      /\ \A k \in DOMAIN Untaken(own), l \in DOMAIN own : own[l].id # Untaken(own)[k].id
  BY UntakenAreNew
<1> HIDE DEF own
<1>5. joined \in Seq(FineQuestion) /\ Distinct(joined)
  BY <1>3, <1>4, JoinedAreDistinct
<1> HIDE DEF joined
<1>6. /\ more \in Seq(FineQuestion)
      /\ \A k \in DOMAIN more : k \in DOMAIN joined /\ more[k] = joined[k]
  BY <1>1, <1>5, CutKeepsTheFirst
<1> HIDE DEF more
<1>7. Distinct(more)
  BY <1>5, <1>6 DEF Distinct
<1>8. DOMAIN more = 1 .. Len(more) /\ Len(more) \in Nat
  BY <1>6
<1>9. \A k \in 1 .. asked.target : \/ k \in DOMAIN more /\ filled[k] = more[k]
                                   \/ filled[k] = Padding(k) /\ k > Len(more)
  BY <1>1, <1>8
<1>10. DOMAIN filled = 1 .. asked.target /\ Len(filled) = asked.target
  <2>1. DOMAIN filled = 1 .. asked.target
    OBVIOUS
  <2> HIDE DEF filled
  <2> QED
    BY <1>1, <2>1
<1>11. Filled(questions) = filled
  BY DEF Filled, own, joined, more
<1> HIDE DEF filled
<1>12. \A k \in DOMAIN filled : filled[k].prompt = "fine"
  <2>1. \A k \in DOMAIN more : more[k] \in FineQuestion
    BY <1>6, <1>8
  <2>2. \A k \in DOMAIN more : more[k].prompt = "fine"
    BY <2>1 DEF FineQuestion
  <2>3. \A k : Padding(k).prompt = "fine"
    BY DEF Padding, Fine
  <2> QED
    BY <1>9, <1>10, <2>2, <2>3
<1>13. \A k, l \in DOMAIN filled :
          k < l /\ filled[k].id = filled[l].id => filled[l] = Padding(l)
  <2> SUFFICES ASSUME NEW k \in DOMAIN filled, NEW l \in DOMAIN filled, k < l,
                      filled[k].id = filled[l].id, l \in DOMAIN more, filled[l] = more[l]
               PROVE  FALSE
    BY <1>9, <1>10
  <2>1. k \in DOMAIN more /\ filled[k] = more[k]
    BY <1>1, <1>8, <1>9, <1>10
  <2>2. more[k].id = more[l].id /\ k # l
    BY <1>1, <1>10, <2>1
  <2> QED
    BY <1>7, <2>1, <2>2 DEF Distinct
<1> QED
  BY <1>10, <1>11, <1>12, <1>13

\* A draft that is generated is sound, whatever the model answered.
LEMMA GenerationStarts ==
    ASSUME GenerationInit
    PROVE  GenerationInv
<1>1. generated = NoDraftYet /\ generated.guardrails = 0
  BY DEF GenerationInit, NoDraftYet
<1>2. 0 \in 0 .. RequiredGuardrails
  BY GenerationAssumption
<1> QED
  BY <1>1, <1>2 DEF GenerationInit, GenerationInv, GenerationTypeOK, DraftsAreSound

\* An answer's draft is sound, and so is the one that goes without an answer.
LEMMA GenerateIsSound ==
    ASSUME GenerationInv, Generate
    PROVE  GenerationInv'
<1>1. asked' = asked /\ asked \in [target : MinQuestions .. MaxQuestions,
                                   template : 1 .. MaxQuestions]
  BY DEF Generate, GenerationInv, GenerationTypeOK
<1>2. asked \in [target : Nat, template : Nat]
  BY <1>1, PlanPolicyAssumption
<1>3. PICK length \in Nat, own \in Nat :
         \E payload \in [1 .. length -> Written] : generated' = Draft(payload, own)
  <2>1. CASE \E length \in 0 .. PayloadLength, own \in ModelGuardrails :
                \E payload \in [1 .. length -> Written] : generated' = Draft(payload, own)
    BY <2>1, GenerationAssumption
  <2>2. CASE generated' = Draft(<<>>, 0)
    <3>1. <<>> \in [1 .. 0 -> Written]
      OBVIOUS
    <3> QED
      BY <2>2, <3>1
  <2> QED
    BY <2>1, <2>2 DEF Generate
<1> PICK payload \in [1 .. length -> Written] : generated' = Draft(payload, own)
  BY <1>3
<1> DEFINE questions == Screened(Normalized(payload))
<1>4. generated'.questions = Filled(questions) /\ generated'.guardrails = Guardrails(own)
  BY DEF Draft
<1>5. Guardrails(own) \in 0 .. RequiredGuardrails
  BY GenerationAssumption DEF Guardrails
<1>6. questions \in Seq(FineQuestion)
  BY ScreenedAreFine
<1> HIDE DEF questions
<1>7. DraftsAreSound'
  BY <1>1, <1>2, <1>4, <1>6, FilledIsSound DEF DraftsAreSound, Padding, Fine
<1> QED
  BY <1>1, <1>4, <1>5, <1>7 DEF GenerationInv, GenerationTypeOK

\* Whatever the language model answers, the draft it is made into has as many
\* questions as were asked for, none that trips the policy, and repeats no id but
\* with a question of the padding (generateDraftWithProvenance, normalizeDraft).
THEOREM DraftsComeOutSound == GenerationSpec => []GenerationInv
<1>1. GenerationInit => GenerationInv
  BY GenerationStarts
<1>2. GenerationInv /\ [Generate]_generationVars => GenerationInv'
  <2> SUFFICES ASSUME GenerationInv, [Generate]_generationVars
               PROVE  GenerationInv'
    OBVIOUS
  <2>1. CASE Generate
    BY <2>1, GenerateIsSound
  <2>2. CASE UNCHANGED generationVars
    BY <2>2 DEF generationVars, GenerationInv, GenerationTypeOK, DraftsAreSound
  <2> QED
    BY <2>1, <2>2
<1> QED
  BY <1>1, <1>2, PTL DEF GenerationSpec
=============================================================================
