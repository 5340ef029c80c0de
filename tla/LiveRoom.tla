------------------------------- MODULE LiveRoom -------------------------------
(***************************************************************************)
(* The candidate's tab during a live interview (live-interview-room.tsx,   *)
(* live-interview-client.ts, live-interview-recovery.ts).                  *)
(*                                                                         *)
(* A start, a recovery, a poll of the session's state and a timer run side *)
(* by side in one tab. Each waits (for a session, the microphone, a room,  *)
(* the network) and goes on from refs that the others have moved since. A  *)
(* connection belongs to a generation; the callbacks of an older one are   *)
(* ignored when it is lost, but not when it reports progress.              *)
(***************************************************************************)
EXTENDS Naturals

CONSTANTS
    MaxStarts,          \* times the candidate presses start
    MaxGenerations,     \* connections tried
    MaxTries            \* attempts that fit the window of one recovery

ASSUME RoomAssumption ==
    /\ MaxStarts \in Nat \ {0}
    /\ MaxGenerations \in Nat \ {0}
    /\ MaxTries \in Nat \ {0}

VARIABLES
    page,               \* what is shown, the stream it holds, the flags
    refs,               \* the active generation, the room in hand, the last generation
    rooms,              \* each generation's room
    mic,                \* microphone streams that are on, by the start that asked for them
    start,              \* the start under way
    recovery,           \* the recovery under way
    poll,               \* the poll of the session's state under way
    session             \* how the session fares on the server

roomVars == <<page, refs, rooms, mic, start, recovery, poll, session>>

Starts == 1 .. MaxStarts

Generations == 1 .. MaxGenerations

Status == {"ready", "starting", "live", "reconnecting", "closing",
           "completed", "failed", "abandoned"}

Page == [status : Status, form : BOOLEAN, stream : 0 .. MaxStarts, starts : 0 .. MaxStarts,
         abandoning : BOOLEAN, finishing : BOOLEAN, failing : BOOLEAN, timer : BOOLEAN]

\* `open`: joined, while connectRoom still publishes and reports; `lost`: gone by
\* itself before that was over; `ready`: handed over.
Room == [state : {"none", "connecting", "open", "lost", "ready", "gone"},
         by : {"none", "start", "recovery"}, stream : 0 .. MaxStarts]

NoRoom == [state |-> "none", by |-> "none", stream |-> 0]

NoStart == [at |-> "none", stream |-> 0]

NoRecovery == [at |-> "none", stream |-> 0, tries |-> 0]

RoomInit ==
    /\ page = [status |-> "ready", form |-> FALSE, stream |-> 0, starts |-> 0,
               abandoning |-> FALSE, finishing |-> FALSE, failing |-> FALSE, timer |-> FALSE]
    /\ refs = [active |-> 0, room |-> 0, last |-> 0]
    /\ rooms = [g \in Generations |-> NoRoom]
    /\ mic = {}
    /\ start = NoStart
    /\ recovery = NoRecovery
    /\ poll = "none"
    /\ session = "none"

\* isRoomActive: the polls run while the room is shown.
RoomActive(status) == status \in {"live", "reconnecting", "closing"}

Unfinished(g) == rooms[g].state \in {"connecting", "open", "lost"}

Gone(g) == [rooms EXCEPT ![g].state = "gone"]

\* The room in hand is left: its generation is no longer the active one, so its
\* handlers say nothing of it.
LeaveRoom == IF refs.room = 0 THEN rooms ELSE Gone(refs.room)

NoRoomInHand == [refs EXCEPT !.active = 0, !.room = 0]

-----------------------------------------------------------------------------
(* The candidate.                                                          *)

\* startInterview: from the setup page, where a failure also leads.
PressStart ==
    /\ page.status \in {"ready", "failed"}
    /\ ~page.form
    /\ start = NoStart
    /\ page.starts < MaxStarts
    /\ page' = [page EXCEPT !.status = "starting", !.starts = @ + 1, !.abandoning = FALSE,
                            !.finishing = FALSE, !.failing = FALSE, !.timer = FALSE]
    /\ start' = [at |-> "session", stream |-> page.starts + 1]
    /\ UNCHANGED <<refs, rooms, mic, recovery, poll, session>>

\* The live stage, which the form hides.
OnStage == ~page.form /\ (page.status = "starting" \/ RoomActive(page.status))

\* Mistake for the checks to catch: a recovery is left to end by itself.
RecoveryLeft_Alone == recovery

\* endInterview aborts it, and the attempt it was at.
RecoveryLeft == NoRecovery

\* endInterview: what is still connecting is aborted, the rest left.
PressEnd ==
    /\ OnStage
    /\ page' = [page EXCEPT !.status = "abandoned", !.abandoning = TRUE, !.stream = 0]
    /\ refs' = NoRoomInHand
    /\ recovery' = RecoveryLeft
    /\ start' = [start EXCEPT !.at = IF @ = "none" THEN @ ELSE "aborted"]
    /\ rooms' = [g \in Generations |->
                    IF \/ g = refs.room
                       \/ Unfinished(g) /\ rooms[g].by = "start"
                       \/ Unfinished(g) /\ recovery' = NoRecovery
                    THEN Gone(g)[g] ELSE rooms[g]]
    /\ mic' = mic \ {page.stream}
    /\ UNCHANGED <<poll, session>>

RetryAfterAbandon ==
    /\ page.status = "abandoned"
    /\ page' = [page EXCEPT !.abandoning = FALSE, !.status = "ready", !.form = FALSE]
    /\ UNCHANGED <<refs, rooms, mic, start, recovery, poll, session>>

\* continueInWriting, offered with the notice of inactivity: nothing is aborted.
ContinueInWriting ==
    /\ OnStage /\ RoomActive(page.status)
    /\ page' = [page EXCEPT !.status = "ready", !.form = TRUE, !.stream = 0]
    /\ refs' = NoRoomInHand
    /\ rooms' = LeaveRoom
    /\ mic' = mic \ {page.stream}
    /\ UNCHANGED <<start, recovery, poll, session>>

\* openFormFallback, its way back, and submitWrittenAnswers.
UseForm ==
    /\ \/ /\ page.status \in {"ready", "failed"} /\ ~page.form
          /\ page' = [page EXCEPT !.status = "ready", !.form = TRUE]
       \/ /\ page.form /\ page.status \notin {"completed", "abandoned"}
          /\ page' \in {[page EXCEPT !.form = FALSE], [page EXCEPT !.status = "completed"]}
    /\ UNCHANGED <<refs, rooms, mic, start, recovery, poll, session>>

-----------------------------------------------------------------------------
(* The start.                                                              *)

\* createSession: a completed session is not opened again.
Opened == session # "completed" /\ session' = "live"

\* connectPreparedSession takes the next generation.
Connects(by, stream) ==
    /\ refs.last < MaxGenerations
    /\ refs' = [refs EXCEPT !.last = @ + 1, !.active = refs.last + 1]
    /\ rooms' = [rooms EXCEPT ![refs.last + 1] = [state |-> "connecting", by |-> by, stream |-> stream]]

StartGoesOn ==
    \/ /\ start.at = "session"
       /\ Opened
       /\ start' = [start EXCEPT !.at = "media"]
       /\ UNCHANGED <<page, refs, rooms, mic>>
    \/ /\ start.at = "media"
       /\ start' = [start EXCEPT !.at = "room"]
       /\ mic' = mic \cup {start.stream}
       /\ page' = [page EXCEPT !.stream = start.stream]
       /\ Connects("start", start.stream)
       /\ UNCHANGED session

\* Refused a session, the microphone or a room, or aborted: the stream it was
\* granted is stopped.
StartFails ==
    /\ \/ start.at \in {"session", "media", "failing"}
          /\ page' = [page EXCEPT !.status = "failed", !.stream = 0]
       \/ start.at = "aborted" /\ page' = [page EXCEPT !.stream = 0]
    /\ start' = NoStart
    /\ rooms' = LeaveRoom
    /\ refs' = [refs EXCEPT !.room = 0]
    /\ mic' = mic \ {start.stream}
    /\ UNCHANGED session

-----------------------------------------------------------------------------
(* Rooms.                                                                  *)

RoomOpens(g) ==
    /\ rooms[g].state = "connecting"
    /\ rooms' = [rooms EXCEPT ![g].state = "open"]
    /\ UNCHANGED <<page, refs, start, recovery>>

\* Whose room it was goes on: the start, or the attempt of the recovery, which is
\* over when its room is still the active one.
Ends(g, well) ==
    IF rooms[g].by = "start"
    THEN /\ start' = IF start.at # "room" THEN start
                     ELSE IF well THEN NoStart ELSE [start EXCEPT !.at = "failing"]
         /\ UNCHANGED recovery
    ELSE /\ recovery' = IF recovery.at # "room" THEN recovery
                        ELSE IF well /\ refs.active = g THEN NoRecovery
                        ELSE [recovery EXCEPT !.at = "wait"]
         /\ UNCHANGED start

\* connectRoom returns; a room that is not the active one is left at once.
RoomReady(g) ==
    /\ rooms[g].state \in {"open", "lost"}
    /\ rooms' = [rooms EXCEPT ![g].state =
                    IF refs.active = g /\ rooms[g].state = "open" THEN "ready" ELSE "gone"]
    /\ refs' = IF refs.active = g THEN [refs EXCEPT !.room = g] ELSE refs
    /\ page' = [page EXCEPT !.status = "live"]
    /\ Ends(g, TRUE)

\* Refused, or out of its eight seconds.
ConnectFails(g) ==
    /\ Unfinished(g)
    /\ rooms' = Gone(g)
    /\ refs' = IF refs.active = g THEN [refs EXCEPT !.active = 0] ELSE refs
    /\ Ends(g, FALSE)
    /\ UNCHANGED page

\* onRoomConnected, onInterviewerJoined, onInterviewerReady, onReconnecting: they
\* do not ask which generation they are of.
RoomReports(g) ==
    /\ rooms[g].state \in {"open", "ready"}
    /\ \E status \in {"live", "reconnecting"} : page' = [page EXCEPT !.status = status]
    /\ UNCHANGED <<refs, rooms, start, recovery>>

\* onDisconnected, when it was not asked for.
Disconnects(g) ==
    /\ rooms[g].state \in {"open", "ready"}
    /\ rooms' = [rooms EXCEPT ![g].state = IF @ = "open" THEN "lost" ELSE "gone"]
    /\ refs' = IF refs.active = g THEN NoRoomInHand ELSE refs
    /\ IF refs.active # g THEN UNCHANGED <<page, recovery>>
       ELSE IF page.failing THEN page' = [page EXCEPT !.status = "failed"] /\ UNCHANGED recovery
       ELSE IF recovery # NoRecovery \/ page.abandoning \/ page.finishing
            THEN UNCHANGED <<page, recovery>>
       ELSE /\ recovery' = [at |-> "wait", stream |-> rooms[g].stream, tries |-> 0]
            /\ page' = [page EXCEPT !.status = "reconnecting"]
    /\ UNCHANGED start

-----------------------------------------------------------------------------
(* The recovery, the poll and the timer.                                   *)

\* One more attempt, with a session of its own.
Recovers ==
    /\ recovery.at = "wait"
    /\ recovery.tries < MaxTries
    /\ page' = [page EXCEPT !.status = "reconnecting"]
    /\ \/ /\ Opened
          /\ Connects("recovery", recovery.stream)
          /\ recovery' = [recovery EXCEPT !.at = "room", !.tries = @ + 1]
       \/ /\ recovery' = [recovery EXCEPT !.tries = @ + 1]
          /\ UNCHANGED <<refs, rooms, session>>
    /\ UNCHANGED <<mic, start, poll>>

\* The five minutes are over.
RecoveryExhausted ==
    /\ recovery.at = "wait"
    /\ recovery.tries = MaxTries
    /\ recovery' = NoRecovery
    /\ mic' = mic \ {recovery.stream}
    /\ page' = [page EXCEPT !.status = "failed", !.stream = 0]
    /\ UNCHANGED <<refs, rooms, start, poll, session>>

SessionEnds ==
    /\ session = "live"
    /\ session' \in {"completed", "failed"}
    /\ UNCHANGED <<page, refs, rooms, mic, start, recovery, poll>>

PollReads ==
    /\ poll = "none"
    /\ RoomActive(page.status)
    /\ session # "none"
    /\ poll' = session
    /\ UNCHANGED <<page, refs, rooms, mic, start, recovery, session>>

\* loadSessionState's answer; a poll of a room that is no longer shown is not
\* heard.
PollAnswers ==
    /\ poll \in {"live", "completed", "failed"}
    /\ LET heard == RoomActive(page.status)
       IN  /\ page' = IF heard /\ poll = "completed" /\ ~page.finishing
                      THEN [page EXCEPT !.finishing = TRUE, !.timer = TRUE, !.status = "closing"]
                      ELSE IF heard /\ poll = "failed" /\ recovery = NoRecovery
                      THEN [page EXCEPT !.failing = TRUE]
                      ELSE page
           /\ poll' = IF heard /\ poll = "failed" /\ recovery = NoRecovery THEN "posting" ELSE "none"
    /\ UNCHANGED <<refs, rooms, mic, start, recovery, session>>

\* The failure is posted first; then whatever is there by now is taken down.
FailureTakesDown ==
    /\ poll = "posting"
    /\ poll' = "none"
    /\ page' = [page EXCEPT !.status = "failed", !.stream = 0]
    /\ refs' = NoRoomInHand
    /\ rooms' = LeaveRoom
    /\ mic' = mic \ {page.stream}
    /\ UNCHANGED <<start, recovery, session>>

\* scheduleServerCompletion's timer.
TimerFires ==
    /\ page.timer
    /\ page' = [page EXCEPT !.timer = FALSE, !.status = "completed", !.stream = 0]
    /\ refs' = NoRoomInHand
    /\ rooms' = [g \in Generations |-> IF g = refs.room \/ (Unfinished(g) /\ rooms[g].by = "recovery")
                                       THEN Gone(g)[g] ELSE rooms[g]]
    /\ recovery' = NoRecovery
    /\ mic' = mic \ {page.stream}
    /\ UNCHANGED <<start, poll, session>>

-----------------------------------------------------------------------------
RoomNext ==
    \/ PressStart \/ PressEnd \/ RetryAfterAbandon \/ ContinueInWriting \/ UseForm
    \/ (StartGoesOn \/ StartFails) /\ UNCHANGED <<recovery, poll>>
    \/ \E g \in Generations : /\ RoomOpens(g) \/ RoomReady(g) \/ ConnectFails(g)
                                   \/ RoomReports(g) \/ Disconnects(g)
                              /\ UNCHANGED <<mic, poll, session>>
    \/ Recovers \/ RecoveryExhausted
    \/ SessionEnds \/ PollReads \/ PollAnswers \/ FailureTakesDown \/ TimerFires

RoomSpec == RoomInit /\ [][RoomNext]_roomVars

-----------------------------------------------------------------------------
RoomTypeOK ==
    /\ page \in Page
    /\ refs \in [active : 0 .. MaxGenerations, room : 0 .. MaxGenerations, last : 0 .. MaxGenerations]
    /\ rooms \in [Generations -> Room]
    /\ mic \subseteq Starts

\* A candidate who leaves by the button has left: no recovery is under way or can
\* be handed a room, and no connection is the one the tab waits for, whatever was
\* connecting, lost or being retried when the button was pressed (endInterview and
\* its guard in recoverDisconnectedSession).
LeavingEndsRecovery ==
    page.abandoning =>
        /\ recovery = NoRecovery
        /\ refs.active = 0
        /\ \A g \in Generations : Unfinished(g) => rooms[g].by = "start"
\* Who has left is left alone, and what the tab keeps is of its types.
RoomInv == RoomTypeOK /\ LeavingEndsRecovery
=============================================================================
